---------------------------- MODULE MCSenderRate ----------------------------
(* Instances of SenderRate for TLC.                                        *)
EXTENDS SenderRate

\* Between the thresholds in loss only, and congested in jitter only, which is
\* no reason for a key frame.
MixedReports == {[loss |-> 1, late |-> 0, jitter |-> 0], [loss |-> 0, late |-> 0, jitter |-> 2]}

=============================================================================
