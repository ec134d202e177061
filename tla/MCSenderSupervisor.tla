------------------------ MODULE MCSenderSupervisor ------------------------
(* Instances of SenderSupervisor for TLC.                                  *)
EXTENDS SenderSupervisor

CONSTANTS modeA, modeB   \* two things a receiver may announce

OneMode  == {modeA}
TwoModes == {modeA, modeB}
=============================================================================
