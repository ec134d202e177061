--------------------------- MODULE SenderSession ---------------------------
(***************************************************************************)
(* What the sender supervisor (apps/desktop/src/lan.rs) promises about one *)
(* sender session, without discovery, grace periods, retries or virtual    *)
(* displays: a set of receivers is streamed to or nobody is, the set is    *)
(* never changed in place, system audio only ever goes to exactly the      *)
(* receivers that see a picture, and a closed session stays closed.        *)
(***************************************************************************)
CONSTANT Receivers

VARIABLES streaming,   \* receivers with a video pipeline
          sounding,    \* receivers the audio pipeline sends to
          closed       \* the session was stopped

vars == <<streaming, sounding, closed>>

Init == /\ streaming = {}
        /\ sounding = {}
        /\ closed = FALSE

(* A whole route starts at once, from silence, with or without audio.      *)
Start(R) == /\ ~closed
            /\ streaming = {} /\ sounding = {}
            /\ streaming' = R
            /\ sounding' \in {{}, R}
            /\ UNCHANGED closed

(* Audio joins or leaves without touching the video of the session.        *)
StartSound == /\ ~closed
              /\ streaming # {} /\ sounding = {}
              /\ sounding' = streaming
              /\ UNCHANGED <<streaming, closed>>

StopSound == /\ sounding # {}
             /\ sounding' = {}
             /\ UNCHANGED <<streaming, closed>>

StopAll == /\ streaming # {}
           /\ streaming' = {} /\ sounding' = {}
           /\ UNCHANGED closed

Close == /\ ~closed
         /\ closed' = TRUE
         /\ streaming' = {} /\ sounding' = {}

Next == \/ \E R \in (SUBSET Receivers) \ {{}} : Start(R)
        \/ StartSound \/ StopSound \/ StopAll \/ Close

Spec == Init /\ [][Next]_vars
=============================================================================
