---------------------- MODULE SenderSupervisorProofs ----------------------
(***************************************************************************)
(* Theorems of SenderSupervisor for every set of receivers, every limit    *)
(* and every configuration: type correctness, the safety invariants, and   *)
(* that the supervisor implements SenderSession.                           *)
(***************************************************************************)
EXTENDS SenderSupervisor, FiniteSetTheorems, TLAPS

USE ReceiversAssumption, CapsAssumption, ConfigAssumption, NumberAssumption
USE DEF ReceiversAssumption, CapsAssumption, ConfigAssumption, NumberAssumption

-----------------------------------------------------------------------------
(* The routes are the functions from a set of receivers to capabilities,    *)
(* and the empty one is the only one nobody is on.                          *)
LEMMA RoutesFacts ==
  /\ NoRoute \in Routes
  /\ DOMAIN NoRoute = {}
  /\ \A route \in Routes : DOMAIN route \subseteq Receivers
  /\ \A route \in Routes : DOMAIN route = {} => route = NoRoute
<1>1. NoRoute \in [{} -> Caps]
  BY DEF NoRoute
<1>2. {} \in SUBSET Receivers
  OBVIOUS
<1>3. NoRoute \in Routes
  BY <1>1, <1>2 DEF Routes
<1>4. ASSUME NEW route \in Routes
      PROVE  DOMAIN route \subseteq Receivers /\ (DOMAIN route = {} => route = NoRoute)
  <2>1. PICK S \in SUBSET Receivers : route \in [S -> Caps]
    BY DEF Routes
  <2>2. DOMAIN route = S /\ route = [r \in S |-> route[r]]
    BY <2>1
  <2>3. ASSUME DOMAIN route = {} PROVE route = NoRoute
    <3>1. S = {}
      BY <2>2, <2>3
    <3>2. route = [r \in {} |-> route[r]]
      BY <2>2, <3>1
    <3> QED BY <3>2 DEF NoRoute
  <2> QED BY <2>2, <2>3
<1> QED BY <1>1, <1>3, <1>4

(* Cutting an announced set to the limit leaves a route, whatever the limit *)
(* and the order.                                                           *)
LEMMA ResolvableAreRoutes == ASSUME lan \in Routes PROVE Resolvable \subseteq Routes
<1>1. \A seen \in Routes : Selected(seen) \in Routes
  <2>1. SUFFICES ASSUME NEW seen \in Routes PROVE Selected(seen) \in Routes
    OBVIOUS
  <2>2. FirstN(DOMAIN seen, ReceiverLimit) \subseteq DOMAIN seen
    BY DEF FirstN
  <2>3. PICK S \in SUBSET Receivers : seen \in [S -> Caps]
    BY DEF Routes
  <2>4. Selected(seen) \in [FirstN(DOMAIN seen, ReceiverLimit) -> Caps]
    BY <2>2, <2>3 DEF Selected
  <2>5. FirstN(DOMAIN seen, ReceiverLimit) \in SUBSET Receivers
    BY <2>2, <2>3
  <2> QED BY <2>4, <2>5 DEF Routes
<1>2. [r \in Pinned |-> PinnedCaps] \in Routes
  BY DEF Routes
<1> QED BY <1>1, <1>2 DEF Resolvable

-----------------------------------------------------------------------------
(* The loop's own bookkeeping: which of its locals agree where.             *)
Bookkeeping ==
  /\ DOMAIN active = video
  /\ pc \in {"prepare", "assign"} => video = {}
  /\ pc \notin {"prepare", "assign"} => found = NoRoute
  /\ video # {} => ~detached

(* What the audio flag will be once the channel is drained is what the tray *)
(* last wanted; a stop is the last command of the channel.                  *)
LastAudio == IF commands # <<>> /\ commands[Len(commands)] = "stop"
             THEN Len(commands) - 1 ELSE Len(commands)
Channel ==
  /\ \A i \in 1..Len(commands) : commands[i] = "stop" => i = Len(commands) /\ stopSent
  /\ LastAudio = 0 => audioEnabled = wanted
  /\ LastAudio > 0 => commands[LastAudio] = IF wanted THEN "audioOn" ELSE "audioOff"

(* The audio pipeline respects the thread's own flag at every point.        *)
FlagIsObeyed == ~audioEnabled => audio = {}

(* The inductive invariant.                                                 *)
SupervisorInv ==
  /\ TypeOK
  /\ Bookkeeping
  /\ Channel
  /\ FlagIsObeyed
  /\ AudioFollowsVideo
  /\ OwnDisplayEach
  /\ PreparationIsNotStale
  /\ NoUnreportedStream

-----------------------------------------------------------------------------
(* The audio pipeline stays one, whatever apply_sender_audio_state decides. *)
LEMMA AudioStateType ==
  ASSUME NEW enabled, NEW hosts \in SUBSET Receivers,
         audio \subseteq Receivers, deadAudio \in BOOLEAN,
         ApplyAudioState(enabled, hosts)
  PROVE  audio' \subseteq Receivers /\ deadAudio' \in BOOLEAN
BY DEF ApplyAudioState

(* Asking for displays never leaves more of them than the driver can make.  *)
LEMMA AssignType ==
  ASSUME TypeOK, AssignDisplays PROVE displays' \in 0..MaxBundled
<1>1. DOMAIN found \subseteq Receivers
  BY RoutesFacts DEF TypeOK
<1>2. Cardinality(DOMAIN found) \in Nat
  BY <1>1, FS_Subset, FS_CardinalityType
<1> QED BY <1>2 DEF AssignDisplays, TypeOK

(* One command off the channel, in the drain or in the wait.                *)
LEMMA CommandType ==
  ASSUME TypeOK, NEW resume \in {"drain", "wait"}, ApplyCommand(resume)
  PROVE  TypeOK'
<1>1. commands \in Seq({"audioOn", "audioOff", "stop"}) /\ commands # <<>>
  BY DEF TypeOK, ApplyCommand
<1>2. commands' \in Seq({"audioOn", "audioOff", "stop"})
  BY <1>1 DEF ApplyCommand
<1>3. DOMAIN active \in SUBSET Receivers /\ audio \subseteq Receivers /\ deadAudio \in BOOLEAN
  BY RoutesFacts DEF TypeOK
<1>4. audio' \subseteq Receivers /\ deadAudio' \in BOOLEAN
  BY <1>3, AudioStateType DEF ApplyCommand, audioVars
<1>5. pc' \in {"exit", resume} /\ audioEnabled' \in BOOLEAN
  BY DEF ApplyCommand, audioVars, TypeOK
<1> QED
  BY <1>2, <1>4, <1>5 DEF ApplyCommand, TypeOK, loopVars, trayVars, worldVars

(* Every step keeps every variable in its type.                             *)
LEMMA TypeStep == ASSUME TypeOK, [Next]_vars PROVE TypeOK'
<1> USE TypeOK, RoutesFacts
<1>a. Resolvable \subseteq Routes
  BY ResolvableAreRoutes DEF TypeOK
<1>c. 1..MaxBundled \subseteq 0..MaxBundled
  OBVIOUS
<1>d. DOMAIN active \subseteq Receivers /\ DOMAIN found \subseteq Receivers
  BY DEF TypeOK
<1>1. CASE Drain
  BY <1>1, CommandType DEF Drain
<1>2. CASE DrainDone
  BY <1>2 DEF DrainDone, TypeOK, loopVars, audioVars, trayVars, worldVars
<1>3. CASE ReapVideo
  <2>1. /\ active' \in Routes /\ prepared' \in Routes
        /\ video' \subseteq Receivers /\ deadVideo' \subseteq video'
        /\ audio' \subseteq Receivers /\ deadAudio' \in BOOLEAN
    <3>1. CASE deadVideo # {}
      BY <1>3, <3>1 DEF ReapVideo, StopStreams, TypeOK
    <3>2. CASE deadVideo = {}
      BY <1>3, <3>2 DEF ReapVideo, TypeOK
    <3> QED BY <3>1, <3>2
  <2>2. /\ pc' = "reapAudio"
        /\ UNCHANGED <<failedStarts, detached, age, found, audioEnabled, commands,
                       streamActive, alert, trayVars, worldVars>>
    BY <1>3 DEF ReapVideo
  <2> QED BY <2>1, <2>2 DEF TypeOK, trayVars, worldVars
<1>4. CASE ReapAudio
  <2>1. audio' \subseteq Receivers /\ deadAudio' \in BOOLEAN
    <3>1. CASE deadAudio
      BY <1>4, <3>1 DEF ReapAudio, TypeOK
    <3>2. CASE ~deadAudio
      BY <1>4, <3>2 DEF ReapAudio, TypeOK
    <3> QED BY <3>1, <3>2
  <2>2. /\ pc' = "discover"
        /\ UNCHANGED <<loopVars, audioEnabled, commands, streamActive, alert, trayVars,
                       worldVars>>
    BY <1>4 DEF ReapAudio
  <2> QED BY <2>1, <2>2 DEF TypeOK, loopVars, trayVars, worldVars
<1>5. CASE RouteChanged
  <2>1. found' \in Routes
    BY <1>5, <1>a DEF RouteChanged
  <2>2. age' \in 0..Grace /\ pc' = "prepare"
    BY <1>5 DEF RouteChanged
  <2>3. /\ audio' = {} /\ deadAudio' = FALSE
        /\ video' = {} /\ deadVideo' = {} /\ active' = NoRoute
    BY <1>5 DEF RouteChanged, StopStreams
  <2>4. UNCHANGED <<failedStarts, detached, prepared, audioEnabled, commands,
                    streamActive, alert, trayVars, worldVars>>
    BY <1>5 DEF RouteChanged
  <2> QED BY <2>1, <2>2, <2>3, <2>4 DEF TypeOK, trayVars, worldVars
<1>6. CASE RouteUnchanged
  <2>1. audio' \subseteq Receivers /\ deadAudio' \in BOOLEAN
    BY <1>6, <1>d, AudioStateType DEF RouteUnchanged, TypeOK
  <2>2. age' \in 0..Grace /\ pc' = "publish" /\ detached' = FALSE
    BY <1>6 DEF RouteUnchanged
  <2>3. UNCHANGED <<failedStarts, active, video, deadVideo, prepared, found, audioEnabled,
                    commands, streamActive, alert, trayVars, worldVars>>
    BY <1>6 DEF RouteUnchanged
  <2> QED BY <2>1, <2>2, <2>3 DEF TypeOK, trayVars, worldVars
<1>7. CASE KeepDuringGrace
  BY <1>7 DEF KeepDuringGrace, Later, TypeOK, loopVars, audioVars, trayVars, worldVars
<1>8. CASE LoseReceivers
  <2>1. Later \subseteq 0..Grace /\ Grace \in 0..Grace
    BY DEF Later
  <2>2. age' \in 0..Grace
    BY <1>8, <2>1 DEF LoseReceivers
  <2>3. displays' \in 0..MaxBundled
    BY <1>8 DEF LoseReceivers, RemoveDisplays, TypeOK
  <2>4. detached' \in BOOLEAN /\ prepared' \in Routes
    BY <1>8 DEF LoseReceivers, TypeOK
  <2> QED
    BY <1>8, <2>2, <2>3, <2>4 DEF LoseReceivers, StopStreams, TypeOK, trayVars
<1>9. CASE Prepare
  BY <1>9, <1>c DEF Prepare, TypeOK, loopVars, audioVars, trayVars, worldVars
<1>10. CASE PrepareFails
  BY <1>10 DEF PrepareFails, StartFails, TypeOK, loopVars, audioVars, trayVars, worldVars
<1>11. CASE Commit
  <2>1. audio' \subseteq Receivers /\ deadAudio' \in BOOLEAN
    BY <1>11, <1>d, AudioStateType DEF Commit, TypeOK
  <2>2. displays' \in 0..MaxBundled
    BY <1>11, AssignType DEF Commit
  <2>3. failedStarts' \in 0..MaxFailures /\ pc' = "publish"
    BY <1>11 DEF Commit
  <2>4. /\ active' = found /\ found' = NoRoute /\ video' = DOMAIN found /\ deadVideo' = {}
        /\ detached' = FALSE /\ disturbed' = FALSE /\ told' = FALSE
    BY <1>11 DEF Commit
  <2>5. UNCHANGED <<age, prepared, audioEnabled, commands, streamActive, alert,
                    wanted, stopSent, label, settled, lan>>
    BY <1>11 DEF Commit
  <2> QED BY <1>d, <2>1, <2>2, <2>3, <2>4, <2>5 DEF TypeOK
<1>12. CASE AssignFails
  <2>1. displays' \in 0..MaxBundled
    BY <1>12, AssignType DEF AssignFails
  <2> QED BY <1>12, <2>1 DEF AssignFails, StartFails, TypeOK, audioVars, trayVars
<1>13. CASE Publish
  BY <1>13 DEF Publish, TypeOK, loopVars, audioVars, trayVars, worldVars
<1>14. CASE WaitCommand
  BY <1>14, CommandType DEF WaitCommand
<1>15. CASE WaitOver
  BY <1>15 DEF WaitOver, TypeOK, loopVars, audioVars, trayVars, worldVars
<1>16. CASE ReportStopped
  BY <1>16 DEF ReportStopped, TypeOK, loopVars, audioVars, trayVars, worldVars
<1>17. CASE Finish
  BY <1>17 DEF Finish, StopStreams, TypeOK, loopVars, audioVars, trayVars, worldVars
<1>18. CASE ToggleAudio
  <2>1. wanted' \in BOOLEAN
    <3>1. wanted' \in IF wanted THEN BOOLEAN ELSE {TRUE}
      BY <1>18 DEF ToggleAudio
    <3> QED BY <3>1, Zenon
  <2>2. PICK word \in {"audioOn", "audioOff", "stop"} : commands' = Append(commands, word)
    BY <1>18 DEF ToggleAudio
  <2>3. commands' \in Seq({"audioOn", "audioOff", "stop"})
    BY <2>2 DEF TypeOK
  <2> QED
    BY <1>18, <2>1, <2>3 DEF ToggleAudio, TypeOK, loopVars, audioVars, trayVars, worldVars
<1>19. CASE ToggleNotSaved
  BY <1>19 DEF ToggleNotSaved, TypeOK, loopVars, audioVars, trayVars, worldVars
<1>20. CASE SendStop
  <2>1. commands' \in Seq({"audioOn", "audioOff", "stop"})
    BY <1>20 DEF SendStop, TypeOK
  <2> QED BY <1>20, <2>1 DEF SendStop, TypeOK, loopVars, audioVars, worldVars
<1>21. CASE PollStatus
  <2>1. told' \in BOOLEAN
    BY <1>21 DEF PollStatus
  <2> QED
    BY <1>21, <2>1 DEF PollStatus, TypeOK, loopVars, audioVars, worldVars
<1>22. CASE VideoDies
  BY <1>22 DEF VideoDies, TypeOK, loopVars, audioVars, trayVars, worldVars
<1>23. CASE AudioDies
  BY <1>23 DEF AudioDies, TypeOK, loopVars, audioVars, trayVars, worldVars
<1>24. CASE DisplaysChange
  BY <1>24 DEF DisplaysChange, TypeOK, loopVars, audioVars, trayVars, worldVars
<1>25. CASE Settle
  BY <1>25 DEF Settle, TypeOK, loopVars, audioVars, trayVars, worldVars
<1>26. CASE UNCHANGED vars
  BY <1>26 DEF vars, TypeOK, loopVars, audioVars, trayVars, worldVars
<1> QED
  BY <1>1, <1>2, <1>3, <1>4, <1>5, <1>6, <1>7, <1>8, <1>9, <1>10, <1>11, <1>12, <1>13, <1>14, <1>15, <1>16, <1>17, <1>18, <1>19, <1>20, <1>21, <1>22, <1>23, <1>24, <1>25, <1>26 DEF Next, Supervisor, Tray, World, Stopped

-----------------------------------------------------------------------------
(* Each part of the invariant survives every step; the actions that can     *)
(* disturb it have a step each, the others leave what it speaks of alone.   *)

LEMMA BookkeepingStep ==
  ASSUME TypeOK, Bookkeeping, [Next]_vars PROVE Bookkeeping'
<1>1. CASE Drain
  BY <1>1 DEF Drain, ApplyCommand, Bookkeeping, loopVars, audioVars, trayVars, worldVars
<1>2. CASE DrainDone
  BY <1>2 DEF DrainDone, Bookkeeping, loopVars, audioVars, trayVars, worldVars
<1>3. CASE ReapVideo
  BY <1>3, RoutesFacts DEF ReapVideo, StopStreams, Bookkeeping, loopVars, audioVars,
     trayVars, worldVars
<1>4. CASE ReapAudio
  BY <1>4 DEF ReapAudio, Bookkeeping, loopVars, audioVars, trayVars, worldVars
<1>5. CASE RouteChanged
  BY <1>5, RoutesFacts DEF RouteChanged, StopStreams, Bookkeeping, loopVars, audioVars,
     trayVars, worldVars
<1>6. CASE RouteUnchanged
  BY <1>6 DEF RouteUnchanged, Bookkeeping, loopVars, audioVars, trayVars, worldVars
<1>7. CASE KeepDuringGrace
  BY <1>7 DEF KeepDuringGrace, Bookkeeping, loopVars, audioVars, trayVars, worldVars
<1>8. CASE LoseReceivers
  BY <1>8, RoutesFacts DEF LoseReceivers, StopStreams, Bookkeeping, loopVars, audioVars,
     trayVars, worldVars
<1>9. CASE Prepare
  BY <1>9 DEF Prepare, Bookkeeping, loopVars, audioVars, trayVars, worldVars
<1>10. CASE PrepareFails
  BY <1>10 DEF PrepareFails, StartFails, Bookkeeping, loopVars, audioVars, trayVars,
     worldVars
<1>11. CASE Commit
  BY <1>11 DEF Commit, Bookkeeping, loopVars, audioVars, trayVars, worldVars
<1>12. CASE AssignFails
  BY <1>12 DEF AssignFails, StartFails, Bookkeeping, loopVars, audioVars, trayVars,
     worldVars
<1>13. CASE Publish
  BY <1>13 DEF Publish, Bookkeeping, loopVars, audioVars, trayVars, worldVars
<1>14. CASE WaitCommand
  BY <1>14 DEF WaitCommand, ApplyCommand, Bookkeeping, loopVars, audioVars, trayVars,
     worldVars
<1>15. CASE WaitOver
  BY <1>15 DEF WaitOver, Bookkeeping, loopVars, audioVars, trayVars, worldVars
<1>16. CASE ReportStopped
  BY <1>16 DEF ReportStopped, Bookkeeping, loopVars, audioVars, trayVars, worldVars
<1>17. CASE Finish
  BY <1>17, RoutesFacts DEF Finish, StopStreams, Bookkeeping, loopVars, audioVars,
     trayVars, worldVars
<1>18. ASSUME ~Drain /\ ~DrainDone /\ ~ReapVideo /\ ~ReapAudio /\ ~RouteChanged /\
             ~RouteUnchanged /\ ~KeepDuringGrace /\ ~LoseReceivers /\ ~Prepare /\
             ~PrepareFails /\ ~Commit /\ ~AssignFails /\ ~Publish /\ ~WaitCommand /\
             ~WaitOver /\ ~ReportStopped /\ ~Finish
      PROVE  UNCHANGED <<pc, active, video, found, detached>>
  BY <1>18 DEF vars, Next, Supervisor, Tray, World, Stopped, ToggleAudio,
     ToggleNotSaved, SendStop, PollStatus, VideoDies, AudioDies, DisplaysChange, Settle,
     loopVars, audioVars, trayVars, worldVars
<1> QED
  BY <1>1, <1>2, <1>3, <1>4, <1>5, <1>6, <1>7, <1>8, <1>9, <1>10, <1>11, <1>12, <1>13,
     <1>14, <1>15, <1>16, <1>17, <1>18 DEF Bookkeeping

LEMMA FlagIsObeyedStep ==
  ASSUME TypeOK, FlagIsObeyed, [Next]_vars PROVE FlagIsObeyed'
<1>1. CASE Drain
  BY <1>1 DEF Drain, ApplyCommand, ApplyAudioState, FlagIsObeyed, TypeOK, loopVars,
     audioVars, trayVars, worldVars
<1>2. CASE WaitCommand
  BY <1>2 DEF WaitCommand, ApplyCommand, ApplyAudioState, FlagIsObeyed, TypeOK,
     loopVars, audioVars, trayVars, worldVars
<1>3. CASE ReapVideo
  BY <1>3 DEF ReapVideo, StopStreams, FlagIsObeyed, TypeOK, loopVars, audioVars,
     trayVars, worldVars
<1>4. CASE ReapAudio
  BY <1>4 DEF ReapAudio, FlagIsObeyed, TypeOK, loopVars, audioVars, trayVars, worldVars
<1>5. CASE RouteChanged
  BY <1>5 DEF RouteChanged, StopStreams, FlagIsObeyed, TypeOK, loopVars, audioVars,
     trayVars, worldVars
<1>6. CASE RouteUnchanged
  BY <1>6 DEF RouteUnchanged, ApplyAudioState, FlagIsObeyed, TypeOK, loopVars,
     audioVars, trayVars, worldVars
<1>7. CASE LoseReceivers
  BY <1>7 DEF LoseReceivers, StopStreams, FlagIsObeyed, TypeOK, loopVars, audioVars,
     trayVars, worldVars
<1>8. CASE Commit
  BY <1>8 DEF Commit, ApplyAudioState, FlagIsObeyed, TypeOK, loopVars, audioVars,
     trayVars, worldVars
<1>9. CASE Finish
  BY <1>9 DEF Finish, StopStreams, FlagIsObeyed, TypeOK, loopVars, audioVars, trayVars,
     worldVars
<1>10. ASSUME ~Drain /\ ~WaitCommand /\ ~ReapVideo /\ ~ReapAudio /\ ~RouteChanged /\
             ~RouteUnchanged /\ ~LoseReceivers /\ ~Commit /\ ~Finish
      PROVE  UNCHANGED <<audio, audioEnabled>>
  BY <1>10 DEF vars, Next, Supervisor, Tray, World, Stopped, DrainDone, KeepDuringGrace,
     Prepare, PrepareFails, AssignFails, Publish, WaitOver, ReportStopped, ToggleAudio,
     ToggleNotSaved, SendStop, PollStatus, VideoDies, AudioDies, DisplaysChange, Settle,
     StartFails, loopVars, audioVars, trayVars, worldVars
<1> QED
  BY <1>1, <1>2, <1>3, <1>4, <1>5, <1>6, <1>7, <1>8, <1>9, <1>10 DEF FlagIsObeyed

LEMMA AudioFollowsVideoStep ==
  ASSUME TypeOK, Bookkeeping, AudioFollowsVideo, [Next]_vars PROVE AudioFollowsVideo'
<1>1. CASE Drain
  BY <1>1 DEF Drain, ApplyCommand, ApplyAudioState, AudioFollowsVideo, Bookkeeping,
     loopVars, audioVars, trayVars, worldVars
<1>2. CASE WaitCommand
  BY <1>2 DEF WaitCommand, ApplyCommand, ApplyAudioState, AudioFollowsVideo,
     Bookkeeping, loopVars, audioVars, trayVars, worldVars
<1>3. CASE ReapVideo
  BY <1>3 DEF ReapVideo, StopStreams, AudioFollowsVideo, Bookkeeping, loopVars,
     audioVars, trayVars, worldVars
<1>4. CASE ReapAudio
  BY <1>4 DEF ReapAudio, AudioFollowsVideo, Bookkeeping, loopVars, audioVars, trayVars,
     worldVars
<1>5. CASE RouteChanged
  BY <1>5 DEF RouteChanged, StopStreams, AudioFollowsVideo, Bookkeeping, loopVars,
     audioVars, trayVars, worldVars
<1>6. CASE RouteUnchanged
  BY <1>6 DEF RouteUnchanged, ApplyAudioState, AudioFollowsVideo, Bookkeeping, loopVars,
     audioVars, trayVars, worldVars
<1>7. CASE LoseReceivers
  BY <1>7 DEF LoseReceivers, StopStreams, AudioFollowsVideo, Bookkeeping, loopVars,
     audioVars, trayVars, worldVars
<1>8. CASE Commit
  BY <1>8 DEF Commit, ApplyAudioState, AudioFollowsVideo, Bookkeeping, loopVars,
     audioVars, trayVars, worldVars
<1>9. CASE Finish
  BY <1>9 DEF Finish, StopStreams, AudioFollowsVideo, Bookkeeping, loopVars, audioVars,
     trayVars, worldVars
<1>10. ASSUME ~Drain /\ ~WaitCommand /\ ~ReapVideo /\ ~ReapAudio /\ ~RouteChanged /\
             ~RouteUnchanged /\ ~LoseReceivers /\ ~Commit /\ ~Finish
      PROVE  UNCHANGED <<audio, video>>
  BY <1>10 DEF vars, Next, Supervisor, Tray, World, Stopped, DrainDone, KeepDuringGrace,
     Prepare, PrepareFails, AssignFails, Publish, WaitOver, ReportStopped, ToggleAudio,
     ToggleNotSaved, SendStop, PollStatus, VideoDies, AudioDies, DisplaysChange, Settle,
     StartFails, loopVars, audioVars, trayVars, worldVars
<1> QED
  BY <1>1, <1>2, <1>3, <1>4, <1>5, <1>6, <1>7, <1>8, <1>9, <1>10 DEF AudioFollowsVideo

LEMMA OwnDisplayEachStep ==
  ASSUME Bookkeeping, OwnDisplayEach, [Next]_vars PROVE OwnDisplayEach'
<1>1. CASE ReapVideo
  BY <1>1 DEF ReapVideo, StopStreams, OwnDisplayEach, Bookkeeping, loopVars, audioVars,
     trayVars, worldVars
<1>2. CASE RouteChanged
  BY <1>2 DEF RouteChanged, StopStreams, OwnDisplayEach, Bookkeeping, loopVars,
     audioVars, trayVars, worldVars
<1>3. CASE LoseReceivers
  BY <1>3 DEF LoseReceivers, StopStreams, OwnDisplayEach, Bookkeeping, loopVars,
     audioVars, trayVars, worldVars
<1>4. CASE Prepare
  BY <1>4 DEF Prepare, OwnDisplayEach, Bookkeeping, loopVars, audioVars, trayVars,
     worldVars
<1>5. CASE Commit
  BY <1>5 DEF Commit, OneDisplayEach, OwnDisplayEach, Bookkeeping, loopVars, audioVars,
     trayVars, worldVars
<1>6. CASE AssignFails
  BY <1>6 DEF AssignFails, StartFails, OwnDisplayEach, Bookkeeping, loopVars, audioVars,
     trayVars, worldVars
<1>7. CASE Finish
  BY <1>7 DEF Finish, StopStreams, OwnDisplayEach, Bookkeeping, loopVars, audioVars,
     trayVars, worldVars
<1>8. CASE DisplaysChange
  BY <1>8 DEF DisplaysChange, OwnDisplayEach, Bookkeeping, loopVars, audioVars,
     trayVars, worldVars
<1>9. ASSUME ~ReapVideo /\ ~RouteChanged /\ ~LoseReceivers /\ ~Prepare /\ ~Commit /\
             ~AssignFails /\ ~Finish /\ ~DisplaysChange
      PROVE  UNCHANGED <<video, displays, disturbed>>
  BY <1>9 DEF vars, Next, Supervisor, Tray, World, Stopped, Drain, DrainDone, ReapAudio,
     RouteUnchanged, KeepDuringGrace, PrepareFails, Publish, WaitCommand, WaitOver,
     ReportStopped, ToggleAudio, ToggleNotSaved, SendStop, PollStatus, VideoDies,
     AudioDies, Settle, ApplyCommand, StartFails, loopVars, audioVars, trayVars,
     worldVars
<1> QED
  BY <1>1, <1>2, <1>3, <1>4, <1>5, <1>6, <1>7, <1>8, <1>9 DEF OwnDisplayEach

LEMMA PreparationStep ==
  ASSUME TypeOK, Bookkeeping, PreparationIsNotStale, [Next]_vars PROVE PreparationIsNotStale'
<1>1. CASE Drain
  BY <1>1 DEF Drain, ApplyCommand, PreparationIsNotStale, loopVars, audioVars, trayVars,
     worldVars
<1>2. CASE DrainDone
  BY <1>2 DEF DrainDone, PreparationIsNotStale, loopVars, audioVars, trayVars, worldVars
<1>3. CASE ReapVideo
  BY <1>3 DEF ReapVideo, StopStreams, PreparationIsNotStale, loopVars, audioVars,
     trayVars, worldVars
<1>4. CASE ReapAudio
  BY <1>4 DEF ReapAudio, PreparationIsNotStale, loopVars, audioVars, trayVars, worldVars
<1>5. CASE RouteChanged
  BY <1>5 DEF RouteChanged, StopStreams, PreparationIsNotStale, loopVars, audioVars,
     trayVars, worldVars
<1>6. CASE RouteUnchanged
  BY <1>6 DEF RouteUnchanged, PreparationIsNotStale, loopVars, audioVars, trayVars,
     worldVars
<1>7. CASE KeepDuringGrace
  BY <1>7 DEF KeepDuringGrace, PreparationIsNotStale, loopVars, audioVars, trayVars,
     worldVars
<1>8. CASE LoseReceivers
  BY <1>8, RoutesFacts DEF LoseReceivers, StopStreams, Bookkeeping, TypeOK,
     PreparationIsNotStale, loopVars, audioVars, trayVars, worldVars
<1>9. CASE Prepare
  BY <1>9 DEF Prepare, PreparationIsNotStale, loopVars, audioVars, trayVars, worldVars
<1>10. CASE PrepareFails
  BY <1>10 DEF PrepareFails, StartFails, PreparationIsNotStale, loopVars, audioVars,
     trayVars, worldVars
<1>11. CASE Commit
  BY <1>11, RoutesFacts DEF Commit, Bookkeeping, TypeOK, PreparationIsNotStale,
     loopVars, audioVars, trayVars, worldVars
<1>12. CASE AssignFails
  BY <1>12 DEF AssignFails, StartFails, PreparationIsNotStale, loopVars, audioVars,
     trayVars, worldVars
<1>13. CASE Publish
  BY <1>13 DEF Publish, PreparationIsNotStale, loopVars, audioVars, trayVars, worldVars
<1>14. CASE WaitCommand
  BY <1>14 DEF WaitCommand, ApplyCommand, PreparationIsNotStale, loopVars, audioVars,
     trayVars, worldVars
<1>15. CASE WaitOver
  BY <1>15 DEF WaitOver, PreparationIsNotStale, loopVars, audioVars, trayVars, worldVars
<1>16. CASE ReportStopped
  BY <1>16 DEF ReportStopped, PreparationIsNotStale, loopVars, audioVars, trayVars,
     worldVars
<1>17. CASE Finish
  BY <1>17 DEF Finish, StopStreams, PreparationIsNotStale, loopVars, audioVars,
     trayVars, worldVars
<1>18. ASSUME ~Drain /\ ~DrainDone /\ ~ReapVideo /\ ~ReapAudio /\ ~RouteChanged /\
             ~RouteUnchanged /\ ~KeepDuringGrace /\ ~LoseReceivers /\ ~Prepare /\
             ~PrepareFails /\ ~Commit /\ ~AssignFails /\ ~Publish /\ ~WaitCommand /\
             ~WaitOver /\ ~ReportStopped /\ ~Finish
      PROVE  UNCHANGED <<pc, prepared, active, found>>
  BY <1>18 DEF vars, Next, Supervisor, Tray, World, Stopped, ToggleAudio,
     ToggleNotSaved, SendStop, PollStatus, VideoDies, AudioDies, DisplaysChange, Settle,
     loopVars, audioVars, trayVars, worldVars
<1> QED
  BY <1>1, <1>2, <1>3, <1>4, <1>5, <1>6, <1>7, <1>8, <1>9, <1>10, <1>11, <1>12, <1>13,
     <1>14, <1>15, <1>16, <1>17, <1>18 DEF PreparationIsNotStale

LEMMA ReportStep ==
  ASSUME Bookkeeping, NoUnreportedStream, [Next]_vars PROVE NoUnreportedStream'
<1>1. CASE Drain
  BY <1>1 DEF Drain, ApplyCommand, NoUnreportedStream, loopVars, audioVars, trayVars,
     worldVars
<1>2. CASE DrainDone
  BY <1>2 DEF DrainDone, NoUnreportedStream, loopVars, audioVars, trayVars, worldVars
<1>3. CASE ReapVideo
  BY <1>3 DEF ReapVideo, StopStreams, NoUnreportedStream, loopVars, audioVars, trayVars,
     worldVars
<1>4. CASE ReapAudio
  BY <1>4 DEF ReapAudio, NoUnreportedStream, loopVars, audioVars, trayVars, worldVars
<1>5. CASE RouteChanged
  BY <1>5 DEF RouteChanged, StopStreams, NoUnreportedStream, loopVars, audioVars,
     trayVars, worldVars
<1>6. CASE RouteUnchanged
  BY <1>6 DEF RouteUnchanged, NoUnreportedStream, loopVars, audioVars, trayVars,
     worldVars
<1>7. CASE KeepDuringGrace
  BY <1>7 DEF KeepDuringGrace, NoUnreportedStream, loopVars, audioVars, trayVars,
     worldVars
<1>8. CASE LoseReceivers
  BY <1>8 DEF LoseReceivers, StopStreams, NoUnreportedStream, loopVars, audioVars,
     trayVars, worldVars
<1>9. CASE Prepare
  BY <1>9 DEF Prepare, Bookkeeping, NoUnreportedStream, loopVars, audioVars, trayVars,
     worldVars
<1>10. CASE PrepareFails
  BY <1>10 DEF PrepareFails, StartFails, Bookkeeping, NoUnreportedStream, loopVars,
     audioVars, trayVars, worldVars
<1>11. CASE Commit
  BY <1>11 DEF Commit, NoUnreportedStream, loopVars, audioVars, trayVars, worldVars
<1>12. CASE AssignFails
  BY <1>12 DEF AssignFails, StartFails, Bookkeeping, NoUnreportedStream, loopVars,
     audioVars, trayVars, worldVars
<1>13. CASE Publish
  BY <1>13 DEF Publish, NoUnreportedStream, loopVars, audioVars, trayVars, worldVars
<1>14. CASE WaitCommand
  BY <1>14 DEF WaitCommand, ApplyCommand, NoUnreportedStream, loopVars, audioVars,
     trayVars, worldVars
<1>15. CASE WaitOver
  BY <1>15 DEF WaitOver, NoUnreportedStream, loopVars, audioVars, trayVars, worldVars
<1>16. CASE ReportStopped
  BY <1>16 DEF ReportStopped, NoUnreportedStream, loopVars, audioVars, trayVars,
     worldVars
<1>17. CASE Finish
  BY <1>17 DEF Finish, StopStreams, NoUnreportedStream, loopVars, audioVars, trayVars,
     worldVars
<1>18. ASSUME ~Drain /\ ~DrainDone /\ ~ReapVideo /\ ~ReapAudio /\ ~RouteChanged /\
             ~RouteUnchanged /\ ~KeepDuringGrace /\ ~LoseReceivers /\ ~Prepare /\
             ~PrepareFails /\ ~Commit /\ ~AssignFails /\ ~Publish /\ ~WaitCommand /\
             ~WaitOver /\ ~ReportStopped /\ ~Finish
      PROVE  UNCHANGED <<pc, video, streamActive>>
  BY <1>18 DEF vars, Next, Supervisor, Tray, World, Stopped, ToggleAudio,
     ToggleNotSaved, SendStop, PollStatus, VideoDies, AudioDies, DisplaysChange, Settle,
     loopVars, audioVars, trayVars, worldVars
<1> QED
  BY <1>1, <1>2, <1>3, <1>4, <1>5, <1>6, <1>7, <1>8, <1>9, <1>10, <1>11, <1>12, <1>13,
     <1>14, <1>15, <1>16, <1>17, <1>18 DEF NoUnreportedStream

(* The channel: the head leaves, or the tray appends behind what is there.  *)
LEMMA ChannelStep ==
  ASSUME TypeOK, Channel, [Next]_vars PROVE Channel'
<1>0. /\ commands \in Seq({"audioOn", "audioOff", "stop"})
      /\ wanted \in BOOLEAN /\ stopSent \in BOOLEAN
  BY DEF TypeOK
<1>1. ASSUME NEW resume, ApplyCommand(resume) PROVE Channel'
  <2>1. /\ commands # <<>> /\ commands' = Tail(commands)
        /\ wanted' = wanted /\ stopSent' = stopSent
    BY <1>1 DEF ApplyCommand, trayVars
  <2>2. Len(commands') = Len(commands) - 1 /\ Len(commands) > 0
    BY <1>0, <2>1
  <2>3. \A i \in 1..Len(commands') : commands'[i] = commands[i + 1]
    BY <1>0, <2>1
  <2>4. Head(commands) = commands[1]
    BY <1>0, <2>1
  <2>5. CASE Head(commands) = "stop"
    <3>1. Len(commands) = 1
      BY <2>2, <2>4, <2>5 DEF Channel
    <3>2. audioEnabled' = audioEnabled
      BY <1>1, <2>5 DEF ApplyCommand, audioVars
    <3> QED BY <1>0, <2>1, <2>2, <2>4, <2>5, <3>1, <3>2 DEF Channel, LastAudio
  <2>6. CASE Head(commands) # "stop"
    <3>1. audioEnabled' = (commands[1] = "audioOn")
      BY <1>1, <2>4, <2>6 DEF ApplyCommand
    <3>2. LastAudio' = LastAudio - 1 /\ LastAudio > 0
      <4>1. CASE Len(commands) = 1
        <5>1. LastAudio = 1
          BY <2>1, <2>4, <2>6, <4>1 DEF LastAudio
        <5>2. commands' = <<>> /\ Len(commands') = 0
          BY <1>0, <2>1, <2>2, <4>1
        <5> QED BY <5>1, <5>2 DEF LastAudio
      <4>2. CASE Len(commands) # 1
        <5>1. commands' # <<>> /\ Len(commands') \in 1..Len(commands')
          <6>1. Len(commands) \in Nat /\ Len(commands') > 0
            BY <1>0, <2>2, <4>2
          <6>2. commands' = <<>> => Len(commands') = 0
            OBVIOUS
          <6> QED BY <2>2, <6>1, <6>2
        <5>2. commands'[Len(commands')] = commands[Len(commands)]
          BY <1>0, <2>2, <2>3, <5>1
        <5> QED BY <1>0, <2>1, <2>2, <4>2, <5>1, <5>2 DEF LastAudio
      <4> QED BY <4>1, <4>2
    <3>3. \A i \in 1..Len(commands') : commands'[i] = "stop" => i = Len(commands') /\ stopSent'
      <4>1. SUFFICES ASSUME NEW i \in 1..Len(commands'), commands'[i] = "stop"
                     PROVE  i = Len(commands') /\ stopSent'
        OBVIOUS
      <4>2. i + 1 \in 1..Len(commands) /\ commands[i + 1] = "stop"
        BY <1>0, <2>2, <2>3, <4>1
      <4>3. i + 1 = Len(commands) /\ stopSent
        BY <4>2 DEF Channel
      <4>4. i = Len(commands')
        BY <1>0, <2>2, <4>1, <4>3
      <4> QED BY <2>1, <4>3, <4>4
    <3>4. commands[LastAudio] = IF wanted THEN "audioOn" ELSE "audioOff"
      BY <3>2 DEF Channel
    <3>5. LastAudio' = 0 => audioEnabled' = wanted'
      BY <1>0, <2>1, <3>1, <3>2, <3>4 DEF LastAudio
    <3>6. LastAudio' > 0 => commands'[LastAudio'] = IF wanted' THEN "audioOn" ELSE "audioOff"
      BY <1>0, <2>1, <2>2, <2>3, <3>2, <3>4 DEF LastAudio
    <3> QED BY <3>3, <3>5, <3>6 DEF Channel
  <2> QED BY <2>5, <2>6
<1>2. CASE ToggleAudio
  <2>1. /\ commands' = Append(commands, IF wanted' THEN "audioOn" ELSE "audioOff")
        /\ stopSent = FALSE /\ stopSent' = stopSent
    BY <1>0, <1>2 DEF ToggleAudio
  <2>2. \A i \in 1..Len(commands) : commands[i] # "stop"
    BY <2>1 DEF Channel
  <2>3. /\ Len(commands') = Len(commands) + 1
        /\ commands'[Len(commands')] = IF wanted' THEN "audioOn" ELSE "audioOff"
        /\ \A i \in 1..Len(commands) : commands'[i] = commands[i]
    <3>1. PICK word \in {"audioOn", "audioOff"} :
            word = (IF wanted' THEN "audioOn" ELSE "audioOff") /\ commands' = Append(commands, word)
      BY <1>0, <2>1
    <3> QED BY <1>0, <3>1
  <2>4. LastAudio' = Len(commands') /\ LastAudio' > 0
    BY <1>0, <2>3 DEF LastAudio
  <2> QED BY <1>0, <2>2, <2>3, <2>4 DEF Channel
<1>3. CASE SendStop
  <2>1. /\ commands' = Append(commands, "stop") /\ stopSent = FALSE /\ stopSent' = TRUE
        /\ wanted' = wanted /\ audioEnabled' = audioEnabled
    BY <1>0, <1>3 DEF SendStop, audioVars
  <2>2. \A i \in 1..Len(commands) : commands[i] # "stop"
    BY <2>1 DEF Channel
  <2>3. /\ Len(commands') = Len(commands) + 1
        /\ commands'[Len(commands')] = "stop"
        /\ \A i \in 1..Len(commands) : commands'[i] = commands[i]
    BY <1>0, <2>1
  <2>4. LastAudio = Len(commands) /\ LastAudio' = Len(commands)
    BY <1>0, <2>2, <2>3 DEF LastAudio
  <2> QED BY <1>0, <2>1, <2>2, <2>3, <2>4 DEF Channel
<1>4. ASSUME ~Drain /\ ~WaitCommand /\ ~ToggleAudio /\ ~SendStop
      PROVE  UNCHANGED <<commands, stopSent, audioEnabled, wanted>>
  BY <1>4 DEF vars, Next, Supervisor, Tray, World, Stopped, DrainDone, ReapVideo,
     ReapAudio, RouteChanged, RouteUnchanged, KeepDuringGrace, LoseReceivers, Prepare,
     PrepareFails, Commit, AssignFails, Publish, WaitOver, ReportStopped, Finish,
     ToggleNotSaved, PollStatus, VideoDies, AudioDies, DisplaysChange, Settle,
     StopStreams, StartFails, loopVars, audioVars, trayVars, worldVars
<1> QED
  BY <1>1, <1>2, <1>3, <1>4 DEF Drain, WaitCommand, Channel, LastAudio

-----------------------------------------------------------------------------
(* The invariant holds at the start and is kept by every step.              *)
LEMMA InvInit == Init => SupervisorInv
<1> SUFFICES ASSUME Init PROVE SupervisorInv
  OBVIOUS
<1>1. TypeOK
  <2>1. /\ audioEnabled \in BOOLEAN /\ wanted \in BOOLEAN
        /\ commands \in Seq({"audioOn", "audioOff", "stop"})
    BY DEF Init
  <2>2. failedStarts \in 0..MaxFailures /\ age \in 0..Grace /\ displays \in 0..MaxBundled
    BY DEF Init
  <2> QED BY <2>1, <2>2, RoutesFacts DEF Init, TypeOK
<1>2. Bookkeeping /\ FlagIsObeyed /\ AudioFollowsVideo /\ OwnDisplayEach
  BY RoutesFacts DEF Init, Bookkeeping, FlagIsObeyed, AudioFollowsVideo, OwnDisplayEach
<1>3. PreparationIsNotStale /\ NoUnreportedStream
  BY DEF Init, PreparationIsNotStale, NoUnreportedStream
<1>4. Channel
  BY DEF Init, Channel, LastAudio
<1> QED BY <1>1, <1>2, <1>3, <1>4 DEF SupervisorInv

LEMMA InvStep == SupervisorInv /\ [Next]_vars => SupervisorInv'
BY TypeStep, BookkeepingStep, ChannelStep, FlagIsObeyedStep, AudioFollowsVideoStep,
   OwnDisplayEachStep, PreparationStep, ReportStep DEF SupervisorInv

THEOREM InvariantHolds == Spec => []SupervisorInv
BY InvInit, InvStep, PTL DEF Spec

(* Every variable keeps its type.                                           *)
THEOREM TypeCorrect == Spec => []TypeOK
<1>1. SupervisorInv => TypeOK
  BY DEF SupervisorInv
<1> QED BY InvariantHolds, <1>1, PTL

(* Audio only ever goes to exactly the receivers that see a picture.        *)
THEOREM AudioIsTiedToVideo == Spec => []AudioFollowsVideo
<1>1. SupervisorInv => AudioFollowsVideo
  BY DEF SupervisorInv
<1> QED BY InvariantHolds, <1>1, PTL

(* Audio that the tray switched off is silent once the command is served.   *)
THEOREM ToggledAudioIsSilent == Spec => []DisabledAudioIsSilent
<1>1. SupervisorInv => DisabledAudioIsSilent
  <2> SUFFICES ASSUME SupervisorInv, commands = <<>>, ~wanted PROVE audio = {}
    BY DEF DisabledAudioIsSilent
  <2>1. LastAudio = 0
    BY DEF LastAudio
  <2>2. ~audioEnabled
    BY <2>1 DEF SupervisorInv, Channel
  <2> QED BY <2>2 DEF SupervisorInv, FlagIsObeyed
<1> QED BY InvariantHolds, <1>1, PTL

(* Every running stream has a virtual display of its own.                   *)
THEOREM EveryStreamHasItsDisplay == Spec => []OwnDisplayEach
<1>1. SupervisorInv => OwnDisplayEach
  BY DEF SupervisorInv
<1> QED BY InvariantHolds, <1>1, PTL

(* A route that died, failed or was lost is never taken for prepared.       *)
THEOREM RoutesArePreparedAnew == Spec => []PreparationIsNotStale
<1>1. SupervisorInv => PreparationIsNotStale
  BY DEF SupervisorInv
<1> QED BY InvariantHolds, <1>1, PTL

(* The updater does not take a running session for an idle one.             *)
THEOREM StreamsAreReported == Spec => []NoUnreportedStream
<1>1. SupervisorInv => NoUnreportedStream
  BY DEF SupervisorInv
<1> QED BY InvariantHolds, <1>1, PTL

(* A healthy stream outlives every discovery miss within the grace period.  *)
THEOREM StreamsSurviveMisses == Spec => StreamSurvivesMissedPasses
<1> DEFINE Torn == pc = "discover" /\ video # {} /\ video' = {}
                     => (pc' = "prepare" /\ found' # active) \/ age' = Grace
<1>1. SupervisorInv /\ [Next]_vars => [Torn]_vars
  <2> SUFFICES ASSUME SupervisorInv, [Next]_vars, pc = "discover", video # {}, video' = {}
               PROVE  (pc' = "prepare" /\ found' # active) \/ age' = Grace
    OBVIOUS
  <2>1. CASE RouteChanged
    BY <2>1 DEF RouteChanged
  <2>2. CASE LoseReceivers
    <3>1. ~detached
      BY DEF SupervisorInv, Bookkeeping
    <3> QED BY <2>2, <3>1 DEF LoseReceivers
  <2>3. ASSUME ~RouteChanged, ~LoseReceivers PROVE FALSE
    BY <2>3 DEF vars, Next, Supervisor, Tray, World, Stopped, Drain, DrainDone,
       ReapVideo, ReapAudio, RouteUnchanged, KeepDuringGrace, Prepare, PrepareFails,
       Commit, AssignFails, Publish, WaitCommand, WaitOver, ReportStopped, Finish,
       ToggleAudio, ToggleNotSaved, SendStop, PollStatus, VideoDies, AudioDies,
       DisplaysChange, Settle, loopVars, audioVars, trayVars, worldVars
  <2> QED BY <2>1, <2>2, <2>3
<1> QED BY InvariantHolds, <1>1, PTL DEF Spec, StreamSurvivesMissedPasses

-----------------------------------------------------------------------------
(* The supervisor is a SenderSession.                                       *)

(* Serving the audio flag starts or stops the sound, or does nothing.       *)
LEMMA AudioStateRefines ==
  ASSUME NEW enabled, ApplyAudioState(enabled, video), AudioFollowsVideo,
         video' = video, pc # "done", pc' # "done"
  PROVE  Session!StartSound \/ Session!StopSound \/ UNCHANGED Session!vars
<1>1. CASE audio' = audio
  BY <1>1 DEF Session!vars
<1>2. CASE audio' # audio /\ ~enabled
  BY <1>2 DEF ApplyAudioState, Session!StopSound
<1>3. CASE audio' # audio /\ enabled
  BY <1>3 DEF ApplyAudioState, Session!StartSound
<1> QED BY <1>1, <1>2, <1>3

LEMMA CommandRefines ==
  ASSUME SupervisorInv, NEW resume \in {"drain", "wait"}, pc = resume, ApplyCommand(resume)
  PROVE  Session!StartSound \/ Session!StopSound \/ UNCHANGED Session!vars
<1>1. pc # "done" /\ pc' # "done" /\ video' = video /\ DOMAIN active = video
  BY DEF ApplyCommand, loopVars, SupervisorInv, Bookkeeping
<1>2. CASE Head(commands) = "stop"
  BY <1>1, <1>2 DEF ApplyCommand, audioVars, Session!vars
<1>3. CASE Head(commands) # "stop"
  <2>1. ApplyAudioState(Head(commands) = "audioOn", video)
    BY <1>1, <1>3 DEF ApplyCommand
  <2> QED BY <1>1, <2>1, AudioStateRefines DEF SupervisorInv
<1> QED BY <1>2, <1>3

LEMMA StopRefines ==
  ASSUME SupervisorInv, StopStreams, pc # "done", pc' # "done"
  PROVE  Session!StopAll \/ UNCHANGED Session!vars
<1>1. video = {} => audio = {}
  BY DEF SupervisorInv, AudioFollowsVideo
<1> QED BY <1>1 DEF StopStreams, Session!StopAll, Session!vars

LEMMA SessionInit == Init => Session!Init
BY DEF Init, Session!Init

LEMMA SessionStep == SupervisorInv /\ [Next]_vars => [Session!Next]_Session!vars
<1> SUFFICES ASSUME SupervisorInv, [Next]_vars
             PROVE  Session!Next \/ UNCHANGED Session!vars
  OBVIOUS
<1>0. /\ DOMAIN active = video /\ video \subseteq Receivers
      /\ pc \in {"prepare", "assign"} => video = {} /\ audio = {}
      /\ video = {} => audio = {}
  BY DEF SupervisorInv, Bookkeeping, AudioFollowsVideo, TypeOK
<1>1. CASE Drain
  BY <1>1, CommandRefines DEF Drain, Session!Next
<1>2. CASE WaitCommand
  BY <1>2, CommandRefines DEF WaitCommand, Session!Next
<1>3. CASE ReapVideo
  <2>1. CASE deadVideo # {}
    BY <1>3, <2>1, StopRefines DEF ReapVideo, Session!Next
  <2>2. CASE deadVideo = {}
    BY <1>3, <2>2 DEF ReapVideo, Session!vars
  <2> QED BY <2>1, <2>2
<1>4. CASE ReapAudio
  BY <1>4 DEF ReapAudio, loopVars, Session!Next, Session!StopSound, Session!vars
<1>5. CASE RouteChanged
  BY <1>5, StopRefines DEF RouteChanged, Session!Next
<1>6. CASE RouteUnchanged
  <2>1. ApplyAudioState(audioEnabled, video) /\ video' = video /\ pc # "done" /\ pc' # "done"
    BY <1>0, <1>6 DEF RouteUnchanged
  <2> QED BY <2>1, AudioStateRefines DEF SupervisorInv, Session!Next
<1>7. CASE LoseReceivers
  BY <1>7, StopRefines DEF LoseReceivers, Session!Next
<1>8. CASE Commit
  <2>1. /\ pc # "done" /\ pc' # "done" /\ video = {} /\ audio = {}
        /\ video' = DOMAIN found /\ DOMAIN found # {}
        /\ audio' \in {{}, DOMAIN found}
    BY <1>0, <1>8 DEF Commit, ApplyAudioState
  <2>2. DOMAIN found \in (SUBSET Receivers) \ {{}}
    <3>1. found \in Routes
      BY DEF SupervisorInv, TypeOK
    <3>2. DOMAIN found \subseteq Receivers
      BY <3>1, RoutesFacts
    <3> QED BY <2>1, <3>2
  <2>3. Session!Start(DOMAIN found)
    BY <2>1 DEF Session!Start
  <2> QED BY <2>2, <2>3 DEF Session!Next
<1>9. CASE Finish
  BY <1>9 DEF Finish, StopStreams, Session!Next, Session!Close
<1>10. ASSUME ~Drain, ~WaitCommand, ~ReapVideo, ~ReapAudio, ~RouteChanged,
              ~RouteUnchanged, ~LoseReceivers, ~Commit, ~Finish
       PROVE  UNCHANGED <<video, audio>> /\ (pc' = "done" <=> pc = "done")
  BY <1>10 DEF vars, Next, Supervisor, Tray, World, Stopped, DrainDone, KeepDuringGrace,
     Prepare, PrepareFails, StartFails, AssignFails, Publish, WaitOver, ReportStopped,
     ToggleAudio, ToggleNotSaved, SendStop, PollStatus, VideoDies, AudioDies,
     DisplaysChange, Settle, loopVars, audioVars, trayVars, worldVars
<1> QED
  BY <1>1, <1>2, <1>3, <1>4, <1>5, <1>6, <1>7, <1>8, <1>9, <1>10 DEF Session!vars

(* A session never changes its receivers in place, never sounds where it    *)
(* does not show, and stays closed.                                         *)
THEOREM SupervisorIsASession == Spec => ImplementsSession
BY SessionInit, SessionStep, InvariantHolds, PTL DEF Spec, ImplementsSession, Session!Spec
=============================================================================
