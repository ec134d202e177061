-------------------------- MODULE VddDriverProofs --------------------------
(***************************************************************************)
(* Proofs about VddDriver, for any number of callers, device nodes,        *)
(* monitors and actions: what the devices run is what the settings file    *)
(* says unless a step failed on the way, and a second device takes two     *)
(* installs at once.                                                       *)
(***************************************************************************)
EXTENDS VddDriver, FiniteSetTheorems, TLAPS

Job == [action : Actions, count : Counts, step : Steps, changed : BOOLEAN]

\* Only set_monitor_count writes the file and polls for the count.
ChangedBySetCount == \A c \in Callers : job[c].changed => job[c].action = "setCount"
PollsForCount ==
  \A c \in Callers : job[c].step \in {"write", "poll"} => job[c].action = "setCount"

\* Two exact samples in a row end the loop.
LoopGoesOn ==
  job["sender"].action = "setCount" /\ job["sender"].step \notin {"ok", "failed"}
    => stable \in 0..1

\* Who is about to create a device found none: another can only be there, or
\* under way, after a race.
CreatesKnowOfRaces ==
  \A c \in Callers : At(c, "create") =>
    /\ DOMAIN devices # {} => raced
    /\ \A other \in Callers \ {c} : At(other, "create") => raced

DriverInv ==
  /\ TypeOK /\ ChangedBySetCount /\ PollsForCount /\ LoopGoesOn
  /\ NoSilentMismatch
  /\ CreatesKnowOfRaces /\ DuplicateNeedsRace

-----------------------------------------------------------------------------
(* Values.                                                                  *)

LEMMA FiniteMonitors == ASSUME IsFiniteSet(DOMAIN devices) PROVE IsFiniteSet(Monitors)
<1>2. IsFiniteSet(Counts)
  BY CountsAssumption, FS_Interval DEF Counts
<1>3. IsFiniteSet((DOMAIN devices) \X Counts)
  <2> DEFINE nodes == DOMAIN devices
  <2> HIDE DEF nodes
  <2>1. IsFiniteSet(nodes \X Counts)
    BY <1>2, FS_Product DEF nodes
  <2> QED BY <2>1 DEF nodes
<1> QED BY <1>3, FS_Subset DEF Monitors

LEMMA RunningType == ASSUME TypeOK PROVE Running \in Nat
<1>1. IsFiniteSet(DOMAIN devices)
  BY NodesAssumption, FS_Subset DEF TypeOK
<1> QED BY <1>1, FiniteMonitors, FS_CardinalityType DEF Running

LEMMA ConfiguredType == ASSUME TypeOK PROVE Configured \in Counts
BY CountsAssumption DEF TypeOK, Configured, Counts

(* Goto moves one caller and nothing else of its job.                       *)
LEMMA GotoMoves ==
  ASSUME job \in [Callers -> Job], NEW c \in Callers, NEW step \in Steps, Goto(c, step)
  PROVE  /\ job' \in [Callers -> Job]
         /\ \A other \in Callers \ {c} : job'[other] = job[other]
         /\ job'[c].step = step /\ job'[c].action = job[c].action
         /\ job'[c].count = job[c].count /\ (job'[c].changed <=> job[c].changed)
BY DEF Goto, Job

LEMMA ReturnedType ==
  ASSUME job \in [Callers -> Job], NEW c \in Callers, NEW ok \in BOOLEAN
  PROVE  /\ Returned(c, ok) \in {"endpoint", "failed", "poll", "ok"}
         /\ Returned(c, ok) = "poll" => job[c].action = "setCount"
BY DEF Returned

LEMMA InstalledType ==
  ASSUME job \in [Callers -> Job], NEW c \in Callers
  PROVE  /\ Installed(c) \in {"endpoint", "failed", "poll", "ok", "stop"}
         /\ Installed(c) = "poll" => job[c].action = "setCount"
         /\ job[c].changed /\ job[c].action = "setCount" => Installed(c) = "stop"
BY ReturnedType DEF Installed

LEMMA TheSender == "sender" \in Callers
BY CallersAssumption

(* What a step owes for the invariant when it moves one caller's job, and   *)
(* what is left to show of each step: types, and these three.               *)
LEMMA MovedJob ==
  ASSUME DriverInv, NEW c \in Callers, NEW step \in Steps, Goto(c, step), UNCHANGED loop,
         step # "write", step = "poll" => job[c].action = "setCount",
         step \in {"ok", "failed"} \/ job[c].step \notin {"ok", "failed"}
  PROVE  job' \in [Callers -> Job] /\ ChangedBySetCount' /\ PollsForCount' /\ LoopGoesOn'
<1>0. job \in [Callers -> Job]
  BY DEF DriverInv, TypeOK, Job
<1>1. /\ job' \in [Callers -> Job]
      /\ \A other \in Callers \ {c} : job'[other] = job[other]
      /\ job'[c].step = step /\ job'[c].action = job[c].action
      /\ (job'[c].changed <=> job[c].changed)
  BY <1>0, GotoMoves
<1>2. ChangedBySetCount'
  BY <1>1 DEF DriverInv, ChangedBySetCount
<1>3. PollsForCount'
  BY <1>1 DEF DriverInv, PollsForCount, At
<1>4. LoopGoesOn'
  BY <1>1, TheSender DEF DriverInv, LoopGoesOn, loop
<1> QED BY <1>1, <1>2, <1>3, <1>4

(* A job that stays where a restart is still due keeps a mismatch known; a  *)
(* job without one has no part in it.                                       *)
LEMMA StillPending ==
  ASSUME job \in [Callers -> Job], NEW c \in Callers, NEW step \in Steps, Goto(c, step),
         RestartPending(c) => step \in {"check", "create", "state", "stop"}
  PROVE  (\E k \in Callers : RestartPending(k)) => (\E k \in Callers : RestartPending(k)')
<1>1. /\ \A other \in Callers \ {c} : job'[other] = job[other]
      /\ job'[c].step = step /\ (job'[c].changed <=> job[c].changed)
  BY GotoMoves
<1> QED BY <1>1 DEF RestartPending

-----------------------------------------------------------------------------
(* Requests.                                                                *)

LEMMA RequestStep ==
  ASSUME DriverInv, NEW c \in Callers, NEW action \in Actions, NEW count \in Counts,
         NEW step \in {"write", "check", "endpoint", "remove", "state"},
         Request(c, action, count, step), step = "write" => action = "setCount",
         \/ UNCHANGED loop /\ action # "setCount"
         \/ stable' = 0 /\ samples' = 0 /\ recovery' = "pending"
  PROVE  DriverInv'
<1> DEFINE new == [action |-> action, count |-> count, step |-> step, changed |-> FALSE]
<1>1. job \in [Callers -> Job] /\ job[c].step = "idle"
  BY DEF DriverInv, TypeOK, Job, Request, At
<1>2. job' = [job EXCEPT ![c] = new] /\ jobs < MaxJobs /\ jobs' = jobs + 1
      /\ UNCHANGED <<file, devices, bare, windows, missed, raced>>
  BY DEF Request
<1>3. /\ job' \in [Callers -> Job]
      /\ job'[c] = new /\ \A other \in Callers \ {c} : job'[other] = job[other]
  <2>1. new \in Job
    BY DEF Job, Steps
  <2> HIDE DEF new
  <2> QED BY <1>1, <1>2, <2>1
<1>4. TypeOK'
  <2>1. jobs' \in 0..MaxJobs
    BY <1>2, CountsAssumption DEF DriverInv, TypeOK
  <2>2. stable' \in 0..2 /\ samples' \in 0..Samples /\ recovery' \in {"pending", "extended", "attached"}
    BY CountsAssumption DEF DriverInv, TypeOK, loop
  <2> QED BY <1>2, <1>3, <2>1, <2>2 DEF DriverInv, TypeOK, Job, windows
<1>5. ChangedBySetCount' /\ PollsForCount'
  BY <1>3 DEF DriverInv, ChangedBySetCount, PollsForCount, At
<1>6. LoopGoesOn'
  BY <1>1, <1>3, TheSender DEF DriverInv, LoopGoesOn, loop
<1>7. NoSilentMismatch'
  <2>1. \A k \in Callers : RestartPending(k) => RestartPending(k)'
    BY <1>1, <1>3 DEF RestartPending
  <2> QED BY <1>2, <2>1 DEF DriverInv, NoSilentMismatch, Configured
<1>8. CreatesKnowOfRaces' /\ DuplicateNeedsRace'
  BY <1>2, <1>3 DEF DriverInv, CreatesKnowOfRaces, DuplicateNeedsRace, At
<1> QED BY <1>4, <1>5, <1>6, <1>7, <1>8 DEF DriverInv

LEMMA RequestsStep == ASSUME DriverInv, Requests PROVE DriverInv'
<1>1. CASE EnsureCount
  <2>1. PICK count \in Counts : /\ Request("sender", "setCount", count, "write")
                                /\ stable' = 0 /\ samples' = 0 /\ recovery' = "pending"
    BY <1>1 DEF EnsureCount
  <2> QED BY <2>1, TheSender, RequestStep DEF Actions
<1> USE DEF Actions
<1>0. 1 \in Counts
  BY CountsAssumption DEF Counts
<1>2. CASE EnsureReady
  <2>1. CASE visible = 0
    BY <1>0, <1>2, <2>1, TheSender, RequestStep DEF EnsureReady
  <2>2. CASE visible # 0
    BY <1>0, <1>2, <2>2, TheSender, RequestStep DEF EnsureReady
  <2> QED BY <2>1, <2>2
<1>3. CASE RemoveDisplays
  BY <1>0, <1>3, TheSender, RequestStep DEF RemoveDisplays
<1>4. ASSUME NEW c \in Callers, Menu(c) PROVE DriverInv'
  <2>1. \/ Request(c, "install", 1, "check")
        \/ \E action \in {"enable", "disable"} : Request(c, action, 1, "state")
        \/ Request(c, "remove", 1, "remove")
    BY <1>4 DEF Menu
  <2>2. UNCHANGED loop
    BY <1>4 DEF Menu
  <2> QED BY <1>0, <2>1, <2>2, RequestStep
<1> QED BY <1>1, <1>2, <1>3, <1>4 DEF Requests

-----------------------------------------------------------------------------
(* Steps of an action.                                                      *)

(* Every step of caller c goes somewhere; only the first writes more.       *)
LEMMA WriteStep == ASSUME DriverInv, NEW c \in Callers, Write(c) PROVE DriverInv'
<1> DEFINE differs == Configured # job[c].count
           new == [job[c] EXCEPT !.step = "check", !.changed = differs]
<1>1. /\ job \in [Callers -> Job] /\ job[c].step = "write" /\ job[c].count \in Counts
      /\ UNCHANGED <<devices, bare, windows, loop, jobs, missed, raced>>
      /\ file' = job[c].count
  BY DEF DriverInv, TypeOK, Job, Write, At
<1>2. job' = [job EXCEPT ![c] = new]
  BY <1>1 DEF Write
<1>3. new \in Job /\ new.step = "check" /\ new.action = job[c].action
      /\ (new.changed <=> differs)
  <2>1. differs \in BOOLEAN
    OBVIOUS
  <2> HIDE DEF differs
  <2> QED BY <1>1, <2>1 DEF Job, Steps
<1> HIDE DEF new
<1>4. /\ job' \in [Callers -> Job]
      /\ job'[c] = new /\ \A other \in Callers \ {c} : job'[other] = job[other]
  BY <1>1, <1>2, <1>3
<1>5. Configured' = job[c].count /\ file' \in 0..MaxCount
  BY <1>1, CountsAssumption DEF Configured, Counts
<1>6. TypeOK'
  BY <1>1, <1>4, <1>5 DEF DriverInv, TypeOK, Job, windows, loop
<1>7. ChangedBySetCount' /\ PollsForCount' /\ LoopGoesOn'
  BY <1>1, <1>3, <1>4, TheSender
     DEF DriverInv, ChangedBySetCount, PollsForCount, LoopGoesOn, loop
<1>8. NoSilentMismatch'
  <2>1. CASE differs
    BY <1>3, <1>4, <2>1 DEF NoSilentMismatch, RestartPending
  <2>2. CASE ~differs
    <3>1. \A k \in Callers : RestartPending(k) => RestartPending(k)'
      BY <1>1, <1>4 DEF RestartPending
    <3>2. Configured' = Configured
      BY <1>5, <2>2
    <3> QED BY <1>1, <3>1, <3>2 DEF DriverInv, NoSilentMismatch
  <2> QED BY <2>1, <2>2
<1>9. CreatesKnowOfRaces' /\ DuplicateNeedsRace'
  BY <1>1, <1>3, <1>4 DEF DriverInv, CreatesKnowOfRaces, DuplicateNeedsRace, At
<1> QED BY <1>6, <1>7, <1>8, <1>9 DEF DriverInv

(* What the remaining steps have in common: caller c moves to a step of its *)
(* own, never back to "create", and the devices stay among those there are. *)
LEMMA StepElsewhere ==
  ASSUME DriverInv, NEW c \in Callers, NEW step \in Steps \ {"write", "create"}, Goto(c, step),
         step = "poll" => job[c].action = "setCount",
         step \in {"ok", "failed"} \/ job[c].step \notin {"ok", "failed"},
         UNCHANGED <<loop, jobs, raced>>, missed' \in BOOLEAN,
         file' \in 0..MaxCount, visible' \in Nat, ready' \in 0..visible',
         DOMAIN devices' \subseteq DOMAIN devices, bare' \subseteq DOMAIN devices',
         \A d \in DOMAIN devices' : devices'[d] \in 0..MaxCount,
         NoSilentMismatch'
  PROVE  DriverInv'
<1>1. job \in [Callers -> Job] /\ step \in Steps
  BY DEF DriverInv, TypeOK, Job
<1>2. job' \in [Callers -> Job] /\ ChangedBySetCount' /\ PollsForCount' /\ LoopGoesOn'
  BY MovedJob
<1>3. TypeOK'
  BY <1>2 DEF DriverInv, TypeOK, Job, loop
<1>4. \A k \in Callers : At(k, "create")' => At(k, "create")
  BY <1>1, GotoMoves DEF At
<1>5. CreatesKnowOfRaces'
  BY <1>4 DEF DriverInv, CreatesKnowOfRaces
<1>6. DuplicateNeedsRace'
  <2>1. IsFiniteSet(DOMAIN devices)
    BY NodesAssumption, FS_Subset DEF DriverInv, TypeOK
  <2>2. IsFiniteSet(DOMAIN devices') /\ Cardinality(DOMAIN devices') <= Cardinality(DOMAIN devices)
    BY <2>1, FS_Subset
  <2>3. Cardinality(DOMAIN devices) \in Nat /\ Cardinality(DOMAIN devices') \in Nat
    BY <2>1, <2>2, FS_CardinalityType
  <2> QED BY <2>2, <2>3 DEF DriverInv, DuplicateNeedsRace
<1> QED BY <1>2, <1>3, <1>5, <1>6 DEF DriverInv

LEMMA StillSilent ==
  ASSUME DriverInv, NEW c \in Callers, NEW step \in Steps, Goto(c, step),
         RestartPending(c) => step \in {"check", "create", "state", "stop"} \/ missed',
         missed => missed', Configured' = Configured,
         \A d \in DOMAIN devices' : devices'[d] \notin {0, Configured} =>
           d \in DOMAIN devices /\ devices'[d] = devices[d]
  PROVE  NoSilentMismatch'
<1>1. job \in [Callers -> Job]
  BY DEF DriverInv, TypeOK, Job
<1>2. CASE RestartPending(c) => step \in {"check", "create", "state", "stop"}
  <2>1. (\E k \in Callers : RestartPending(k)) => (\E k \in Callers : RestartPending(k)')
    BY <1>1, <1>2, StillPending
  <2> QED BY <2>1 DEF DriverInv, NoSilentMismatch
<1>3. CASE missed'
  BY <1>3 DEF NoSilentMismatch
<1> QED BY <1>2, <1>3

LEMMA WriteFailsStep == ASSUME DriverInv, NEW c \in Callers, WriteFails(c) PROVE DriverInv'
<1>1. /\ Goto(c, "failed") /\ job[c].step = "write"
      /\ UNCHANGED <<devices, bare, windows, loop, jobs, missed, raced>>
      /\ file' \in IF file = 0 THEN {0, TemplateCount} ELSE {file}
  BY DEF WriteFails, At
<1>2. Configured' = Configured /\ file' \in 0..MaxCount
  BY <1>1, CountsAssumption DEF DriverInv, TypeOK, Configured
<1>3. NoSilentMismatch'
  BY <1>1, <1>2, StillSilent DEF RestartPending, Steps
<1> QED BY <1>1, <1>2, <1>3, StepElsewhere DEF DriverInv, TypeOK, Steps, windows

LEMMA CheckStep == ASSUME DriverInv, NEW c \in Callers, Check(c) PROVE DriverInv'
<1> DEFINE step == IF DOMAIN devices = {} THEN "create" ELSE "state"
<1>1. /\ Goto(c, step) /\ job[c].step = "check" /\ (raced' <=> (raced \/ RacesInstall(c)))
      /\ UNCHANGED <<file, devices, bare, windows, loop, jobs, missed>>
      /\ raced' \in BOOLEAN
  BY DEF Check, At
<1>2. job \in [Callers -> Job] /\ step \in Steps
  BY DEF DriverInv, TypeOK, Job, Steps
<1>3. /\ \A other \in Callers \ {c} : job'[other] = job[other]
      /\ job'[c].step = step
  BY <1>1, <1>2, GotoMoves
<1>4. job' \in [Callers -> Job] /\ ChangedBySetCount' /\ PollsForCount' /\ LoopGoesOn'
  BY <1>1, <1>2, MovedJob
<1>5. TypeOK'
  BY <1>1, <1>4 DEF DriverInv, TypeOK, Job, windows, loop
<1>6. NoSilentMismatch'
  BY <1>1, <1>2, StillSilent DEF Configured
<1>7. CreatesKnowOfRaces'
  <2>1. CASE DOMAIN devices = {}
    <3>1. \A other \in Callers \ {c} : At(other, "create") => raced'
      BY <1>1, <2>1 DEF RacesInstall
    <3> QED BY <1>1, <1>3, <2>1, <3>1 DEF DriverInv, CreatesKnowOfRaces, At
  <2>2. CASE DOMAIN devices # {}
    BY <1>1, <1>3, <2>2 DEF DriverInv, CreatesKnowOfRaces, At
  <2> QED BY <2>1, <2>2
<1>8. DuplicateNeedsRace'
  BY <1>1 DEF DriverInv, DuplicateNeedsRace
<1> QED BY <1>4, <1>5, <1>6, <1>7, <1>8 DEF DriverInv

LEMMA CreateStep == ASSUME DriverInv, NEW c \in Callers, Create(c) PROVE DriverInv'
<1>1. PICK node \in Nodes \ DOMAIN devices, bound \in BOOLEAN :
        /\ devices' = [d \in DOMAIN devices \union {node} |->
                         IF d # node THEN devices[d] ELSE IF bound THEN Configured ELSE 0]
        /\ bare' = IF bound THEN bare ELSE bare \union {node}
        /\ Goto(c, IF bound THEN Installed(c) ELSE Returned(c, FALSE))
        /\ missed' = (missed \/ (~bound /\ job[c].changed))
  BY DEF Create
<1> DEFINE step == IF bound THEN Installed(c) ELSE Returned(c, FALSE)
<1>2. /\ job[c].step = "create" /\ UNCHANGED <<file, windows, loop, jobs, raced>>
      /\ missed' \in BOOLEAN /\ (missed' <=> (missed \/ (~bound /\ job[c].changed)))
  BY <1>1 DEF Create, At
<1>3. job \in [Callers -> Job] /\ step \in {"endpoint", "failed", "poll", "ok", "stop"}
      /\ (step = "poll" => job[c].action = "setCount")
      /\ (bound /\ job[c].changed => step = "stop")
  BY ReturnedType, InstalledType DEF DriverInv, TypeOK, Job, ChangedBySetCount
<1>4. Goto(c, step)
  BY <1>1
<1> HIDE DEF step
<1>5. step \in Steps
  BY <1>3 DEF Steps
<1>6. /\ \A other \in Callers \ {c} : job'[other] = job[other]
      /\ job'[c].step = step
  BY <1>3, <1>4, <1>5, GotoMoves
<1>7. job' \in [Callers -> Job] /\ ChangedBySetCount' /\ PollsForCount' /\ LoopGoesOn'
  BY <1>2, <1>3, <1>4, <1>5, MovedJob
<1>8. DOMAIN devices' = DOMAIN devices \cup {node} /\ Configured' = Configured
  BY <1>1, <1>2 DEF Configured
<1>9. TypeOK'
  <2>1. \A d \in DOMAIN devices' : devices'[d] \in 0..MaxCount
    <3>1. Configured \in 0..MaxCount /\ 0 \in 0..MaxCount
      BY ConfiguredType, CountsAssumption DEF DriverInv, Counts
    <3>2. \A d \in DOMAIN devices : devices[d] \in 0..MaxCount
      BY DEF DriverInv, TypeOK
    <3> QED BY <1>1, <3>1, <3>2
  <2>2. bare' \subseteq DOMAIN devices' /\ DOMAIN devices' \subseteq Nodes
    BY <1>1, <1>8 DEF DriverInv, TypeOK
  <2> QED BY <1>2, <1>7, <2>1, <2>2 DEF DriverInv, TypeOK, Job, windows, loop
<1>10. NoSilentMismatch'
  <2>1. \A d \in DOMAIN devices' : devices'[d] \notin {0, Configured} =>
          d \in DOMAIN devices /\ devices'[d] = devices[d]
    BY <1>1, <1>8
  <2>2. RestartPending(c) => step = "stop" \/ missed'
    BY <1>2, <1>3 DEF RestartPending
  <2> QED BY <1>2, <1>4, <1>5, <1>8, <2>1, <2>2, StillSilent
<1>11. CreatesKnowOfRaces'
  BY <1>2, <1>3, <1>6, <1>8 DEF DriverInv, CreatesKnowOfRaces, At
<1>12. DuplicateNeedsRace'
  <2>1. CASE DOMAIN devices = {}
    <3>1. DOMAIN devices' = {node}
      BY <1>8, <2>1
    <3>2. Cardinality(DOMAIN devices') = 1
      BY <3>1, FS_Singleton
    <3> QED BY <3>2 DEF DuplicateNeedsRace
  <2>2. CASE DOMAIN devices # {}
    <3>1. raced
      BY <1>2, <2>2 DEF DriverInv, CreatesKnowOfRaces, At
    <3> QED BY <1>2, <3>1 DEF DuplicateNeedsRace
  <2> QED BY <2>1, <2>2
<1> QED BY <1>7, <1>9, <1>10, <1>11, <1>12 DEF DriverInv

(* Enabling and disabling brings no device another count than the file's.   *)
LEMMA Changed ==
  ASSUME DriverInv, NEW F \in SUBSET (DOMAIN devices),
         devices' = Enabled(F) \/ devices' = Disabled(F)
  PROVE  /\ DOMAIN devices' = DOMAIN devices
         /\ \A d \in DOMAIN devices' : devices'[d] \in 0..MaxCount
         /\ \A d \in DOMAIN devices' : devices'[d] \notin {0, Configured} =>
              devices'[d] = devices[d]
<1>1. Configured \in 0..MaxCount /\ 0 \in 0..MaxCount
  BY ConfiguredType, CountsAssumption DEF DriverInv, Counts
<1>2. \A d \in DOMAIN devices : devices[d] \in 0..MaxCount
  BY DEF DriverInv, TypeOK
<1> QED BY <1>1, <1>2 DEF Enabled, Disabled

LEMMA SetStateStep == ASSUME DriverInv, NEW c \in Callers, SetState(c) PROVE DriverInv'
<1>1. PICK F \in SUBSET DOMAIN devices :
        /\ devices' = IF job[c].action = "disable" THEN Disabled(F) ELSE Enabled(F)
        /\ Goto(c, IF F = {} THEN Returned(c, FALSE) ELSE Installed(c))
        /\ missed' = (missed \/ (F = {} /\ job[c].changed))
  BY DEF SetState
<1> DEFINE step == IF F = {} THEN Returned(c, FALSE) ELSE Installed(c)
<1>2. /\ job[c].step = "state" /\ UNCHANGED <<file, bare, windows, loop, jobs, raced>>
      /\ missed' \in BOOLEAN /\ (missed' <=> (missed \/ (F = {} /\ job[c].changed)))
  BY <1>1 DEF SetState, At
<1>3. step \in {"endpoint", "failed", "poll", "ok", "stop"}
      /\ (step = "poll" => job[c].action = "setCount")
      /\ (F # {} /\ job[c].changed => step = "stop")
  BY ReturnedType, InstalledType DEF DriverInv, TypeOK, Job, ChangedBySetCount
<1>4. Goto(c, step)
  BY <1>1
<1> HIDE DEF step
<1>5. step \in Steps \ {"write", "create"}
  BY <1>3 DEF Steps
<1>6. /\ DOMAIN devices' = DOMAIN devices
      /\ \A d \in DOMAIN devices' : devices'[d] \in 0..MaxCount
      /\ \A d \in DOMAIN devices' : devices'[d] \notin {0, Configured} => devices'[d] = devices[d]
  BY <1>1, Changed
<1>7. NoSilentMismatch'
  <2>1. RestartPending(c) => step = "stop" \/ missed'
    BY <1>2, <1>3 DEF RestartPending
  <2>2. Configured' = Configured
    BY <1>2 DEF Configured
  <2> QED BY <1>2, <1>4, <1>5, <1>6, <2>1, <2>2, StillSilent
<1> QED BY <1>2, <1>3, <1>4, <1>5, <1>6, <1>7, StepElsewhere DEF DriverInv, TypeOK, windows

LEMMA StopStep == ASSUME DriverInv, NEW c \in Callers, Stop(c) PROVE DriverInv'
<1>1. PICK F \in SUBSET DOMAIN devices :
        /\ devices' = Disabled(F)
        /\ Goto(c, IF F = {} THEN Returned(c, FALSE) ELSE "start")
        /\ missed' = (missed \/ F # DOMAIN devices)
  BY DEF Stop
<1> DEFINE step == IF F = {} THEN Returned(c, FALSE) ELSE "start"
<1>2. /\ job[c].step = "stop" /\ UNCHANGED <<file, bare, windows, loop, jobs, raced>>
      /\ missed' \in BOOLEAN /\ (missed' <=> (missed \/ F # DOMAIN devices))
  BY <1>1 DEF Stop, At
<1>3. step \in {"endpoint", "failed", "poll", "ok", "start"}
      /\ (step = "poll" => job[c].action = "setCount")
  BY ReturnedType DEF DriverInv, TypeOK, Job
<1>4. Goto(c, step)
  BY <1>1
<1> HIDE DEF step
<1>5. step \in Steps \ {"write", "create"}
  BY <1>3 DEF Steps
<1>6. /\ DOMAIN devices' = DOMAIN devices
      /\ \A d \in DOMAIN devices' : devices'[d] \in 0..MaxCount
  BY <1>1, Changed
<1>7. NoSilentMismatch'
  <2>1. F = DOMAIN devices => \A d \in DOMAIN devices' : devices'[d] = 0
    BY <1>1 DEF Disabled
  <2> QED BY <1>2, <2>1 DEF NoSilentMismatch
<1> QED BY <1>2, <1>3, <1>4, <1>5, <1>6, <1>7, StepElsewhere DEF DriverInv, TypeOK, windows

LEMMA StartStep == ASSUME DriverInv, NEW c \in Callers, Start(c) PROVE DriverInv'
<1>1. PICK F \in SUBSET DOMAIN devices :
        devices' = Enabled(F) /\ Goto(c, Returned(c, F # {}))
  BY DEF Start
<1> DEFINE step == Returned(c, F # {})
<1>2. job[c].step = "start" /\ UNCHANGED <<file, bare, windows, loop, jobs, missed, raced>>
  BY DEF Start, At
<1>3. step \in {"endpoint", "failed", "poll", "ok"} /\ (step = "poll" => job[c].action = "setCount")
  BY ReturnedType DEF DriverInv, TypeOK, Job
<1>4. Goto(c, step)
  BY <1>1
<1> HIDE DEF step
<1>5. step \in Steps \ {"write", "create"}
  BY <1>3 DEF Steps
<1>6. /\ DOMAIN devices' = DOMAIN devices
      /\ \A d \in DOMAIN devices' : devices'[d] \in 0..MaxCount
      /\ \A d \in DOMAIN devices' : devices'[d] \notin {0, Configured} => devices'[d] = devices[d]
  BY <1>1, Changed
<1>7. NoSilentMismatch'
  <2>1. ~RestartPending(c) /\ Configured' = Configured
    BY <1>2 DEF RestartPending, Configured
  <2> QED BY <1>2, <1>4, <1>5, <1>6, <2>1, StillSilent
<1> QED BY <1>2, <1>3, <1>4, <1>5, <1>6, <1>7, StepElsewhere DEF DriverInv, TypeOK, windows

LEMMA RemoveStep == ASSUME DriverInv, NEW c \in Callers, Remove(c) PROVE DriverInv'
<1>1. PICK left \in SUBSET DOMAIN devices : /\ devices' = [d \in left |-> devices[d]]
                                            /\ bare' = bare \intersect left
  BY DEF Remove
<1>2. /\ job[c].step = "remove" /\ Goto(c, "ok")
      /\ UNCHANGED <<file, windows, loop, jobs, missed, raced>>
  BY DEF Remove, At
<1>3. /\ DOMAIN devices' = left /\ left \subseteq DOMAIN devices
      /\ \A d \in left : devices'[d] = devices[d]
  BY <1>1
<1>4. \A d \in DOMAIN devices' : devices'[d] \in 0..MaxCount
  BY <1>3 DEF DriverInv, TypeOK
<1>5. NoSilentMismatch'
  <2>1. ~RestartPending(c) /\ Configured' = Configured
    BY <1>2 DEF RestartPending, Configured
  <2> QED BY <1>2, <1>3, <2>1, StillSilent DEF Steps
<1> QED BY <1>1, <1>2, <1>3, <1>4, <1>5, StepElsewhere DEF DriverInv, TypeOK, windows, Steps

LEMMA BreaksStep == ASSUME DriverInv, NEW c \in Callers, Breaks(c) PROVE DriverInv'
<1> DEFINE step == Returned(c, FALSE)
<1>1. /\ job[c].step \in {"check", "create", "state", "stop", "start", "remove"} /\ Goto(c, step)
      /\ UNCHANGED <<file, devices, bare, windows, loop, jobs, raced>>
      /\ missed' \in BOOLEAN
      /\ (missed' <=> (missed \/ (job[c].changed /\ job[c].step # "start")))
  BY DEF Breaks
<1>2. step \in {"endpoint", "failed", "poll", "ok"} /\ (step = "poll" => job[c].action = "setCount")
  BY ReturnedType DEF DriverInv, TypeOK, Job
<1> HIDE DEF step
<1>3. step \in Steps \ {"write", "create"}
  BY <1>2 DEF Steps
<1>4. NoSilentMismatch'
  <2>1. (RestartPending(c) => missed') /\ Configured' = Configured
    BY <1>1 DEF RestartPending, Configured
  <2> QED BY <1>1, <1>3, <2>1, StillSilent
<1> QED BY <1>1, <1>2, <1>3, <1>4, StepElsewhere DEF DriverInv, TypeOK, windows

(* The caller goes on: its job is forgotten.                                *)
LEMMA FinishStep == ASSUME DriverInv, NEW c \in Callers, Finish(c) PROVE DriverInv'
<1>1. /\ job[c].step \in {"ok", "failed"} /\ job' = [job EXCEPT ![c] = Idle]
      /\ UNCHANGED <<file, devices, bare, windows, loop, jobs, missed, raced>>
      /\ job \in [Callers -> Job]
  BY DEF Finish, DriverInv, TypeOK, Job
<1>2. Idle \in Job /\ Idle.step = "idle" /\ Idle.action = "install" /\ Idle.changed = FALSE
  BY CountsAssumption DEF Idle, Job, Actions, Counts, Steps
<1>3. /\ job' \in [Callers -> Job]
      /\ job'[c] = Idle /\ \A other \in Callers \ {c} : job'[other] = job[other]
  BY <1>1, <1>2
<1>4. TypeOK'
  BY <1>1, <1>3 DEF DriverInv, TypeOK, Job, windows, loop
<1>5. ChangedBySetCount' /\ PollsForCount' /\ LoopGoesOn'
  BY <1>1, <1>2, <1>3, TheSender
     DEF DriverInv, ChangedBySetCount, PollsForCount, LoopGoesOn, loop
<1>6. NoSilentMismatch'
  <2>1. \A k \in Callers : RestartPending(k) => RestartPending(k)'
    BY <1>1, <1>3 DEF RestartPending
  <2> QED BY <1>1, <2>1 DEF DriverInv, NoSilentMismatch, Configured
<1>7. CreatesKnowOfRaces' /\ DuplicateNeedsRace'
  BY <1>1, <1>2, <1>3 DEF DriverInv, CreatesKnowOfRaces, DuplicateNeedsRace, At
<1> QED BY <1>4, <1>5, <1>6, <1>7 DEF DriverInv

-----------------------------------------------------------------------------
(* Waiting for Windows.                                                     *)

(* A wait that only moves the sender, to another wait or to its end.        *)
LEMMA SenderMoves ==
  ASSUME DriverInv, NEW step \in {"ok", "failed", "extended", "attached"}, Goto("sender", step),
         job["sender"].step \in {"endpoint", "extended", "attached", "poll"},
         UNCHANGED <<file, devices, bare, loop, jobs, missed, raced, visible>>,
         ready' \in 0..visible
  PROVE  DriverInv'
<1>1. step \in Steps \ {"write", "create"} /\ step # "poll"
  BY DEF Steps
<1>2. NoSilentMismatch'
  <2>1. ~RestartPending("sender") /\ Configured' = Configured
    BY DEF RestartPending, Configured
  <2> QED BY <1>1, <2>1, TheSender, StillSilent
<1> QED BY <1>1, <1>2, TheSender, StepElsewhere DEF DriverInv, TypeOK

(* One that leaves every job where it is.                                   *)
LEMMA JobsStay ==
  ASSUME DriverInv, UNCHANGED <<file, devices, bare, job, jobs, missed, raced>>,
         visible' \in Nat, ready' \in 0..visible',
         stable' \in 0..1 \/ stable' = stable,
         stable' \in 0..2, samples' \in 0..Samples, recovery' \in {"pending", "extended", "attached"}
  PROVE  DriverInv'
<1>1. TypeOK'
  BY DEF DriverInv, TypeOK
<1>2. ChangedBySetCount' /\ PollsForCount' /\ LoopGoesOn'
  BY DEF DriverInv, ChangedBySetCount, PollsForCount, LoopGoesOn
<1>3. NoSilentMismatch'
  BY DEF DriverInv, NoSilentMismatch, RestartPending, Configured
<1>4. CreatesKnowOfRaces' /\ DuplicateNeedsRace'
  BY DEF DriverInv, CreatesKnowOfRaces, DuplicateNeedsRace, At
<1> QED BY <1>1, <1>2, <1>3, <1>4 DEF DriverInv

LEMMA PollExactStep == ASSUME DriverInv, PollExact PROVE DriverInv'
<1>1. /\ job["sender"].step = "poll" /\ samples < Samples
      /\ samples' = samples + 1 /\ stable' = stable + 1
      /\ UNCHANGED <<file, devices, bare, windows, recovery, jobs, missed, raced>>
  BY DEF PollExact, At
<1>2. job["sender"].action = "setCount" /\ stable \in 0..1 /\ job \in [Callers -> Job]
  BY <1>1, TheSender DEF DriverInv, PollsForCount, LoopGoesOn, TypeOK, Job
<1>3. samples' \in 0..Samples /\ stable' \in 0..2
  BY <1>1, <1>2, CountsAssumption DEF DriverInv, TypeOK
<1> DEFINE step == IF stable + 1 >= 2 THEN "ok" ELSE "poll"
<1>4. Goto("sender", step) /\ step \in Steps
  BY DEF PollExact, Steps
<1>5. step = "poll" => stable' \in 0..1
  BY <1>1, <1>2
<1>6. step \in {"ok", "poll"}
  OBVIOUS
<1> HIDE DEF step
<1>7. /\ job' \in [Callers -> Job]
      /\ \A other \in Callers \ {"sender"} : job'[other] = job[other]
      /\ job'["sender"].step = step /\ job'["sender"].action = "setCount"
      /\ (job'["sender"].changed <=> job["sender"].changed)
  BY <1>2, <1>4, TheSender, GotoMoves
<1>8. TypeOK'
  BY <1>1, <1>3, <1>7 DEF DriverInv, TypeOK, Job, windows
<1>9. ChangedBySetCount' /\ PollsForCount' /\ LoopGoesOn'
  BY <1>5, <1>6, <1>7, TheSender DEF DriverInv, ChangedBySetCount, PollsForCount, LoopGoesOn
<1>10. NoSilentMismatch'
  <2>1. ~RestartPending("sender") /\ Configured' = Configured
    BY <1>1 DEF RestartPending, Configured
  <2> QED BY <1>1, <1>4, <2>1, TheSender, StillSilent
<1>11. CreatesKnowOfRaces' /\ DuplicateNeedsRace'
  BY <1>1, <1>6, <1>7, TheSender DEF DriverInv, CreatesKnowOfRaces, DuplicateNeedsRace, At
<1> QED BY <1>8, <1>9, <1>10, <1>11 DEF DriverInv

LEMMA WaitingStep == ASSUME DriverInv, Waiting PROVE DriverInv'
<1>1. visible \in Nat /\ ready \in 0..visible
  BY DEF DriverInv, TypeOK
<1>2. PutOnDesktop => ready' \in 0..visible /\ visible' = visible
  BY <1>1 DEF PutOnDesktop
<1>3. CASE EndpointSeen
  BY <1>1, <1>2, <1>3, SenderMoves DEF EndpointSeen, At, windows
<1>4. CASE CaptureSeen
  BY <1>1, <1>4, SenderMoves DEF CaptureSeen, windows
<1>5. CASE AttachDirectly
  BY <1>1, <1>2, <1>5, SenderMoves DEF AttachDirectly, At, windows
<1>6. CASE ReadyTimeout
  BY <1>1, <1>6, SenderMoves DEF ReadyTimeout, At, windows
<1>7. CASE PollExact
  BY <1>7, PollExactStep
<1>8. CASE PollInexact
  <2>1. /\ samples < Samples /\ samples' = samples + 1 /\ stable' = 0
        /\ recovery' \in {"pending", "extended", "attached"}
        /\ visible' = visible /\ ready' \in 0..visible
        /\ UNCHANGED <<file, devices, bare, job, jobs, missed, raced>>
    BY <1>1, <1>2, <1>8 DEF PollInexact, windows
  <2>2. samples' \in 0..Samples
    BY <2>1, CountsAssumption DEF DriverInv, TypeOK
  <2> QED BY <1>1, <2>1, <2>2, JobsStay
<1>9. CASE PollOver
  BY <1>1, <1>9, SenderMoves DEF PollOver, At, windows
<1> QED BY <1>3, <1>4, <1>5, <1>6, <1>7, <1>8, <1>9 DEF Waiting

LEMMA EnumerationStep == ASSUME DriverInv, WindowsEnumerates PROVE DriverInv'
<1>1. Running \in Nat
  BY RunningType DEF DriverInv
<1>2. /\ visible' = Running /\ ready' \in 0..Running
      /\ UNCHANGED <<file, devices, bare, job, loop, jobs, missed, raced>>
  BY DEF WindowsEnumerates
<1> QED BY <1>1, <1>2, JobsStay DEF DriverInv, TypeOK, loop

-----------------------------------------------------------------------------
LEMMA InitInv == Init => DriverInv
<1> SUFFICES ASSUME Init PROVE DriverInv
  OBVIOUS
<1>1. \A c \in Callers : job[c] = Idle
  BY DEF Init
<1>2. Idle \in Job /\ Idle.step = "idle" /\ Idle.action = "install" /\ Idle.changed = FALSE
  BY CountsAssumption DEF Idle, Job, Actions, Counts, Steps
<1>3. Configured \in 0..MaxCount
  BY CountsAssumption DEF Init, Configured
<1>4. \/ DOMAIN devices = {}
      \/ \E node \in Nodes : DOMAIN devices = {node} /\ devices[node] \in {0, Configured}
  BY DEF Init
<1>5. /\ DOMAIN devices \subseteq Nodes
      /\ \A d \in DOMAIN devices : devices[d] \in 0..MaxCount /\ devices[d] \in {0, Configured}
  <2>1. {0, Configured} \subseteq 0..MaxCount
    BY <1>3, CountsAssumption
  <2>2. \A d \in DOMAIN devices : devices[d] \in {0, Configured}
    BY <1>4
  <2>3. DOMAIN devices \subseteq Nodes
    BY <1>4
  <2> QED BY <2>1, <2>2, <2>3
<1>6. Cardinality(DOMAIN devices) \in {0, 1}
  BY <1>4, FS_EmptySet, FS_Singleton
<1>7. Running \in Nat
  <2>1. IsFiniteSet(DOMAIN devices)
    BY <1>5, NodesAssumption, FS_Subset
  <2>2. IsFiniteSet(Monitors)
    BY <2>1, FiniteMonitors
  <2> QED BY <2>2, FS_CardinalityType DEF Running
<1>8. TypeOK
  <2>1. job \in [Callers -> Job]
    BY <1>2 DEF Init
  <2>2. /\ visible \in Nat /\ ready \in 0..visible /\ bare \subseteq DOMAIN devices
        /\ file \in 0..MaxCount /\ missed \in BOOLEAN /\ raced \in BOOLEAN
        /\ stable = 0 /\ samples = 0 /\ jobs = 0
        /\ recovery \in {"pending", "extended", "attached"}
    BY <1>7 DEF Init
  <2>3. stable \in 0..2 /\ samples \in 0..Samples /\ jobs \in 0..MaxJobs
    BY <2>2, CountsAssumption
  <2> QED BY <1>5, <2>1, <2>2, <2>3 DEF TypeOK, Job
<1>9. ChangedBySetCount /\ PollsForCount /\ LoopGoesOn /\ CreatesKnowOfRaces
  BY <1>1, <1>2, TheSender DEF Init, ChangedBySetCount, PollsForCount, LoopGoesOn, CreatesKnowOfRaces, At
<1>10. NoSilentMismatch /\ DuplicateNeedsRace
  BY <1>5, <1>6 DEF NoSilentMismatch, DuplicateNeedsRace
<1> QED BY <1>8, <1>9, <1>10 DEF DriverInv

LEMMA NextInv == DriverInv /\ [Next]_vars => DriverInv'
<1> SUFFICES ASSUME DriverInv, [Next]_vars PROVE DriverInv'
  OBVIOUS
<1>1. CASE Requests
  BY <1>1, RequestsStep
<1>2. ASSUME NEW c \in Callers, Step(c) \/ Breaks(c) PROVE DriverInv'
  BY <1>2, WriteStep, WriteFailsStep, CheckStep, CreateStep, SetStateStep, StopStep, StartStep,
     RemoveStep, FinishStep, BreaksStep DEF Step
<1>3. CASE Waiting
  BY <1>3, WaitingStep
<1>4. CASE WindowsEnumerates
  BY <1>4, EnumerationStep
<1>5. CASE UNCHANGED vars
  BY <1>5, JobsStay DEF vars, DriverInv, TypeOK, windows, loop
<1> QED BY <1>1, <1>2, <1>3, <1>4, <1>5 DEF Next

(* DriverInv adds to the two properties who may be on the way to a restart, *)
(* a new device or the end of the count loop.                               *)
THEOREM DriverInvariant == Spec => []DriverInv
BY InitInv, NextInv, PTL DEF Spec

(* For any number of callers, nodes and actions: a device runs another count *)
(* than the settings file says only while the call that wrote the file is   *)
(* still going to restart it, or after a step that failed.                  *)
THEOREM DriverAlwaysOK == Spec => []DriverOK
<1>1. DriverInv => DriverOK
  BY DEF DriverInv, DriverOK
<1> QED BY <1>1, DriverInvariant, PTL

(* A second device always comes from two installs that were under way at    *)
(* once.                                                                    *)
THEOREM DuplicatesNeedRaces == Spec => []DuplicateNeedsRace
<1>1. DriverInv => DuplicateNeedsRace
  BY DEF DriverInv
<1> QED BY <1>1, DriverInvariant, PTL

=============================================================================
