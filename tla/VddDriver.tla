----------------------------- MODULE VddDriver -----------------------------
(***************************************************************************)
(* The bundled virtual display driver: the lifecycle actions of            *)
(* apps/desktop/src/vdd.rs and the readiness and count logic that          *)
(* apps/desktop/src/monitors.rs runs on top of them.  Two threads use it   *)
(* at will: the sender supervisor (make ready, set the count, remove) and  *)
(* the tray menu (install, enable, disable, remove).  Each action is a     *)
(* sequence of SetupAPI calls, in a child process when UAC is involved,    *)
(* and any of them can fail, or the child can die, half-way.               *)
(***************************************************************************)
EXTENDS Naturals, FiniteSets

CONSTANTS
  Callers,        \* the threads that request actions; "sender" is one of them
  MaxCount,       \* MAX_BUNDLED_VIRTUAL_DISPLAYS
  TemplateCount,  \* the count in the vdd_settings.xml shipped with the app
  Nodes,          \* device nodes Windows may create for the driver
  Samples,        \* polls of ensure_bundled_virtual_display_count in 30 s
  MaxJobs         \* bound: actions requested in one behaviour

ASSUME CallersAssumption == "sender" \in Callers
ASSUME CountsAssumption == /\ MaxCount \in Nat \ {0}
                           /\ TemplateCount \in 1..MaxCount
                           /\ Samples \in Nat \ {0} /\ MaxJobs \in Nat
ASSUME NodesAssumption == IsFiniteSet(Nodes)

VARIABLES
  file,      \* <count> in the driver's settings file, 0: no file
  devices,   \* installed device nodes -> monitors they run, 0: disabled
  bare,      \* those of them that were registered but never got the driver
  visible,   \* bundled monitor endpoints Windows enumerates at the moment
  ready,     \* those of them that are attached and can be captured
  job,       \* what every caller is doing
  stable, samples, recovery,  \* locals of the count loop (one sender thread)
  jobs,      \* actions requested so far
  missed,    \* history: a restart that was due did not happen on all devices
  raced      \* history: two installs were under way at once

vars == <<file, devices, bare, visible, ready, job, stable, samples, recovery, jobs, missed, raced>>
loop == <<stable, samples, recovery>>
windows == <<visible, ready>>

Counts == 1..MaxCount
Monitors == {monitor \in (DOMAIN devices) \X Counts : monitor[2] <= devices[monitor[1]]}
Running == Cardinality(Monitors)
(* What a device loads when it starts; without a file, the driver's own     *)
(* default, taken to be the template's.                                     *)
Configured == IF file = 0 THEN TemplateCount ELSE file

Steps == {"idle", "write", "check", "create", "stop", "start", "state", "remove",
          "endpoint", "extended", "attached", "poll", "ok", "failed"}
Actions == {"install", "setCount", "remove", "enable", "disable", "makeReady"}
Idle == [action |-> "install", count |-> 1, step |-> "idle", changed |-> FALSE]

Goto(c, step) == job' = [job EXCEPT ![c].step = step]
At(c, step) == job[c].step = step

-----------------------------------------------------------------------------
(* Requests.                                                                *)

Request(c, action, count, step) ==
  /\ At(c, "idle") /\ jobs < MaxJobs
  /\ jobs' = jobs + 1
  /\ job' = [job EXCEPT ![c] = [action |-> action, count |-> count, step |-> step,
                                changed |-> FALSE]]
  /\ UNCHANGED <<file, devices, bare, windows, missed, raced>>

(* ensure_bundled_virtual_display_count: nothing to do when the capture     *)
(* targets are already as many as asked for.                                *)
EnsureCount ==
  \E count \in Counts :
    /\ ready # count
    /\ Request("sender", "setCount", count, "write")
    /\ stable' = 0 /\ samples' = 0 /\ recovery' = "pending"

(* ensure_bundled_virtual_display_ready: install only without an endpoint.  *)
EnsureReady ==
  /\ ready = 0
  /\ Request("sender", "makeReady", 1, IF visible = 0 THEN "check" ELSE "endpoint")
  /\ UNCHANGED loop

(* remove_bundled_virtual_display: skipped while no endpoint is visible.    *)
RemoveDisplays ==
  /\ visible > 0
  /\ Request("sender", "remove", 1, "remove")
  /\ UNCHANGED loop

(* The tray's driver menu: run_vdd_action.                                  *)
Menu(c) ==
  /\ c # "sender"
  /\ \/ Request(c, "install", 1, "check")
     \/ \E action \in {"enable", "disable"} : Request(c, action, 1, "state")
     \/ Request(c, "remove", 1, "remove")
  /\ UNCHANGED loop

-----------------------------------------------------------------------------
(* The steps of an action.                                                  *)

(* Where a job goes when vdd::request returned: makeReady ignores a failed  *)
(* install and waits for the endpoint all the same.                         *)
Returned(c, ok) ==
  IF job[c].action = "makeReady" THEN "endpoint"
  ELSE IF ~ok THEN "failed"
  ELSE IF job[c].action = "setCount" THEN "poll" ELSE "ok"

(* write_monitor_count: a missing file is first copied from the template.   *)
Write(c) ==
  /\ At(c, "write")
  /\ file' = job[c].count
  /\ job' = [job EXCEPT ![c].step = "check", ![c].changed = Configured # job[c].count]
  /\ UNCHANGED <<devices, bare, windows, loop, jobs, missed, raced>>

WriteFails(c) ==
  /\ At(c, "write")
  /\ file' \in IF file = 0 THEN {0, TemplateCount} ELSE {file}
  /\ Goto(c, "failed")
  /\ UNCHANGED <<devices, bare, windows, loop, jobs, missed, raced>>

RacesInstall(c) == DOMAIN devices = {} /\ \E other \in Callers \ {c} : At(other, "create")

(* Mutant: an existing device is not looked for.                            *)
CheckNothing(c) ==
  /\ At(c, "check")
  /\ Goto(c, "create")
  /\ raced' = (raced \/ RacesInstall(c))
  /\ UNCHANGED <<file, devices, bare, windows, loop, jobs, missed>>

(* install(): an existing device is enabled, otherwise one is created.      *)
Check(c) ==
  /\ At(c, "check")
  /\ Goto(c, IF DOMAIN devices = {} THEN "create" ELSE "state")
  /\ raced' = (raced \/ RacesInstall(c))
  /\ UNCHANGED <<file, devices, bare, windows, loop, jobs, missed>>

(* What follows install(): set_monitor_count restarts the driver, but only  *)
(* if this very call changed the file.                                      *)
Installed(c) ==
  IF job[c].action = "setCount" /\ job[c].changed THEN "stop" ELSE Returned(c, TRUE)

(* win::install registers a node and binds the driver to it; the new device *)
(* starts with what the file says now.  When binding fails, the node stays. *)
Create(c) ==
  /\ At(c, "create")
  /\ \E node \in Nodes \ DOMAIN devices, bound \in BOOLEAN :
       /\ devices' = [d \in DOMAIN devices \union {node} |->
                        IF d # node THEN devices[d] ELSE IF bound THEN Configured ELSE 0]
       /\ bare' = IF bound THEN bare ELSE bare \union {node}
       /\ Goto(c, IF bound THEN Installed(c) ELSE Returned(c, FALSE))
       /\ missed' = (missed \/ (~bound /\ job[c].changed))
  /\ UNCHANGED <<file, windows, loop, jobs, raced>>

(* change_state(ENABLE) on the devices of F; the others fail.  An enabled   *)
(* device is left as it runs, one without a driver has nothing to start.    *)
Enabled(F) == [d \in DOMAIN devices |->
                 IF d \in F \ bare /\ devices[d] = 0 THEN Configured ELSE devices[d]]
Disabled(F) == [d \in DOMAIN devices |-> IF d \in F THEN 0 ELSE devices[d]]

(* set_enabled: an error unless at least one device took the change.        *)
SetState(c) ==
  /\ At(c, "state")
  /\ \E F \in SUBSET DOMAIN devices :
       /\ devices' = IF job[c].action = "disable" THEN Disabled(F) ELSE Enabled(F)
       /\ Goto(c, IF F = {} THEN Returned(c, FALSE) ELSE Installed(c))
       /\ missed' = (missed \/ (F = {} /\ job[c].changed))
  /\ UNCHANGED <<file, bare, windows, loop, jobs, raced>>

(* Mutant: the restart only enables, which an enabled device ignores.       *)
StopSkipped(c) ==
  /\ At(c, "stop")
  /\ Goto(c, "start")
  /\ UNCHANGED <<file, devices, bare, windows, loop, jobs, missed, raced>>

(* restart(): disable, 750 ms later enable.  Both are errors unless at      *)
(* least one device took the change.                                        *)
Stop(c) ==
  /\ At(c, "stop")
  /\ \E F \in SUBSET DOMAIN devices :
       /\ devices' = Disabled(F)
       /\ Goto(c, IF F = {} THEN Returned(c, FALSE) ELSE "start")
       /\ missed' = (missed \/ F # DOMAIN devices)
  /\ UNCHANGED <<file, bare, windows, loop, jobs, raced>>

Start(c) ==
  /\ At(c, "start")
  /\ \E F \in SUBSET DOMAIN devices :
       /\ devices' = Enabled(F)
       /\ Goto(c, Returned(c, F # {}))
  /\ UNCHANGED <<file, bare, windows, loop, jobs, missed, raced>>

(* remove(): what could not be removed is only logged.                      *)
Remove(c) ==
  /\ At(c, "remove")
  /\ \E left \in SUBSET DOMAIN devices : /\ devices' = [d \in left |-> devices[d]]
                                         /\ bare' = bare \intersect left
  /\ Goto(c, "ok")
  /\ UNCHANGED <<file, windows, loop, jobs, missed, raced>>

(* UAC was declined, the elevated child died, or a call before the next     *)
(* state change returned an error.                                          *)
Breaks(c) ==
  /\ job[c].step \in {"check", "create", "state", "stop", "start", "remove"}
  /\ Goto(c, Returned(c, FALSE))
  /\ missed' = (missed \/ (job[c].changed /\ job[c].step # "start"))
  /\ UNCHANGED <<file, devices, bare, windows, loop, jobs, raced>>

-----------------------------------------------------------------------------
(* Waiting for Windows.                                                     *)

(* request_extended_desktop, attach_detached_bundled_virtual_displays: they *)
(* put any number of the visible endpoints on the desktop.                  *)
PutOnDesktop == ready' \in ready..visible /\ UNCHANGED visible

(* ensure_bundled_virtual_display_ready, one wait after the other.          *)
EndpointSeen ==
  /\ At("sender", "endpoint") /\ visible > 0
  /\ IF ready > 0
     THEN Goto("sender", "ok") /\ UNCHANGED windows
     ELSE Goto("sender", "extended") /\ PutOnDesktop
  /\ UNCHANGED <<file, devices, bare, loop, jobs, missed, raced>>

CaptureSeen ==
  /\ job["sender"].step \in {"extended", "attached"} /\ ready > 0
  /\ Goto("sender", "ok")
  /\ UNCHANGED <<file, devices, bare, windows, loop, jobs, missed, raced>>

(* The shell did not attach anything within its ten seconds: attach         *)
(* directly, and wait once more if Windows accepted at least one endpoint.  *)
AttachDirectly ==
  /\ At("sender", "extended") /\ ready = 0
  /\ \/ visible > 0 /\ PutOnDesktop /\ Goto("sender", "attached")
     \/ Goto("sender", "failed") /\ UNCHANGED windows
  /\ UNCHANGED <<file, devices, bare, loop, jobs, missed, raced>>

ReadyTimeout ==
  /\ \/ At("sender", "endpoint") /\ visible = 0
     \/ At("sender", "attached") /\ ready = 0
  /\ Goto("sender", "failed")
  /\ UNCHANGED <<file, devices, bare, windows, loop, jobs, missed, raced>>

(* One poll of ensure_bundled_virtual_display_count that sees the count.    *)
PollExact ==
  /\ At("sender", "poll") /\ samples < Samples
  /\ ready = job["sender"].count
  /\ samples' = samples + 1
  /\ stable' = stable + 1
  /\ Goto("sender", IF stable + 1 >= 2 THEN "ok" ELSE "poll")
  /\ UNCHANGED <<file, devices, bare, windows, recovery, jobs, missed, raced>>

(* One that does not: with the exact endpoint set visible, the recovery     *)
(* escalates once per poll; with any other set it starts over.              *)
PollInexact ==
  /\ At("sender", "poll") /\ samples < Samples
  /\ ready # job["sender"].count
  /\ samples' = samples + 1
  /\ stable' = 0
  /\ IF visible # job["sender"].count
     THEN recovery' = "pending" /\ UNCHANGED windows
     ELSE /\ recovery' = IF recovery = "pending" THEN "extended" ELSE "attached"
          /\ IF recovery = "attached" THEN UNCHANGED windows ELSE PutOnDesktop
  /\ UNCHANGED <<file, devices, bare, job, jobs, missed, raced>>

(* Mutant: no deadline, the loop ends only with two samples in a row.       *)
PollNeverOver == FALSE /\ UNCHANGED vars

(* The deadline: whatever is ready now is returned.                         *)
PollOver ==
  /\ At("sender", "poll") /\ samples = Samples
  /\ Goto("sender", "ok")
  /\ UNCHANGED <<file, devices, bare, windows, loop, jobs, missed, raced>>

(* The caller goes on with the result.                                      *)
Finish(c) ==
  /\ job[c].step \in {"ok", "failed"}
  /\ job' = [job EXCEPT ![c] = Idle]
  /\ UNCHANGED <<file, devices, bare, windows, loop, jobs, missed, raced>>

(* Windows notices, sooner or later, which monitors the driver runs, and    *)
(* attaches any of them.                                                    *)
WindowsEnumerates ==
  /\ visible # Running
  /\ visible' = Running
  /\ ready' \in 0..Running
  /\ UNCHANGED <<file, devices, bare, job, loop, jobs, missed, raced>>

-----------------------------------------------------------------------------
Init ==
  /\ file \in 0..MaxCount
  /\ \/ devices = [d \in {} |-> 0]
     \/ \E node \in Nodes : devices \in [{node} -> {0, Configured}]
  /\ bare = {}
  /\ visible = Running
  /\ ready \in 0..visible
  /\ job = [c \in Callers |-> Idle]
  /\ stable = 0 /\ samples = 0 /\ recovery = "pending"
  /\ jobs = 0
  /\ missed = FALSE /\ raced = FALSE

Step(c) == \/ Write(c) \/ WriteFails(c) \/ Check(c) \/ Create(c) \/ SetState(c)
           \/ Stop(c) \/ Start(c) \/ Remove(c) \/ Finish(c)

Waiting == EndpointSeen \/ CaptureSeen \/ AttachDirectly \/ ReadyTimeout
           \/ PollExact \/ PollInexact \/ PollOver

Requests == EnsureCount \/ EnsureReady \/ RemoveDisplays \/ \E c \in Callers : Menu(c)

Next == \/ Requests
        \/ \E c \in Callers : Step(c) \/ Breaks(c)
        \/ Waiting
        \/ WindowsEnumerates

Spec == Init /\ [][Next]_vars

(* Every thread keeps running, the user answers a UAC prompt one way or the *)
(* other, the elevated child ends, and every wait has a deadline.           *)
FairSpec == Spec /\ \A c \in Callers : WF_vars(Step(c)) /\ WF_vars(Waiting)

-----------------------------------------------------------------------------
TypeOK ==
  /\ file \in 0..MaxCount
  /\ DOMAIN devices \subseteq Nodes /\ \A d \in DOMAIN devices : devices[d] \in 0..MaxCount
  /\ bare \subseteq DOMAIN devices
  /\ visible \in Nat /\ ready \in 0..visible
  /\ job \in [Callers -> [action : Actions, count : Counts, step : Steps, changed : BOOLEAN]]
  /\ stable \in 0..2 /\ samples \in 0..Samples
  /\ recovery \in {"pending", "extended", "attached"}
  /\ jobs \in 0..MaxJobs
  /\ missed \in BOOLEAN /\ raced \in BOOLEAN

(* A device runs another count than the settings file says only while the   *)
(* call that wrote the file has not reached the restart yet, or after a     *)
(* restart that did not happen or left a device out.                        *)
RestartPending(c) == job[c].changed /\ job[c].step \in {"check", "create", "state", "stop"}
NoSilentMismatch ==
  (\E d \in DOMAIN devices : devices[d] \notin {0, Configured})
    => missed \/ \E c \in Callers : RestartPending(c)

(* The variables have their types, and a driver that does not run what its  *)
(* file says has been left that way by a step that failed on the way, never *)
(* by a sequence of calls that all succeeded (set_monitor_count, vdd.rs).   *)
DriverOK == TypeOK /\ NoSilentMismatch

(* A second device, which doubles every count, takes two installs at once.  *)
DuplicateNeedsRace == Cardinality(DOMAIN devices) > 1 => raced

(* Making displays ready and setting their count always comes to an end,    *)
(* whatever Windows, the user and the tray menu do meanwhile.               *)
SenderIsAnswered == ~At("sender", "idle") ~> At("sender", "idle")

=============================================================================
