----------------------------- MODULE AppUpdate -----------------------------
(***************************************************************************)
(* How one tray application runs at a time and replaces itself by a new    *)
(* version: the single instance guard (single_instance.rs), the updater    *)
(* threads of a tray process and the runner they leave behind, a           *)
(* PowerShell script that waits for the process to exit, runs msiexec and  *)
(* starts the tray again (updater.rs).                                     *)
(*                                                                         *)
(* A process is named by its pid. The pid of a new process is not one that *)
(* the lock file or a waiting runner still names. That Windows gives such  *)
(* a pid to an unrelated program, or that a screen-mirror process without  *)
(* a tray runs (recv, send, vdd), shows where the code asks for processes: *)
(* it may take one of these for the tray.                                  *)
(***************************************************************************)
EXTENDS Naturals, FiniteSets

CONSTANTS
  Pids,       \* bound: pids of tray processes
  MaxRunners, \* bound: runners at work at once
  Release,    \* the version of the latest release
  None

ASSUME PidsAssumption == Pids \subseteq Nat /\ None \notin Pids
ASSUME ReleaseAssumption == Release \in Nat \ {0}

Updaters == {"background", "manual"}

VARIABLES
  proc,      \* how far main got in each process
  version,   \* the version each process was built as, 0 for none
  lock,      \* screen-mirror.lock: who created it and whether it names its pid
  check,     \* what each updater thread of a process is doing
  runner,    \* the runner each updater thread started
  installed, \* the version in Program Files
  mistaken   \* history: an unrelated process was taken for the tray

vars == <<proc, version, lock, check, runner, installed, mistaken>>

NoLock == [by |-> None, written |-> FALSE]

TypeOK ==
  /\ proc \in [Pids -> {"dead", "look", "remove", "create", "name", "tray"}]
  /\ version \in [Pids -> 0..Release]
  /\ lock \in [by: Pids \cup {None}, written: BOOLEAN]
  /\ check \in [Pids -> [Updaters -> {"idle", "looking", "leaving"}]]
  /\ runner \in [Pids -> [Updaters -> {"none", "waiting", "installing", "failed",
                                       "installed"}]]
  /\ installed \in 1..Release
  /\ mistaken \in BOOLEAN

Alive(p) == proc[p] # "dead"
TrayRuns == \E p \in Pids : proc[p] = "tray"
Installing == \E p \in Pids, u \in Updaters : runner[p][u] = "installing"

-----------------------------------------------------------------------------
(* acquire_tray_instance. *)

Fresh(p) == /\ ~Alive(p) /\ lock.by # p
            /\ \A u \in Updaters : runner[p][u] # "waiting"

(* The pids are as good as one another: a process gets the first fresh one. *)
Launch ==
  \E p \in Pids :
    /\ Fresh(p) /\ \A q \in Pids : Fresh(q) => p <= q
    /\ proc' = [proc EXCEPT ![p] = "look"]
    /\ version' = [version EXCEPT ![p] = installed]

Goto(p, at) == proc' = [proc EXCEPT ![p] = at] /\ UNCHANGED version

(* process::exit, with the process's updater threads. *)
End(p) == proc' = [proc EXCEPT ![p] = "dead"] /\ version' = [version EXCEPT ![p] = 0]

(* Mutant: a lock file always stands for a process.                        *)
NeverStale == FALSE

(* A lock file without a pid in it is stale, too.                          *)
Stale == ~lock.written \/ ~Alive(lock.by)

Look(p) ==
  /\ proc[p] = "look"
  /\ \/ lock # NoLock /\ Stale /\ Goto(p, "remove") /\ UNCHANGED mistaken
     \/ ~(lock # NoLock /\ Stale) /\ Goto(p, "create") /\ UNCHANGED mistaken
     \/ lock.written /\ ~Alive(lock.by) /\ Goto(p, "create") /\ mistaken' = TRUE
  /\ UNCHANGED <<lock, check, runner, installed>>

Remove(p) ==
  /\ proc[p] = "remove"
  /\ lock' = NoLock
  /\ Goto(p, "create")
  /\ UNCHANGED <<check, runner, installed, mistaken>>

(* create_new: the file is someone else's, so this process exits.          *)
Create(p) ==
  /\ proc[p] = "create"
  /\ IF lock = NoLock
     THEN lock' = [by |-> p, written |-> FALSE] /\ Goto(p, "name")
     ELSE End(p) /\ UNCHANGED lock
  /\ UNCHANGED <<check, runner, installed, mistaken>>

(* Mutant: two that start at once both give way.                           *)
NamesAndGivesWay(p) ==
  /\ proc[p] = "name"
  /\ lock' = IF lock.by = p THEN [lock EXCEPT !.written = TRUE] ELSE lock
  /\ IF \E q \in Pids \ {p} : Alive(q) THEN End(p) ELSE Goto(p, "tray")
  /\ UNCHANGED <<check, runner, installed, mistaken>>

(* The pid is written, perhaps to a file another process has removed       *)
(* meanwhile; then acquire_named_mutex: the mutex exists as long as a tray *)
(* has its handle. A process that exits here leaves its lock file behind.  *)
Name(p) ==
  /\ proc[p] = "name"
  /\ lock' = IF lock.by = p THEN [lock EXCEPT !.written = TRUE] ELSE lock
  /\ IF TrayRuns THEN End(p) ELSE Goto(p, "tray")
  /\ UNCHANGED <<check, runner, installed, mistaken>>

Dies(p) == End(p) /\ check' = [check EXCEPT ![p] = [u \in Updaters |-> "idle"]]

(* The user quits: InstanceGuard is dropped and whatever lock file there   *)
(* is goes.                                                                *)
Quit(p) ==
  /\ proc[p] = "tray"
  /\ Dies(p)
  /\ lock' = NoLock
  /\ UNCHANGED <<runner, installed, mistaken>>

-----------------------------------------------------------------------------
(* The updater threads. *)

(* A check that may install: the menu item's, and the one of               *)
(* start_background_update_checks that finds no session. Whether it finds  *)
(* one is left open; a check that does only reports a new release.         *)
(* Bound: one manual check at a time.                                      *)
StartCheck(p, u) ==
  /\ proc[p] = "tray" /\ check[p][u] = "idle"
  /\ check' = [check EXCEPT ![p][u] = "looking"]
  /\ UNCHANGED <<proc, version, lock, runner, installed, mistaken>>

(* check_and_start_update: no newer release, or a step failed. A manual    *)
(* check leaves all the same once another thread set UPDATE_STARTED.       *)
UpdateStarted(p) == \E u \in Updaters : check[p][u] = "leaving"

CheckEnds(p, u) ==
  /\ check[p][u] = "looking"
  /\ check' = [check EXCEPT ![p][u] =
                 IF u = "manual" /\ UpdateStarted(p) THEN "leaving" ELSE "idle"]
  /\ UNCHANGED <<proc, version, lock, runner, installed, mistaken>>

Runners == {x \in Pids \X Updaters : runner[x[1]][x[2]] # "none"}

(* The installer is downloaded and its runner started.                     *)
StartRunner(p, u) ==
  /\ Cardinality(Runners) < MaxRunners
  /\ check[p][u] = "looking" /\ version[p] < Release
  /\ check' = [check EXCEPT ![p][u] = "leaving"]
  /\ runner' = [runner EXCEPT ![p][u] = "waiting"]
  /\ UNCHANGED <<proc, version, lock, installed, mistaken>>

(* process::exit two seconds later: no destructor runs.                    *)
Leave(p) ==
  /\ UpdateStarted(p)
  /\ Dies(p)
  /\ UNCHANGED <<lock, runner, installed, mistaken>>

-----------------------------------------------------------------------------
(* run-update.ps1. *)

Runner(p, u, at) == runner' = [runner EXCEPT ![p][u] = at]

(* The process is gone; of two installations at once the second fails, and *)
(* so does one the user does not allow.                                    *)
BeginInstall(p, u) ==
  /\ runner[p][u] = "waiting" /\ ~Alive(p)
  /\ \/ ~Installing /\ Runner(p, u, "installing")
     \/ Runner(p, u, "failed")
  /\ UNCHANGED <<proc, version, lock, check, installed, mistaken>>

(* After 30 seconds; the process itself leaves within two.                 *)
GiveUpWaiting(p, u) ==
  /\ runner[p][u] = "waiting" /\ ~Alive(p)
  /\ Runner(p, u, "none") /\ mistaken' = TRUE
  /\ UNCHANGED <<proc, version, lock, check, installed>>

InstallEnds(p, u) ==
  /\ runner[p][u] = "installing"
  /\ \/ Runner(p, u, "installed") /\ installed' = Release
     \/ Runner(p, u, "failed") /\ UNCHANGED installed
  /\ UNCHANGED <<proc, version, lock, check, mistaken>>

(* After a failure the old program starts again, unless it is not there,   *)
(* for another runner is replacing it.                                     *)
RestartOld(p, u) ==
  /\ runner[p][u] = "failed"
  /\ Runner(p, u, "none")
  /\ \/ Launch
     \/ Installing /\ UNCHANGED <<proc, version>>
  /\ UNCHANGED <<lock, check, installed, mistaken>>

(* After a success the new one does, unless a screen-mirror process runs.  *)
(* The runner sleeps for five seconds first: a process that has started to *)
(* look at the guard is through in far less.                               *)
Settled == \A p \in Pids : proc[p] \in {"dead", "look", "tray"}

RestartNew(p, u) ==
  /\ runner[p][u] = "installed" /\ Settled
  /\ Runner(p, u, "none")
  /\ \/ /\ \E q \in Pids : Alive(q)
        /\ UNCHANGED <<proc, version, mistaken>>
     \/ /\ \A q \in Pids : ~Alive(q)
        /\ Launch
        /\ UNCHANGED mistaken
     \/ mistaken' = TRUE /\ UNCHANGED <<proc, version>>
  /\ UNCHANGED <<lock, check, installed>>

-----------------------------------------------------------------------------

\* Bound: never next to two others.
UserLaunches ==
  /\ Cardinality({p \in Pids : Alive(p)}) < 2
  /\ Launch
  /\ UNCHANGED <<lock, check, runner, installed, mistaken>>

Init ==
  /\ proc = [p \in Pids |-> "dead"]
  /\ version = [p \in Pids |-> 0]
  /\ lock = NoLock
  /\ check = [p \in Pids |-> [u \in Updaters |-> "idle"]]
  /\ runner = [p \in Pids |-> [u \in Updaters |-> "none"]]
  /\ installed = 1
  /\ mistaken = FALSE

Acquire(p) == Look(p) \/ Remove(p) \/ Create(p) \/ Name(p)

RunnerStep(p, u) == \/ BeginInstall(p, u) \/ GiveUpWaiting(p, u) \/ InstallEnds(p, u)
                    \/ RestartOld(p, u) \/ RestartNew(p, u)

Acquires == ~mistaken /\ \E p \in Pids : Acquire(p)
Leaves == ~mistaken /\ \E p \in Pids : Leave(p)
RunnersRun == ~mistaken /\ \E p \in Pids, u \in Updaters : RunnerStep(p, u)

\* Bound: the model follows a host up to the first mistake.
Next ==
  \/ Acquires \/ Leaves \/ RunnersRun
  \/ /\ ~mistaken
     /\ \/ \E p \in Pids : Quit(p)
        \/ \E p \in Pids, u \in Updaters :
             StartCheck(p, u) \/ CheckEnds(p, u) \/ StartRunner(p, u)
        \/ UserLaunches

(* Processes and scripts run on; nobody has to start a check or quit.      *)
Fairness == WF_vars(Acquires) /\ WF_vars(Leaves) /\ WF_vars(RunnersRun)

Spec == Init /\ [][Next]_vars /\ Fairness

-----------------------------------------------------------------------------
(* The guard lets one of the processes that start at about the same time   *)
(* become the tray, whatever lock file an earlier one left: they never all *)
(* give way to each other. An unrelated program with the pid in the lock   *)
(* file does stop them (process_is_running).                               *)
AStartSucceeds ==
  (\E p \in Pids : proc[p] = "look") ~> TrayRuns \/ mistaken

(* A tray that left for an update is followed by a tray, old or new,       *)
(* however many runners it left and however they end, unless a pid is      *)
(* reused, or the runner took another screen-mirror process for the tray.  *)
UpdateComesBack ==
  (\E p \in Pids, u \in Updaters : runner[p][u] = "waiting" /\ ~Alive(p))
    ~> TrayRuns \/ mistaken
=============================================================================
