------------------------------ MODULE TrayApp ------------------------------
(***************************************************************************)
(* TrayApp of apps/desktop/src/tray_app.rs: the event loop that starts,    *)
(* stops and repairs the one session of the desktop application, next to   *)
(* the receiver's pipeline thread (pipeline.rs), the user, who clicks the  *)
(* menu and edits config.toml, and the displays of the sender.             *)
(*                                                                         *)
(* A handler of the event loop is one action, cut in two where it joins    *)
(* the pipeline thread (PipelineHandle::stop): "stopping" is that wait.    *)
(* The value of a setting that only one side uses (frame rate, encoder,    *)
(* bitrate, scaling filter, GPU...) is one of Choices.                     *)
(***************************************************************************)
EXTENDS Naturals, FiniteSets

CONSTANTS
  Pins,       \* values of security.pin, and of all that only a hand edit changes
  Displaying, \* those that come with send.enable_virtual_display
  Choices,    \* values of a setting the tray's menus change
  MaxRoutes,  \* bound: routes in a ReceiverPipelinePlan
  MaxDrift,   \* bound: settings in which file and application differ after
              \* an edit or a write that failed
  None        \* Option::None

ASSUME RoutesAssumption == MaxRoutes \in Nat \ {0}
ASSUME DriftAssumption == MaxDrift \in Nat

VARIABLES
  app,      \* what the main thread owns: its configuration and the session, and
            \* as history whether the session runs without the last pick
  video,    \* the receiver's pipeline thread, with TrayApp::pipeline
  audio,    \* the receiver's audio pipeline thread, TrayApp::audio_pipeline
  ui,       \* where the main thread is
  file,     \* config.toml, None while its text does not parse
  displays  \* the virtual displays a sender brought up: "none", "borrowed"
            \* until somebody decides about them, "left" when the user has
            \* refused their removal or the configuration has dropped them

vars == <<app, video, audio, ui, file, displays>>

Modes == {"idle", "sender", "receiver"}

Config == [startup: Modes, pin: Pins, sendAudio: BOOLEAN, recvAudio: BOOLEAN,
           sendChoice: Choices, recvChoice: Choices]
WithDisplays(c) == c.pin \in Displaying

(* What a SenderSupervisor is started with. *)
Snapshot == [pin: Pins, audio: BOOLEAN, choice: Choices]

ASSUME NoneAssumption == None \notin Pins \cup Config \cup Snapshot

SnapshotOf(c) == [pin |-> c.pin, audio |-> c.sendAudio, choice |-> c.sendChoice]

(* A session's parts: the supervisor, the control server, the feedback     *)
(* sender, the announcer, and the screen (window guard, statistics and     *)
(* sleep guard), each with the configuration it was started with.          *)
Parts == [supervisor: Snapshot \cup {None}, control: Pins \cup {None},
          feedback: Pins \cup {None}, screen: BOOLEAN,
          announcer: [role: Modes, pin: Pins] \cup {None}]
NoParts == [supervisor |-> None, control |-> None, feedback |-> None,
            screen |-> FALSE, announcer |-> None]

(* PipelineHandle and its thread: which route of the plan it plays, whether *)
(* a stop message waits in its channel, and whether a pipeline refused to   *)
(* go to the Null state after it had taken that message.                    *)
Gone == [state |-> "none"]
Thread(n, c) == [state |-> "running", route |-> 1, routes |-> n,
                 stop |-> FALSE, refused |-> FALSE, choice |-> c]
Ended(result, c) == [state |-> result, choice |-> c]
Threads == {Gone} \cup {Ended(r, c) : r \in {"ok", "failed"}, c \in Choices} \cup
  [state: {"running"}, route: 1..MaxRoutes, routes: 1..MaxRoutes,
   stop: BOOLEAN, refused: BOOLEAN, choice: Choices]

AudioStates == {"none", "running", "ok", "failed"}

(* The handlers that stop the session first; reload keeps what it loaded. *)
Handlers == {"stop", "quit", "start_sender", "start_receiver", "reload_config"}
At(where) == [at |-> where]
Stopping(h, e, c) == [at |-> "stopping", handler |-> h, err |-> e, loaded |-> c]

TypeOK ==
  /\ app \in [config: Config, mode: Modes, parts: Parts,
              diagnostics: Pins \cup {None}, waiting: BOOLEAN,
              busy: BOOLEAN, unapplied: BOOLEAN]
  /\ video \in Threads
  /\ audio \in AudioStates
  /\ \/ ui \in {At(w) : w \in {"start", "event", "reap", "gone"}}
     \/ ui \in [at: {"stopping"}, handler: Handlers, err: BOOLEAN,
               loaded: Config \cup {None}]
  /\ file \in Config \cup {None}
  /\ displays \in {"none", "borrowed", "left"}

config == app.config
Stopped == ui.at = "stopping" /\ video.state # "running"
Free == ui.at \in {"event", "reap"}

-----------------------------------------------------------------------------
(* Configuration file. *)

(* AppConfig::load_or_create fails on text it cannot parse. *)
Loads == file # None

Drift(f, c) == Cardinality({field \in DOMAIN c : f[field] # c[field]})

(* AppConfig::save_to writes what the application holds over whatever the  *)
(* file says, or fails and leaves the file as it was or cut off. save_config *)
(* only logs that; the handler goes on.                                    *)
Lost(c) == {None} \cup (IF Loads /\ Drift(file, c) <= MaxDrift THEN {file} ELSE {})
Save(c) == file' \in {c} \cup Lost(c)

(* The user edits config.toml by hand, and perhaps to text that does not   *)
(* parse.                                                                  *)
HandEdit ==
  /\ ui.at # "gone"
  /\ \/ file' = None
     \/ \E p \in Pins :
          /\ file' = [IF Loads THEN file ELSE config EXCEPT !.pin = p]
          /\ Drift(file', config) <= MaxDrift
  /\ UNCHANGED <<app, video, audio, ui, displays>>

-----------------------------------------------------------------------------
(* Ending a session. *)

(* Mutant: the thread is joined and never told.                            *)
BeginStopSilently(h, c) ==
  ui' = Stopping(h, FALSE, c) /\ audio' = "none" /\ UNCHANGED video

(* stop_current up to the join of the pipeline thread: the audio pipeline  *)
(* is stopped first; it reports the error it ended with, or that it did    *)
(* not go to the Null state.                                               *)
BeginStop(h, c) ==
  /\ \E e \in CASE audio = "none"    -> {FALSE}
                [] audio = "ok"      -> {FALSE}
                [] audio = "failed"  -> {TRUE}
                [] audio = "running" -> BOOLEAN :
        ui' = Stopping(h, e, c)
  /\ audio' = "none"
  /\ video' = IF video.state = "running" THEN [video EXCEPT !.stop = TRUE]
                                         ELSE video

(* Mutant: the announcer is not taken.                                     *)
IdleAnnounces(c) ==
  [config |-> c, mode |-> "idle", diagnostics |-> app.diagnostics,
   parts |-> [NoParts EXCEPT !.announcer = app.parts.announcer],
   waiting |-> FALSE, busy |-> FALSE, unapplied |-> FALSE]

(* The rest of stop_current and its sync_menu: nothing of a session is left. *)
Idle(c) == [config |-> c, mode |-> "idle", parts |-> NoParts,
            diagnostics |-> app.diagnostics, waiting |-> FALSE, busy |-> FALSE,
            unapplied |-> FALSE]

StopFailed == ui.err \/ video.state = "failed"

(* A sender session starts again on the displays of the one before: under  *)
(* the configuration c it will give them back, or not.                     *)
Kept(c) == CASE displays = "none" -> "none"
             [] displays # "none" /\ WithDisplays(c) -> "borrowed"
             [] displays # "none" /\ ~WithDisplays(c) -> "left"

(* Mutant: the mode is read after stop_current.                            *)
ReleasedWhenIdle(c) == {displays}

(* release_sender_virtual_displays: the user may refuse the elevation.     *)
Released(c) ==
  IF app.mode # "sender" THEN {displays}
  ELSE IF displays # "none" /\ WithDisplays(c) THEN {"none", "left"}
  ELSE {Kept(c)}

(* restart_diagnostics_server. *)
Diagnosed(a, c) == [a EXCEPT !.config = c, !.diagnostics = c.pin]

-----------------------------------------------------------------------------
(* Starting a session. *)

(* The servers and announcers of a session: one that does not start is     *)
(* logged and done without; here they fail together.                       *)
Servers == BOOLEAN

(* start_sender after stop_current. *)
Senders(a) ==
  {[a EXCEPT !.config.startup = "sender", !.mode = "sender",
             !.parts = [NoParts EXCEPT
               !.supervisor = SnapshotOf(a.config),
               !.control = IF up THEN a.config.pin ELSE None,
               !.announcer = IF up THEN [role |-> "sender", pin |-> a.config.pin]
                                   ELSE None]] : up \in Servers}

(* start_receiver after end_session. *)
Receivers(a) ==
  {[a EXCEPT !.config.startup = "receiver", !.mode = "receiver", !.busy = TRUE,
             !.parts = [NoParts EXCEPT
               !.screen = TRUE,
               !.feedback = IF up THEN a.config.pin ELSE None,
               !.announcer = IF up THEN [role |-> "receiver", pin |-> a.config.pin]
                                   ELSE None]] : up \in Servers}

SendFrom(a) ==
  /\ app' \in Senders(a)
  /\ Save(app'.config)
  /\ video' = Gone
  /\ UNCHANGED audio

(* The plan, and with audio its description, may fail to build. *)
ReceiveFrom(a) ==
  \/ /\ app' \in Receivers(a)
     /\ Save(app'.config)
     /\ \E n \in 1..MaxRoutes : video' = Thread(n, a.config.recvChoice)
     /\ audio' = IF a.config.recvAudio THEN "running" ELSE "none"
  \/ app' = a /\ video' = Gone /\ UNCHANGED <<audio, file>>

(* The continuation of a handler once the pipeline thread has ended. *)
Continue(handlers) == Stopped /\ ui.handler \in handlers /\ ui' = At("reap")

AbandonStart ==
  /\ Continue({"start_sender", "start_receiver", "reload_config"}) /\ StopFailed
  /\ app' = Idle(config)
  /\ displays' \in IF ui.handler = "start_receiver" THEN Released(config)
                                                    ELSE {displays}
  /\ video' = Gone
  /\ UNCHANGED <<audio, file>>

FinishStartSender ==
  /\ Continue({"start_sender"}) /\ ~StopFailed
  /\ SendFrom(Idle(config))
  /\ displays' = Kept(config)

FinishStartReceiver ==
  /\ Continue({"start_receiver"}) /\ ~StopFailed
  /\ displays' \in Released(config)
  /\ ReceiveFrom(Idle(config))

(* reload_config starts the mode that ran again, which loads the file a    *)
(* second time; nothing is left for that start to stop. When that load     *)
(* fails the application stays idle, and a sender's displays stay as they  *)
(* are.                                                                    *)
FinishReloadConfig ==
  /\ Continue({"reload_config"}) /\ ~StopFailed
  /\ LET reloaded == Diagnosed(Idle(ui.loaded), ui.loaded)
     IN  \/ /\ app.mode = "idle" \/ ~Loads
            /\ app' = reloaded /\ video' = Gone
            /\ UNCHANGED <<audio, file, displays>>
         \/ /\ app.mode = "sender" /\ Loads
            /\ SendFrom(Diagnosed(reloaded, file))
            /\ displays' = Kept(file)
         \/ /\ app.mode = "receiver" /\ Loads
            /\ ReceiveFrom(Diagnosed(reloaded, file))
            /\ UNCHANGED displays

FinishStop ==
  /\ Continue({"stop"})
  /\ displays' \in Released(config)
  /\ app' = Idle([config EXCEPT !.startup = "idle"])
  /\ Save(app'.config)
  /\ video' = Gone
  /\ UNCHANGED audio

FinishQuit ==
  /\ Stopped /\ ui.handler = "quit"
  /\ ui' = At("gone")
  /\ displays' \in Released(config)
  /\ app' = [Idle(config) EXCEPT !.diagnostics = None]
  /\ video' = Gone
  /\ UNCHANGED <<audio, file>>

-----------------------------------------------------------------------------
(* The menu. *)

(* Mutant: the diagnostics server keeps the pin it was started with.       *)
StartModeKeepsServer(mode, a) ==
  IF file' = None
  THEN app' = a /\ ui' = At("reap") /\ UNCHANGED <<video, audio>>
  ELSE /\ app' = [a EXCEPT !.config = file']
       /\ BeginStop(IF mode = "sender" THEN "start_sender" ELSE "start_receiver", None)

(* start_sender and start_receiver up to the join: they load the file over *)
(* the configuration the menu left.                                        *)
StartMode(mode, a) ==
  LET handler == IF mode = "sender" THEN "start_sender" ELSE "start_receiver"
  IN  IF file' = None
      THEN app' = a /\ ui' = At("reap") /\ UNCHANGED <<video, audio>>
      ELSE app' = Diagnosed(a, file') /\ BeginStop(handler, None)

(* initialize_tray starts the session the configuration asks for. *)
InitializeTray ==
  /\ ui.at = "start"
  /\ UNCHANGED <<file, displays>>
  /\ LET a == Diagnosed(app, config)
     IN  IF config.startup = "idle"
         THEN app' = a /\ ui' = At("event") /\ UNCHANGED <<video, audio>>
         ELSE StartMode(config.startup, a)

(* The item of the mode that runs is disabled. *)
StartItem ==
  /\ ui.at = "event"
  /\ UNCHANGED <<file, displays>>
  /\ \E mode \in Modes \ {"idle", app.mode} : StartMode(mode, app)

StopItem ==
  /\ ui.at = "event" /\ app.mode # "idle"
  /\ BeginStop("stop", None)
  /\ UNCHANGED <<app, file, displays>>

QuitItem ==
  /\ ui.at = "event"
  /\ BeginStop("quit", None)
  /\ UNCHANGED <<app, file, displays>>

ReloadItem ==
  /\ ui.at = "event"
  /\ IF Loads THEN BeginStop("reload_config", file)
              ELSE ui' = At("reap") /\ UNCHANGED <<video, audio>>
  /\ UNCHANGED <<app, file, displays>>

(* A select_ handler of one side: a new value is saved, and a session of   *)
(* that side starts again, unless the file does not load.                  *)
Select(mode, c) ==
  /\ Save(c)
  /\ IF app.mode = mode
     THEN StartMode(mode, [app EXCEPT !.config = c, !.unapplied = (file' = None)])
     ELSE app' = [app EXCEPT !.config = c] /\ ui' = At("reap") /\ UNCHANGED <<video, audio>>

SelectItem ==
  /\ ui.at = "event"
  /\ \E v \in Choices :
       \/ v # config.sendChoice /\ Select("sender", [config EXCEPT !.sendChoice = v])
       \/ v # config.recvChoice /\ Select("receiver", [config EXCEPT !.recvChoice = v])
  /\ UNCHANGED displays

(* toggle_autostart: only the save matters here. *)
AutostartItem ==
  /\ ui.at = "event"
  /\ Save(config)
  /\ ui' = At("reap")
  /\ UNCHANGED <<app, video, audio, displays>>

(* toggle_audio, with apply_audio_toggle: the last disjunct is a           *)
(* description that does not build, after which the old setting is written *)
(* back.                                                                   *)
AudioItem ==
  LET on == ~(config.sendAudio /\ config.recvAudio)
      Toggled == [app EXCEPT !.config.sendAudio = on, !.config.recvAudio = on]
  IN  /\ ui.at = "event"
      /\ \/ /\ app.mode = "idle" /\ app' = Toggled
            /\ file' = app'.config /\ UNCHANGED audio
         \/ /\ app.mode = "sender"
            /\ app' = [Toggled EXCEPT !.parts.supervisor.audio = on]
            /\ file' = app'.config /\ UNCHANGED audio
         \/ /\ app.mode = "receiver" /\ app' = Toggled
            /\ audio' = CASE ~on -> "none"
                          [] on /\ audio = "none" -> "running"
                          [] on /\ audio # "none" -> audio
            /\ file' = app'.config
         \/ /\ app.mode = "receiver" /\ on /\ audio = "none"
            /\ file' \in {config, Toggled.config, None} /\ UNCHANGED <<app, audio>>
      /\ ui' = At("reap")
      /\ UNCHANGED <<video, displays>>

(* toggle_audio when the first save fails.                                 *)
AudioItemNotSaved ==
  /\ ui.at = "event"
  /\ file' \in Lost(config)
  /\ ui' = At("reap")
  /\ UNCHANGED <<app, video, audio, displays>>

(* The loop wakes up for a timer, or for an event that changes nothing here. *)
NoEvent ==
  /\ ui.at = "event"
  /\ ui' = At("reap")
  /\ UNCHANGED <<app, video, audio, file, displays>>

-----------------------------------------------------------------------------
(* What the event loop does after every event. *)

(* Mutant: a receiver without a pipeline has nothing that could have ended. *)
ReapDueWithPipeline ==
  app.mode = "receiver" /\ ~app.waiting /\ video.state \in {"ok", "failed"}
ReapDue == app.mode = "receiver" /\ ~app.waiting /\ video.state # "running"

(* reap_finished_audio_pipeline, after reap_finished_pipeline has left the *)
(* application as a: an audio pipeline that ended by itself switches the   *)
(* setting off.                                                            *)
ReapAudio(a) ==
  /\ ui.at = "reap" /\ ui' = At("event")
  /\ IF audio \in {"ok", "failed"}
     THEN /\ audio' = "none"
          /\ app' = [a EXCEPT !.config.recvAudio = FALSE]
          /\ Save(app'.config)
     ELSE app' = a /\ UNCHANGED <<audio, file>>
  /\ UNCHANGED displays

NothingToReap == ~ReapDue /\ ReapAudio(app) /\ UNCHANGED video

(* restart_receiver_pipeline takes the pipeline that ended and puts off    *)
(* the next restart, whether or not a new plan builds.                     *)
RestartReceiver ==
  /\ ReapDue
  /\ \E n \in 1..MaxRoutes : video' = Thread(n, config.recvChoice)
  /\ ReapAudio([app EXCEPT !.waiting = TRUE, !.busy = TRUE, !.unapplied = FALSE])

RestartNotBuilt ==
  /\ ReapDue
  /\ video' = Gone
  /\ ReapAudio([app EXCEPT !.waiting = TRUE])

(* receiver_restart_not_before passes. *)
RetryDue ==
  /\ app.waiting
  /\ app' = [app EXCEPT !.waiting = FALSE]
  /\ UNCHANGED <<video, audio, ui, file, displays>>

-----------------------------------------------------------------------------
(* The pipeline threads: run_receiver_pipeline_plan_until_stop around       *)
(* run_pipeline_until_stop_with_pacer.                                      *)

(* End of stream, or no packet for the receiver's timeout. *)
RouteEnds ==
  /\ video.state = "running"
  /\ video' = Ended("ok", video.choice)
  /\ UNCHANGED <<app, audio, ui, file, displays>>

(* The next route, unless a stop is waiting; the last error ends the plan. *)
NextRoute(v) ==
  IF v.route < v.routes
  THEN IF v.stop THEN Ended("ok", v.choice) ELSE [v EXCEPT !.route = @ + 1]
  ELSE Ended("failed", v.choice)

RouteFails ==
  /\ video.state = "running"
  /\ video' = NextRoute(video)
  /\ UNCHANGED <<app, audio, ui, file, displays>>

(* The route's loop takes the stop message and its pipeline goes to Null. *)
RouteStops ==
  /\ video.state = "running" /\ video.stop
  /\ video' = Ended("ok", video.choice)
  /\ UNCHANGED <<app, audio, ui, file, displays>>

(* It takes the message and the pipeline refuses the Null state: an error, *)
(* so the next route plays, and no message is left that would end it.      *)
RouteRefusesNull ==
  /\ video.state = "running" /\ video.stop
  /\ video' = NextRoute([video EXCEPT !.stop = FALSE, !.refused = TRUE])
  /\ UNCHANGED <<app, audio, ui, file, displays>>

AudioEnds ==
  /\ audio = "running"
  /\ audio' \in {"ok", "failed"}
  /\ UNCHANGED <<app, video, ui, file, displays>>

(* The supervisor installs its displays when a receiver shows up and       *)
(* removes them when none is left (SenderSupervisor.tla).                  *)
SupervisorPrepares ==
  /\ app.parts.supervisor # None /\ WithDisplays(app.parts.supervisor)
  /\ displays' \in {"none", "borrowed"} \ {displays}
  /\ UNCHANGED <<app, video, audio, ui, file>>

-----------------------------------------------------------------------------
(* TrayApp::new: nothing runs yet. config.toml, just loaded or created, has *)
(* the program's defaults but for what start-up depends on.                 *)
Init ==
  /\ \E m \in Modes, p \in Pins, s \in Choices :
       file = [startup |-> m, pin |-> p, sendAudio |-> TRUE, recvAudio |-> TRUE,
               sendChoice |-> s, recvChoice |-> s]
  /\ app = [config |-> file, mode |-> "idle", parts |-> NoParts,
            diagnostics |-> None, waiting |-> FALSE, busy |-> FALSE,
            unapplied |-> FALSE]
  /\ video = Gone
  /\ audio = "none"
  /\ ui = At("start")
  /\ displays = "none"

User == StartItem \/ StopItem \/ QuitItem \/ ReloadItem \/ SelectItem
        \/ AutostartItem \/ AudioItem \/ AudioItemNotSaved \/ HandEdit

MainLoop == \/ InitializeTray \/ NoEvent \/ NothingToReap \/ RestartReceiver
            \/ RestartNotBuilt \/ AbandonStart \/ FinishStartSender
            \/ FinishStartReceiver \/ FinishReloadConfig \/ FinishStop \/ FinishQuit

TakesStop == RouteStops \/ RouteRefusesNull

Next == User \/ MainLoop \/ RetryDue \/ RouteEnds \/ RouteFails \/ TakesStop
        \/ AudioEnds \/ SupervisorPrepares

(* The event loop runs on (every handler returns, the loop wakes up within *)
(* its poll interval), a pipeline polls its channel every 100 ms, and a     *)
(* plan that is tried again and again builds sometimes.                    *)
Fairness == /\ WF_vars(MainLoop) /\ WF_vars(RetryDue) /\ WF_vars(TakesStop)
            /\ SF_vars(RestartReceiver)

Spec == Init /\ [][Next]_vars /\ Fairness

-----------------------------------------------------------------------------
(* Between two handlers there is exactly what the session's mode calls     *)
(* for: an idle application has no thread, server, announcer or pending    *)
(* restart left, a sender has its supervisor and nothing of a receiver, a    *)
(* receiver nothing of a sender, and the updater counts only a receiver as *)
(* busy here. Every early return of start_sender, start_receiver and       *)
(* reload_config leaves this to stop_current.                              *)
IdleHasNothing ==
  Free /\ app.mode = "idle" => /\ app.parts = NoParts /\ ~app.waiting
                               /\ video = Gone /\ audio = "none"
SenderHasItsParts ==
  Free /\ app.mode = "sender" =>
    /\ app.parts.supervisor # None
    /\ ~app.parts.screen /\ app.parts.feedback = None
    /\ video = Gone /\ audio = "none" /\ ~app.waiting
ReceiverHasItsParts ==
  Free /\ app.mode = "receiver" =>
    /\ app.parts.screen
    /\ app.parts.supervisor = None /\ app.parts.control = None
PartsMatchMode ==
  /\ IdleHasNothing /\ SenderHasItsParts /\ ReceiverHasItsParts
  /\ Free => /\ app.parts.announcer # None => app.parts.announcer.role = app.mode
             /\ (app.busy <=> app.mode = "receiver")

(* What a setting of one side may be in the session: a pick that could not *)
(* be saved to a file that loads is not used (finding 14).                 *)
InUse(choice) == IF app.unapplied THEN Choices ELSE {choice}

(* Between two handlers whatever runs was started with the configuration   *)
(* the application holds, though that is loaded again, edited by the menu, *)
(* reverted and saved, or not, on the way: the supervisor's arguments, the *)
(* plan's, the audio pipelines and the pin of every server. Only a pick    *)
(* that could not be saved to a file that loads waits for the next start.  *)
SessionMatchesConfig ==
  Free =>
    /\ app.parts.supervisor # None =>
         \E v \in InUse(config.sendChoice) :
           app.parts.supervisor = SnapshotOf([config EXCEPT !.sendChoice = v])
    /\ app.parts.control \in {None, config.pin}
    /\ app.parts.feedback \in {None, config.pin}
    /\ app.parts.announcer # None => app.parts.announcer.pin = config.pin
    /\ app.diagnostics \in {None, config.pin}
    /\ video # Gone => video.choice \in InUse(config.recvChoice)
    /\ app.mode = "receiver" => (config.recvAudio <=> audio # "none")

(* A session that ends gives back the displays its supervisor brought up,  *)
(* unless the user refuses the elevation or the configuration that was     *)
(* loaded for the end has them switched off (end_session,                  *)
(* release_sender_virtual_displays). Displays stay behind undecided by one *)
(* path alone: a reload that stopped the sender and could not load the     *)
(* file again to start it (finding 15).                                    *)
Forgotten == app.mode # "sender" /\ displays = "borrowed"
ReloadFails == ui.at = "stopping" /\ ui.handler = "reload_config" /\ ~Loads
DisplaysAreGivenBack ==
  [][Forgotten' => Forgotten \/ ReloadFails]_vars

(* A receiver whose pipeline ended, failed or could not be built gets a    *)
(* new one, whatever fails before, unless its session is ended             *)
(* (reap_finished_pipeline, restart_receiver_pipeline).                    *)
ReceiverComesBack ==
  app.mode = "receiver" /\ video.state # "running"
    ~> app.mode # "receiver" \/ video.state = "running"

(* A handler that stops the session returns, unless a pipeline refused to  *)
(* stop (PipelineHandle::stop).                                            *)
StopReturns ==
  ui.at = "stopping" ~> ui.at # "stopping" \/ (video.state = "running" /\ video.refused)

(* "Applies a GPU pick from the tray menu, then restarts the running       *)
(* session on that side so the new GPU is actually used" (select_gpu).     *)
SelectionRestarts ==
  [][/\ ui.at = "stopping" /\ ui.handler = "start_receiver" /\ app.mode = "receiver"
     /\ video.state = "failed" /\ ~ui.err /\ ui'.at # "stopping"
     => app'.mode = "receiver"]_vars
=============================================================================
