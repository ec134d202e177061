------------------------- MODULE SenderSupervisor -------------------------
(***************************************************************************)
(* SenderSupervisor of apps/desktop/src/lan.rs: the thread that discovers  *)
(* receivers, prepares one virtual display for each, runs their video      *)
(* pipelines and the shared audio pipeline, and gives the displays back    *)
(* once nobody watches, together with the other threads it races with: the *)
(* tray (commands, status label), the GStreamer pipelines (which may die), *)
(* Windows (which may change the displays) and the updater (which reads    *)
(* STREAM_ACTIVE).                                                         *)
(***************************************************************************)
EXTENDS Naturals, FiniteSets, Sequences

CONSTANTS
  Receivers,             \* receiver endpoints, numbered in instance_id order
  Caps,                  \* what a receiver may announce (display mode, profile)
  AutoHost,              \* is_auto_host(args.host)
  Pinned,                \* the receivers args.host names when it is not "auto"
  PinnedCaps,            \* the capabilities asserted for a pinned receiver
  MaxReceivers,          \* args.max_receivers
  MaxBundled,            \* MAX_BUNDLED_VIRTUAL_DISPLAYS
  EnableVirtualDisplay,  \* args.enable_virtual_display
  Grace,                 \* RECEIVER_LOSS_GRACE, in discovery passes
  AlertAfter,            \* PREPARE_FAILURES_BEFORE_ALERT
  MaxFailures,           \* bound: failed_starts stays at this value once there
  MaxCommands            \* bound: audio toggles waiting in the command channel

ASSUME ReceiversAssumption == Receivers \subseteq Nat /\ IsFiniteSet(Receivers)
ASSUME CapsAssumption == PinnedCaps \in Caps
ASSUME ConfigAssumption == /\ AutoHost \in BOOLEAN
                           /\ EnableVirtualDisplay \in BOOLEAN
                           /\ Pinned \subseteq Receivers
                           /\ MaxReceivers \in Nat
ASSUME NumberAssumption == /\ MaxBundled \in Nat \ {0}
                           /\ Grace \in Nat \ {0}
                           /\ AlertAfter \in Nat \ {0}
                           /\ MaxFailures \in Nat /\ MaxFailures > AlertAfter
                           /\ MaxCommands \in Nat

VARIABLES
  \* Locals of the supervisor thread.
  pc,            \* where the 'supervisor loop is
  audioEnabled,  \* args.audio_enabled, the thread's own copy
  failedStarts,  \* failed_starts
  active,        \* active_hosts and active_receiver_key: the running route
  video,         \* active_video_pipelines: the receivers they stream to
  audio,         \* active_audio_pipeline: the receivers it sends to, {}: None
  detached,      \* detached_for_no_receivers
  age,           \* time since last_receiver_seen, Grace: too long ago or None
  prepared,      \* preparation.receiver_key
  found,         \* resolved, while its streams are being started
  \* Shared with the other threads.
  commands,      \* the command channel
  streamActive,  \* updater::STREAM_ACTIVE
  alert,         \* the status channel holds "Error: sender cannot start"
  \* The tray.
  wanted,        \* config.send.audio_enabled as the tray last saved it
  stopSent,      \* SenderSupervisor::stop was called; the tray is joining
  label,         \* the tray's status line
  told,          \* history: the tray showed the alert of this failure streak
  \* The environment.
  deadVideo, deadAudio,  \* pipelines that ended and were not reaped yet
  displays,      \* capture-ready bundled virtual displays
  disturbed,     \* the displays changed under the running route
  settled, lan   \* from now on every pass sees exactly the route lan

loopVars  == <<failedStarts, active, video, deadVideo, detached, age, prepared, found>>
audioVars == <<audio, deadAudio, audioEnabled>>
trayVars  == <<wanted, stopSent, label, told>>
worldVars == <<displays, disturbed, settled, lan>>
vars == <<pc, loopVars, audioVars, commands, streamActive, alert, trayVars, worldVars>>

-----------------------------------------------------------------------------
(* Routes.  receiver_set_key is injective on the ordered receivers and what *)
(* they announce, so a route is the function itself.                        *)

Routes == UNION {[S -> Caps] : S \in SUBSET Receivers}
NoRoute == [r \in {} |-> PinnedCaps]

(* Mutant: the display limit is forgotten.                                  *)
ReceiverLimitIgnoresDisplays == MaxReceivers
ReceiverLimit == IF EnableVirtualDisplay /\ MaxBundled < MaxReceivers
                 THEN MaxBundled ELSE MaxReceivers

FirstN(S, n) == {r \in S : Cardinality({q \in S : q < r}) < n}

(* discover_sender_args once discovery returned the receivers of seen,      *)
(* sorted and cut to the limit.                                             *)
Selected(seen) == [r \in FirstN(DOMAIN seen, ReceiverLimit) |-> seen[r]]

(* What one pass may resolve to: a pinned host list always resolves, auto   *)
(* discovery to whoever answered within its five seconds.                   *)
Resolvable ==
  IF ~AutoHost THEN {[r \in Pinned |-> PinnedCaps]}
  ELSE {Selected(seen) : seen \in IF settled THEN {lan} \ {NoRoute} ELSE Routes \ {NoRoute}}

MayMiss == AutoHost /\ (settled => lan = NoRoute)

-----------------------------------------------------------------------------
(* Helpers of the loop.                                                     *)

(* apply_sender_audio_state(enabled, hosts), on the audio pipeline.  The    *)
(* build fails at will until the world has settled.                         *)
ApplyAudioState(enabled, hosts) ==
  \/ /\ ~enabled
     /\ audio' = {} /\ deadAudio' = FALSE
  \/ /\ enabled /\ (hosts = {} \/ audio # {})
     /\ UNCHANGED <<audio, deadAudio>>
  \/ /\ enabled /\ hosts # {} /\ audio = {}
     /\ audio' = hosts /\ deadAudio' = FALSE
  \/ /\ enabled /\ hosts # {} /\ audio = {} /\ ~settled
     /\ UNCHANGED <<audio, deadAudio>>

(* Mutant: the audio pipeline is left running.                              *)
StopStreamsNotAudio == /\ UNCHANGED <<audio, deadAudio>>
                       /\ video' = {} /\ deadVideo' = {}
                       /\ active' = NoRoute

(* Stopping both kinds of pipeline and forgetting the route, the way the    *)
(* reap, the key change and the receiver loss do.                           *)
StopStreams == /\ audio' = {} /\ deadAudio' = FALSE
               /\ video' = {} /\ deadVideo' = {}
               /\ active' = NoRoute

(* Mutant: the flag is stored and the running pipeline left as it is.       *)
ApplyCommandLater(resume) ==
  /\ commands # <<>>
  /\ commands' = Tail(commands)
  /\ IF Head(commands) = "stop"
     THEN /\ pc' = "exit"
          /\ UNCHANGED audioVars
     ELSE /\ pc' = resume
          /\ audioEnabled' = (Head(commands) = "audioOn")
          /\ UNCHANGED <<audio, deadAudio>>
  /\ UNCHANGED <<loopVars, streamActive, alert, trayVars, worldVars>>

(* Mutant: Stop is read as one more audio command.                          *)
ApplyCommandIgnoresStop(resume) ==
  /\ commands # <<>>
  /\ commands' = Tail(commands)
  /\ pc' = resume
  /\ audioEnabled' = (Head(commands) = "audioOn")
  /\ ApplyAudioState(Head(commands) = "audioOn", DOMAIN active)
  /\ UNCHANGED <<loopVars, streamActive, alert, trayVars, worldVars>>

(* apply_sender_supervisor_command on the head of the channel.              *)
ApplyCommand(resume) ==
  /\ commands # <<>>
  /\ commands' = Tail(commands)
  /\ IF Head(commands) = "stop"
     THEN /\ pc' = "exit"
          /\ UNCHANGED audioVars
     ELSE /\ pc' = resume
          /\ audioEnabled' = (Head(commands) = "audioOn")
          /\ ApplyAudioState(Head(commands) = "audioOn", DOMAIN active)
  /\ UNCHANGED <<loopVars, streamActive, alert, trayVars, worldVars>>

-----------------------------------------------------------------------------
(* The supervisor loop.  A pass goes drain, reapVideo, reapAudio, discover, *)
(* then prepare and assign for a new route, then publish and wait.  The     *)
(* cuts are the points where the thread blocks, and those where another     *)
(* thread can see or change something in between.                           *)

(* while let Ok(message) = command_rx.try_recv()                            *)
Drain == /\ pc = "drain"
         /\ ApplyCommand("drain")

DrainDone == /\ pc = "drain"
             /\ commands = <<>>
             /\ pc' = "reapVideo"
             /\ UNCHANGED <<loopVars, audioVars, commands, streamActive, alert, trayVars, worldVars>>

(* Mutant: the dead route is dropped but stays marked as prepared.          *)
ReapVideoKeepsPreparation ==
  /\ pc = "reapVideo"
  /\ pc' = "reapAudio"
  /\ IF deadVideo # {}
     THEN StopStreams /\ UNCHANGED prepared
     ELSE UNCHANGED <<active, video, deadVideo, audio, deadAudio, prepared>>
  /\ UNCHANGED <<failedStarts, detached, age, found, audioEnabled, commands,
                 streamActive, alert, trayVars, worldVars>>

(* One finished video pipeline takes the whole set and the audio down.      *)
ReapVideo ==
  /\ pc = "reapVideo"
  /\ pc' = "reapAudio"
  /\ IF deadVideo # {}
     THEN StopStreams /\ prepared' = NoRoute
     ELSE UNCHANGED <<active, video, deadVideo, audio, deadAudio, prepared>>
  /\ UNCHANGED <<failedStarts, detached, age, found, audioEnabled, commands,
                 streamActive, alert, trayVars, worldVars>>

ReapAudio ==
  /\ pc = "reapAudio"
  /\ pc' = "discover"
  /\ IF deadAudio THEN audio' = {} /\ deadAudio' = FALSE
                  ELSE UNCHANGED <<audio, deadAudio>>
  /\ UNCHANGED <<loopVars, audioEnabled, commands, streamActive, alert, trayVars, worldVars>>

(* Discovery answered with another set than the running one: everything is  *)
(* torn down before the new set is prepared.                                *)
RouteChanged ==
  /\ pc = "discover"
  /\ \E route \in Resolvable : /\ route # active
                               /\ found' = route
  /\ age' = 0
  /\ StopStreams
  /\ pc' = "prepare"
  /\ UNCHANGED <<failedStarts, detached, prepared, audioEnabled, commands,
                 streamActive, alert, trayVars, worldVars>>

(* Discovery answered with the running set: only the audio is looked after. *)
RouteUnchanged ==
  /\ pc = "discover"
  /\ active \in Resolvable
  /\ age' = 0
  /\ detached' = FALSE
  /\ ApplyAudioState(audioEnabled, DOMAIN active)
  /\ pc' = "publish"
  /\ UNCHANGED <<failedStarts, active, video, deadVideo, prepared, found, audioEnabled,
                 commands, streamActive, alert, trayVars, worldVars>>

(* last_receiver_seen.elapsed() after one more pass.                        *)
Later == {n \in 1..Grace : n > age \/ n = Grace}

(* Discovery missed, within the grace period: one second of sleep, then the *)
(* next pass, without publishing and without the five-second wait.          *)
KeepDuringGrace ==
  /\ pc = "discover"
  /\ MayMiss
  /\ ~detached
  /\ age' \in Later \ {Grace}
  /\ pc' = "drain"
  /\ UNCHANGED <<failedStarts, active, video, deadVideo, detached, prepared, found,
                 audioVars, commands, streamActive, alert, trayVars, worldVars>>

(* remove_bundled_virtual_display: a failure is only logged.                *)
RemoveDisplays == displays' \in IF settled THEN {0} ELSE {0, displays}

(* Discovery missed and the grace period is over (or the displays are       *)
(* already given back): everything stops, the displays are removed once.    *)
LoseReceivers ==
  /\ pc = "discover"
  /\ MayMiss
  /\ StopStreams
  /\ \E now \in Later :
       /\ detached \/ now = Grace
       /\ IF EnableVirtualDisplay /\ ~detached
          THEN /\ RemoveDisplays
               /\ detached' = TRUE
               /\ age' = Grace
               /\ prepared' = NoRoute
          ELSE /\ age' = now
               /\ UNCHANGED <<displays, detached, prepared>>
  /\ pc' = "publish"
  /\ UNCHANGED <<failedStarts, found, audioEnabled, commands, streamActive, alert,
                 trayVars, disturbed, settled, lan>>

(* Mutant: the alert compares the count before the increment.               *)
StartFailsSilently ==
  /\ prepared' = NoRoute /\ found' = NoRoute
  /\ failedStarts' = IF failedStarts < MaxFailures THEN failedStarts + 1 ELSE MaxFailures
  /\ alert' = (alert \/ failedStarts = AlertAfter)
  /\ pc' = "publish"

(* The error arm: the preparation is forgotten, and exactly the AlertAfter- *)
(* th failure in a row is reported to the tray.                             *)
StartFails ==
  /\ prepared' = NoRoute /\ found' = NoRoute
  /\ failedStarts' = IF failedStarts < MaxFailures THEN failedStarts + 1 ELSE MaxFailures
  /\ alert' = (alert \/ failedStarts + 1 = AlertAfter)
  /\ pc' = "publish"

(* prepare_sender_environment, unless this very route is already prepared.  *)
(* It succeeds once some bundled display is capture-ready, whatever their   *)
(* number, and fails only while none is.                                    *)
Prepare ==
  /\ pc = "prepare"
  /\ IF ~EnableVirtualDisplay \/ prepared = found \/ displays > 0
     THEN UNCHANGED displays
     ELSE displays' \in 1..MaxBundled
  /\ prepared' = found
  /\ pc' = "assign"
  /\ UNCHANGED <<failedStarts, active, video, deadVideo, detached, age, found, audioVars,
                 commands, streamActive, alert, trayVars, disturbed, settled, lan>>

PrepareFails ==
  /\ pc = "prepare"
  /\ EnableVirtualDisplay /\ prepared # found /\ displays = 0 /\ ~settled
  /\ StartFails
  /\ UNCHANGED <<active, video, deadVideo, detached, age, audioVars,
                 commands, streamActive, trayVars, worldVars>>

(* ensure_bundled_virtual_display_count: the count is already right, or the *)
(* driver is asked for it and may end up with any number of displays.       *)
AssignDisplays ==
  LET count == IF Cardinality(DOMAIN found) < MaxBundled
               THEN Cardinality(DOMAIN found) ELSE MaxBundled
  IN IF ~EnableVirtualDisplay \/ displays = count THEN UNCHANGED displays
     ELSE displays' \in IF settled THEN {count} ELSE 0..MaxBundled

(* Mutant: spare displays are good enough.                                  *)
EnoughDisplays == EnableVirtualDisplay => displays' >= Cardinality(DOMAIN found)

(* ensure_virtual_target_count                                              *)
OneDisplayEach == EnableVirtualDisplay => displays' = Cardinality(DOMAIN found)

(* Mutant: the session does not take the displays back into its own hands.  *)
CommitStaysDetached ==
  /\ pc = "assign"
  /\ DOMAIN found # {}
  /\ AssignDisplays /\ OneDisplayEach
  /\ failedStarts' = 0
  /\ active' = found /\ found' = NoRoute
  /\ video' = DOMAIN found /\ deadVideo' = {}
  /\ ApplyAudioState(audioEnabled, DOMAIN found)
  /\ UNCHANGED detached
  /\ disturbed' = FALSE
  /\ told' = FALSE
  /\ pc' = "publish"
  /\ UNCHANGED <<age, prepared, audioEnabled, commands, streamActive, alert,
                 wanted, stopSent, label, settled, lan>>

(* spawn_receiver_video_pipelines succeeded: the only place a stream starts.*)
Commit ==
  /\ pc = "assign"
  /\ DOMAIN found # {}
  /\ AssignDisplays /\ OneDisplayEach
  /\ failedStarts' = 0
  /\ active' = found /\ found' = NoRoute
  /\ video' = DOMAIN found /\ deadVideo' = {}
  /\ ApplyAudioState(audioEnabled, DOMAIN found)
  /\ detached' = FALSE
  /\ disturbed' = FALSE
  /\ told' = FALSE
  /\ pc' = "publish"
  /\ UNCHANGED <<age, prepared, audioEnabled, commands, streamActive, alert,
                 wanted, stopSent, label, settled, lan>>

(* The displays are not exactly one each, or a pipeline could not be built  *)
(* or did not pass the preflight.  Displays brought up so far stay.         *)
AssignFails ==
  /\ pc = "assign"
  /\ AssignDisplays
  /\ settled => DOMAIN found = {} \/ ~OneDisplayEach
  /\ StartFails
  /\ UNCHANGED <<active, video, deadVideo, detached, age, audioVars, commands,
                 streamActive, trayVars, disturbed, settled, lan>>

(* Mutant: a set with one dead pipeline is reported as idle.                *)
PublishHealthyOnly ==
  /\ pc = "publish"
  /\ streamActive' = (video # {} /\ deadVideo = {})
  /\ pc' = "wait"
  /\ UNCHANGED <<loopVars, audioVars, commands, alert, trayVars, worldVars>>

(* updater::set_stream_active                                               *)
Publish ==
  /\ pc = "publish"
  /\ streamActive' = (video # {})
  /\ pc' = "wait"
  /\ UNCHANGED <<loopVars, audioVars, commands, alert, trayVars, worldVars>>

(* The wait between two passes also serves commands; it lasts fifty         *)
(* receives, whatever arrived.                                              *)
WaitCommand == /\ pc = "wait"
               /\ ApplyCommand("wait")

WaitOver == /\ pc = "wait"
            /\ pc' = "drain"
            /\ UNCHANGED <<loopVars, audioVars, commands, streamActive, alert, trayVars, worldVars>>

(* Mutant: the thread ends without stopping its pipelines.                  *)
FinishLeavesStreams ==
  /\ pc = "stopping"
  /\ UNCHANGED <<active, video, deadVideo, audio, deadAudio>>
  /\ pc' = "done"
  /\ UNCHANGED <<failedStarts, detached, age, prepared, found, audioEnabled, commands,
                 streamActive, alert, trayVars, worldVars>>

(* After the loop: the stream is reported over before it is stopped.        *)
ReportStopped ==
  /\ pc = "exit"
  /\ streamActive' = FALSE
  /\ pc' = "stopping"
  /\ UNCHANGED <<loopVars, audioVars, commands, alert, trayVars, worldVars>>

Finish ==
  /\ pc = "stopping"
  /\ StopStreams
  /\ pc' = "done"
  /\ UNCHANGED <<failedStarts, detached, age, prepared, found, audioEnabled, commands,
                 streamActive, alert, trayVars, worldVars>>

Supervisor == \/ Drain \/ DrainDone \/ ReapVideo \/ ReapAudio
              \/ RouteChanged \/ RouteUnchanged \/ KeepDuringGrace \/ LoseReceivers
              \/ Prepare \/ PrepareFails \/ Commit \/ AssignFails
              \/ Publish \/ WaitCommand \/ WaitOver \/ ReportStopped \/ Finish

-----------------------------------------------------------------------------
(* The tray thread (apps/desktop/src/tray_app.rs).                          *)

(* toggle_audio while a sender session runs: save, tell the supervisor, and *)
(* let sync_menu rewrite the status line.  It switches audio off only when  *)
(* both directions are on, so a sender that is on may be told so again.     *)
ToggleAudio ==
  /\ ~stopSent /\ ~settled
  /\ Len(commands) < MaxCommands
  /\ wanted' \in IF wanted THEN BOOLEAN ELSE {TRUE}
  /\ commands' = Append(commands, IF wanted' THEN "audioOn" ELSE "audioOff")
  /\ label' = "sending"
  /\ UNCHANGED <<pc, loopVars, audioVars, streamActive, alert, stopSent, told, worldVars>>

(* The config could not be saved: set_error, and nothing else changes.      *)
ToggleNotSaved ==
  /\ ~stopSent /\ ~settled
  /\ label' = "notSaved"
  /\ UNCHANGED <<pc, loopVars, audioVars, commands, streamActive, alert, wanted,
                 stopSent, told, worldVars>>

(* SenderSupervisor::stop; the tray then waits for the thread.              *)
SendStop ==
  /\ ~stopSent
  /\ stopSent' = TRUE
  /\ commands' = Append(commands, "stop")
  /\ UNCHANGED <<pc, loopVars, audioVars, streamActive, alert, wanted, label, told, worldVars>>

(* poll_status_messages                                                     *)
PollStatus ==
  /\ alert /\ ~stopSent
  /\ alert' = FALSE
  /\ label' = "alert"
  /\ told' = (failedStarts >= AlertAfter)
  /\ UNCHANGED <<pc, loopVars, audioVars, commands, streamActive, wanted, stopSent, worldVars>>

Tray == ToggleAudio \/ ToggleNotSaved \/ SendStop \/ PollStatus

-----------------------------------------------------------------------------
(* The environment.                                                         *)

VideoDies ==
  /\ ~settled
  /\ \E r \in video \ deadVideo : deadVideo' = deadVideo \union {r}
  /\ UNCHANGED <<pc, failedStarts, active, video, detached, age, prepared, found, audioVars,
                 commands, streamActive, alert, trayVars, worldVars>>

AudioDies ==
  /\ ~settled
  /\ audio # {} /\ ~deadAudio
  /\ deadAudio' = TRUE
  /\ UNCHANGED <<pc, loopVars, audio, audioEnabled, commands, streamActive, alert, trayVars,
                 worldVars>>

(* Windows, the user or the tray's driver menu changes the displays.        *)
DisplaysChange ==
  /\ EnableVirtualDisplay /\ ~settled
  /\ displays' \in (0..MaxBundled) \ {displays}
  /\ disturbed' = TRUE
  /\ UNCHANGED <<pc, loopVars, audioVars, commands, streamActive, alert, trayVars, settled, lan>>

(* The world calms down: from now on discovery sees one and the same set of *)
(* receivers, what the supervisor asks of Windows and GStreamer works, no   *)
(* pipeline dies and nobody touches the audio setting.                      *)
Settle ==
  /\ ~settled
  /\ settled' = TRUE
  /\ lan' \in Routes
  /\ UNCHANGED <<pc, loopVars, audioVars, commands, streamActive, alert, trayVars,
                 displays, disturbed>>

World == VideoDies \/ AudioDies \/ DisplaysChange \/ Settle

-----------------------------------------------------------------------------
Init ==
  /\ pc = "drain"
  /\ audioEnabled \in BOOLEAN
  /\ failedStarts = 0
  /\ active = NoRoute
  /\ video = {} /\ deadVideo = {}
  /\ audio = {} /\ deadAudio = FALSE
  /\ detached = FALSE
  /\ age = Grace
  /\ prepared = NoRoute
  /\ found = NoRoute
  /\ commands = <<>>
  /\ streamActive = FALSE
  /\ alert = FALSE
  /\ wanted = audioEnabled
  /\ stopSent = FALSE
  /\ label = "sending"
  /\ told = FALSE
  /\ displays \in 0..MaxBundled
  /\ disturbed = FALSE
  /\ settled = FALSE
  /\ lan = NoRoute

(* The tray joined the thread.                                              *)
Stopped == pc = "done" /\ UNCHANGED vars

Next == Supervisor \/ Tray \/ World \/ Stopped

Spec == Init /\ [][Next]_vars

(* The operating system schedules the supervisor thread, and the tray's     *)
(* event loop polls the status channel on a timer; nothing else is fair.    *)
Fairness == WF_vars(Supervisor) /\ WF_vars(PollStatus)

FairSpec == Spec /\ Fairness

-----------------------------------------------------------------------------
(* Properties.                                                              *)

TypeOK ==
  /\ pc \in {"drain", "reapVideo", "reapAudio", "discover", "prepare", "assign",
             "publish", "wait", "exit", "stopping", "done"}
  /\ audioEnabled \in BOOLEAN
  /\ failedStarts \in 0..MaxFailures
  /\ active \in Routes /\ prepared \in Routes /\ found \in Routes /\ lan \in Routes
  /\ video \subseteq Receivers /\ deadVideo \subseteq video
  /\ audio \subseteq Receivers /\ deadAudio \in BOOLEAN
  /\ detached \in BOOLEAN
  /\ age \in 0..Grace
  /\ commands \in Seq({"audioOn", "audioOff", "stop"})
  /\ streamActive \in BOOLEAN /\ alert \in BOOLEAN
  /\ wanted \in BOOLEAN /\ stopSent \in BOOLEAN /\ told \in BOOLEAN
  /\ label \in {"sending", "alert", "notSaved"}
  /\ displays \in 0..MaxBundled
  /\ disturbed \in BOOLEAN /\ settled \in BOOLEAN

(* Audio is only ever sent to exactly the receivers that have a video       *)
(* pipeline: the reap, the route change and the loss all take it along.     *)
AudioFollowsVideo == audio # {} => audio = video

(* Once the channel is drained, a session whose audio the tray has switched *)
(* off is silent, whatever pipeline started, died or was replaced meanwhile.*)
DisabledAudioIsSilent == commands = <<>> /\ ~wanted => audio = {}

(* "Gives every receiver its own virtual display": unless something outside *)
(* changed the displays, there is exactly one per running stream.           *)
OwnDisplayEach ==
  EnableVirtualDisplay /\ ~disturbed => video = {} \/ displays = Cardinality(video)

(* A route is remembered as prepared only while it runs or is being         *)
(* started: a route that died, failed or was lost is always prepared anew.  *)
PreparationIsNotStale ==
  EnableVirtualDisplay /\ pc \notin {"prepare", "done"} => prepared \in {NoRoute, active, found}

(* The updater never sees an idle sender while a stream runs, except while  *)
(* the first pass is about to publish it and while the stop is under way.   *)
NoUnreportedStream ==
  video # {} /\ pc \notin {"publish", "stopping"} => streamActive

(* A running, healthy stream ends in discovery only for another set of      *)
(* receivers or after the whole grace period without any.                   *)
StreamSurvivesMissedPasses ==
  [][pc = "discover" /\ video # {} /\ video' = {}
       => (pc' = "prepare" /\ found' # active) \/ age' = Grace]_vars

(* The session as the abstract specification sees it.                       *)
Session == INSTANCE SenderSession
             WITH streaming <- video, sounding <- audio, closed <- pc = "done"
ImplementsSession == Session!Spec

(* stop() does not hang: the join in the tray returns.                      *)
StopTerminates == stopSent ~> pc = "done"

(* A streak of failed starts does not hide behind a "sending" label: once   *)
(* it is long enough, the tray shows it, or the streak or session ends.     *)
FailureStreakReachesTray ==
  failedStarts >= AlertAfter ~> told \/ failedStarts = 0 \/ stopSent

(* Receivers that stay on the network get their pictures, and sound if it   *)
(* is wanted, whatever happened before; receivers beyond the limit do not   *)
(* keep the others from being served.                                       *)
Served == /\ video = DOMAIN Selected(lan) /\ deadVideo = {}
          /\ wanted <=> audio # {}
ReceiversAreServed ==
  settled /\ AutoHost /\ lan # NoRoute /\ ReceiverLimit > 0 ~> [](Served \/ stopSent)

(* When the receivers of a running session leave for good, the streams end  *)
(* and the virtual displays are removed.                                    *)
DisplaysAreReturned ==
  settled /\ AutoHost /\ EnableVirtualDisplay /\ lan = NoRoute /\ video # {}
    ~> (video = {} /\ displays = 0) \/ stopSent
=============================================================================
