# Screen Mirror: TLA+ models and proofs

Screen Mirror sends a Windows or Android screen to other Windows or Android
devices. This directory models the parts of it whose correctness depends on
the order of events: TLA+ modules translated from the source, TLC
configurations that check them, and TLAPS proofs.

Line numbers refer to the repository this directory belongs to; `src/` stands
for its root.

## 1. The system

| Component | State it keeps | Operations | Interacts with |
|---|---|---|---|
| Sender supervisor `apps/desktop/src/lan.rs` | running route, pipelines, preparation, grace timer, failure count | discovery pass, command, stop | tray (channel, status), VDD (calls), pipelines, updater (flag) |
| Virtual display driver `vdd.rs`, `monitors.rs` | settings file, device nodes, endpoints | install, set count, enable, disable, remove, wait | supervisor, tray menu, Windows, UAC children |
| Route selection `pipeline.rs`, `gpu.rs`, `lan.rs` | none: a decision per start | plan a receiver, negotiate with a set of receivers, build a sender pipeline | discovery, displays, GStreamer registry |
| Desktop pipelines `pipeline.rs` | GStreamer pipeline, the plan's current route, stop channel | run until stop or error, next route | tray, supervisor, feedback |
| Rate control `pipeline.rs`, `control.rs` | bitrate, stable windows, feedback per receiver, key frame schedule, pacer tokens | once per loop or packet | receivers (feedback), encoder |
| Tray `tray_app.rs` | mode, configuration, session parts, restart time | menu handlers, reap, restart, reload | everything on the desktop, `config.toml` |
| Updater `updater.rs` | session and stream flags, runner script | periodic and manual check, installation | tray, supervisor, msiexec |
| Single instance `single_instance.rs` | lock file, mutex | acquire, release | other processes |
| Discovery `crates/sm-core`, `lan.rs` | sockets, the peers heard in a pass | announce, probe, collect, order | network |
| Android video receiver `RtpH264Receiver.java` | stream lock, fragments, NAL queue, codec | receive thread, decode thread, start, stop | activity (callbacks), network, MediaCodec |
| Android activity `MainActivity.java` | `receiverRequested`, surface | buttons, surface callbacks, posted callbacks | receivers, discovery, service |
| Android audio receiver, sender, service, touch | codec, packetizer, projection, event queue | own threads | activity, network |

What is hard: the supervisor makes one decision from a discovery pass that
takes seconds, during which pipelines die, the user clicks and Windows
rearranges displays; driver actions are sequences of system calls in other
processes, any of which may fail; the tray joins pipeline threads that fail,
fall back and end by themselves, and reloads the configuration they were started
with; processes start, update and replace each other with a file, a mutex and a
script between them; the Android receiver is torn down and restarted by the UI
thread while two workers and their late callbacks run.

What makes each part correct, in one line each:

* supervisor: streams, sound, displays, preparation and the busy flag describe
  the same set of receivers at all times, and the sender always gets back to
  serving whoever is there;
* driver: what the devices run is what the settings file says, or it is known
  that it is not, and there is one device;
* Android receiver: the codec gets a key picture and then an unbroken sequence
  of one stream; nothing of a session survives it; it is always possible to
  stop, and the stream always comes back;
* rate control: the rate stays between floor and ceiling and rises only when
  every receiver is healthy, if at least 1000 kbit/s are configured (finding 13);
  pacing costs no more time than the paced rate demands;
* routes: a frame never exceeds what its receiver can decode, never crosses GPUs
  in GPU memory, and uses nothing a receiver did not announce;
* tray: a session has exactly the parts of its mode, all started with the
  configuration the application holds unless a pick could not be saved; displays
  are given back; a receiver comes back, a stop returns;
* guard and updater: one of the processes that start becomes the tray, and a tray
  that left for an update is followed by one;
* discovery: a reachable receiver is found again and again, and the list is in
  order, complete and without doubles whatever arrived when;
* touch control (not modelled): every gesture that began also ends.

## 2. Modules

### SenderSession, SenderSupervisor, MCSenderSupervisor

`SenderSupervisor` models the thread of `SenderSupervisor::start`
(`lan.rs` 146-345) and what it calls. `pc` is the place in the loop; a pass is

    drain -> reapVideo -> reapAudio -> discover -> [prepare -> assign ->] publish -> wait -> drain

cut where the thread blocks or where another thread can see or change
something. One action per arm of the code:

| Action | Code |
|---|---|
| `Drain`, `WaitCommand` (`ApplyCommand`) | the two command loops, `apply_sender_supervisor_command` |
| `ReapVideo`, `ReapAudio` | the two `is_finished` checks |
| `RouteChanged`, `Prepare`, `PrepareFails`, `Commit`, `AssignFails` | discovery found another key: tear down, `prepare_sender_environment`, `spawn_receiver_video_pipelines`, success and error arm |
| `RouteUnchanged` | discovery found the running key |
| `KeepDuringGrace`, `LoseReceivers` | discovery missed, within and after `RECEIVER_LOSS_GRACE` |
| `Publish`, `ReportStopped`, `Finish` | `updater::set_stream_active`, end of the thread |

State: `active` is `active_hosts` with `active_receiver_key` (a function from
the receivers to what they announced: the key is injective on that), `video`
and `audio` the pipelines by the receivers they send to, `prepared` is
`SenderPreparationState`, `age` the time since `last_receiver_seen` in passes,
`detached` is `detached_for_no_receivers`. Around the thread: the tray's
`toggle_audio`, `stop` and `poll_status_messages`; pipelines that die; displays
that change; and `Settle`, after which the world is calm, which only the
liveness properties use.

`SenderSession` is the abstract specification: a set of receivers gets a
picture, exactly that set may get sound, a set is replaced only through
silence, and a closed session stays closed. `ImplementsSession` is the
refinement.

### VddDriver

Two callers (the supervisor and the tray menu) request actions; each action is
a little program counter through `vdd.rs` (`write`, `check`, `create`, `state`,
`stop`, `start`, `remove`), and `Breaks` ends it anywhere: UAC declined, the
elevated child killed, a SetupAPI error. `devices` are the nodes with the number
of monitors each runs, `bare` the nodes that were registered but never bound to
the driver, `visible` and `ready` what Windows enumerates. The waits and the
count loop of `monitors.rs` are the steps `endpoint`, `extended`, `attached` and
`poll`. Pruning (`prune_stale_monitors`) removes registry entries of absent
monitors and nothing the model knows of.

### RtpVideoReceiver

Three threads: receive (`recv`, `incoming`), decode (`decode`, `hand`) and UI
(`ui`, `goal`). A packet is what the depacketizer makes of it: parameter sets, a
picture, a key picture, the first or the last fragment of one. Every NAL carries
the stream and session it came from, whether it was mixed from two, and whether
it builds on something that was dropped (`orphan`), none of which the code
knows. The queue overflow, the takeover and `stop()` are cut at their lock and
queue operations, because the other thread runs in between.

Abstractions: loss in the network is not a drop of the receiver and orphans
nothing; whether a fragment's header, timestamp and sequence number fit is free
(so a head and a tail of different streams may fit unless the code separates
them); the NALs of a STAP-A packet arrive as packets of their own; the time
stamps of `ptsTracker` are left out; joins are taken to wait for the worker,
although the code gives up after a second.

### SenderRate, MCSenderRate

The loop of `run_pipeline_until_stop_with_pacer` (`pipeline.rs`) as a program
counter: `top` (`RequestIfDue`), `update` (`Update`, which is
`AdaptiveBitrateController.update` with `next_target`), `pacer`
(`SetPacerRate`), `react` (`React`, the key frame a loss asks for). `store` is
the `FeedbackStore` by address, filled by the control thread (`Report`); it
outlives the streams, which start, each with any of the configured bitrates
(`Ceilings`: the code only asks that they are positive), and end around it
(`StreamStarts`, `StreamEnds`), and it forgets nobody: only the age of a report keeps it out of
`health`. `tunable` says whether the encoder element has a bitrate property.

A tick is `MIN_KEY_UNIT_REQUEST_INTERVAL` (500 ms). Time passes only while the
loop waits on the bus, `MaxLag` ticks at most: that wait is the only place
where it blocks for long. Reports are abstracted to levels (healthy, between
the thresholds, congested) of loss, lateness and jitter, which is all that
`next_target` reads of them. How a receiver computes them
(`ReceiverStreamReport`, `FeedbackSender`) is not modelled: any report may come
at any time.

### PacketPacer

The token bucket of `SenderPacketPacer`. `Packet` is `wait_for_packet` for a
packet or a buffer list: one step, because the probe holds the pacer's lock while
it sleeps. `SetBitrate` is what the controller calls between packets. Tokens are
bytes; a sleep ends at the tick after its end. `ahead` is a history variable, a
leaky bucket without a cap that counts what the network got beyond the paced
rate; `burst` counts what was sent since the link was last at rest.

### TrayApp

The event loop of `tray_app.rs`: `ui` is where the main thread is. Every event
runs one handler and then the work after each event (`reap`: the receiver's
pipeline is reaped and restarted, the audio pipeline follows). A handler is one
action, except that ending a session joins the pipeline thread: there it is cut
into the part before (`StartItem`, `StopItem`, `QuitItem`, `ReloadItem`,
`SelectItem`, which begin the stop) and the part after (`FinishStartSender`,
`FinishStartReceiver`, `FinishReloadConfig`, `FinishStop`, `FinishQuit`, or
`AbandonStart` when the stop reported an error), with `ui.at = "stopping"` in
between.

| State | Code |
|---|---|
| `app.config`, `file` | `TrayApp::config`, `config.toml` (`None`: does not parse) |
| `app.parts` | supervisor, control server, feedback sender, announcer, and the window, statistics and sleep guards, each with the configuration it was started with |
| `video`, `audio` | `pipeline` with its thread (`run_receiver_pipeline_plan_until_stop`: route, stop message), `audio_pipeline` |
| `app.waiting` | `receiver_restart_not_before` |
| `app.busy` | the updater's `SESSION_ACTIVE` |
| `app.unapplied` | history: a pick was restarted for and the session still runs with the old value |
| `displays` | what became of the virtual displays a sender brought up: `borrowed` until they are removed, or the user refuses that or the loaded configuration has them off (`left`) |

Settings are values: `Pins` for what only a hand edit changes, `Choices` for what
the menus change; `Displaying` are the pins that come with virtual displays
switched on. Every write of `config.toml` may fail (`Save`): `save_config` only logs
that, so the handler goes on with the file as it was, or cut off in the middle; for
a handler that then loads the file, that is the configuration it starts with or the
end of the attempt. Only `toggle_audio` looks at the outcome (`AudioItemNotSaved`).
`reload_config` loads twice, once before it stops the session and once to start
it again (`FinishReloadConfig`); the user may edit the file between the two. Every
start may fail part by part (`Senders`, `Receivers`). The
supervisor is only what it does to the displays; its inside is
`SenderSupervisor`.

### AppUpdate

Several processes, each with the steps of `acquire_tray_instance`
(`single_instance.rs`): look at the lock file, remove it, create it, write the
pid, take the mutex. `check` is what each of the two updater threads does,
`runner` the script it leaves behind: it waits for the process, runs msiexec and
starts a tray again. A pid may be reused by a stranger, and any screen-mirror
process may be taken for the tray; `mistaken` remembers that it happened, and
the model follows a host up to there. The content of a release, HTTP and the state
files are the free outcome of a check.

### ReceiverRoute, SenderRoute, StreamNegotiation, MCStreamNegotiation

`ReceiverRoute` and `SenderRoute` are the pure decisions, as operators on a
record that describes a computer: which GPU a selection means, which decoder,
sink and encoder elements are on it, whether frames stay in GPU memory, which
routes are kept in reserve, and the size a stream is scaled to (`FitWithin`,
`VideoSize`). `None` is `Option::None` and every error. A search takes the
first candidate that will do (`First`), which `Found` states as the least index
of a set, so that the same definition can be run and proved about.

`StreamNegotiation` composes them: receivers start, fail over
(`RouteEnds`) and move to another display or GPU (`DeskChanges`), and announce
what their plan decodes; a sender takes the announcements (`Discover`),
gives each receiver a display that shows whatever Windows made of it
(`Assignments`) and builds one pipeline for each (`Spawn`), or one for all from
the command line (`SendDirectly`), or nothing (`SpawnFails`). Peers that are not
this program announce what they like (`StartPeer`). `PluginsAssumption` says what
the code takes for granted of GStreamer's elements: a decoder runs on the adapter
it names, a vendor's decoder on that vendor's adapter, and an encoder that takes
GPU textures names its adapter (the property `adapter-luid`). Where an element
names none, `pipeline.rs:847` takes it for one on the same GPU.

### Discovery, MCDiscovery

One pass of `discover_with_pin` after another, against receivers that announce
themselves on several interfaces, restart, and may have lost their probe port.
Addresses are numbers, so subnets, broadcasts and the probed ranges are the
arithmetic of the code. `peers` is what the pass heard, in order of arrival;
`result` what `stable_unique_receivers` and the limit make of it. `heard` is a
history variable: every announcement that arrived, those the pass threw away for an
address it had heard before included. `Directed` leaves out loopback and 169.x
interfaces (`Skipped`) as `broadcast_addresses` does, and `Reaches` says who takes a
broadcast: everybody on the link when it goes to 255.255.255.255, which the code does
only when no directed one exists, else the interfaces with the same broadcast
address. Encodings are
left out; PIN and role are whether a receiver is `Foreign`. `Sorted` and `Unique`
are the stable sort and the `retain` of the code, stated by the rank of each
element; `ProbeTargets` goes through the interfaces one by one, as
`unicast_probe_addresses` does, and keeps the first hosts of the last subnet when
there is no room for all.

### Proofs

`SenderSupervisorProofs`, `SenderRateProofs`, `PacketPacerProofs`,
`TrayAppProofs`, `StreamNegotiationProofs`, `VddDriverProofs`,
`RtpVideoReceiverProofs` and `DiscoveryProofs` extend the module they are named for
with TLAPS proofs, section 5.

## 3. What the runs check

| Run | Instance | Shows |
|---|---|---|
| `sender_supervisor` | 2 receivers, 2 modes each, up to 2 displays and 2 queued commands; 4.2 million states | five invariants, `StreamSurvivesMissedPasses`, `ImplementsSession` |
| `sender_recovery` | 2 receivers, 1 display; 232 thousand states | four liveness properties |
| `desktop_app` | 2 pins, one with displays, 2 choices, 2 routes; 376 thousand states | parts and configuration of a session, displays given back, a receiver comes back, a stop returns |
| `restart_aborted` | the same | a setting picked in the wrong moment stops the receiver (finding 8) |
| `stream_negotiation` | 2 receivers on two kinds of computers or a telephone, 2 sender computers, 4 sender and 2 receiver configurations; 296 thousand states | frames fit, textures stay on one GPU, receivers understand their streams |
| `discovery` | 3 receivers, one of another PIN, 3 networks; 151 thousand states | the list is in order, complete and without doubles, a reachable receiver is found |
| `app_update` | 3 pids, 2 runners, 2 versions; 462 thousand states | a start succeeds, an update is followed by a tray |
| `vdd_driver` | 2 callers, 2 nodes, counts 1-2, 3 actions; 212 thousand states | file and devices, duplicates, the supervisor is answered |
| `rtp_video` | 2 streams, queue of 2, 2 sessions, all packets; 1.2 million states | what reaches the codec belongs together, nothing is left of a session |
| `rtp_recovery` | 2 streams, queue of 1, 2 sessions; 264 thousand states | stop returns, an end is noticed, the picture returns |
| `sender_rate` | 2 receivers, ceilings 600 and 1100 kbit/s; 575 thousand states | bounds of the rate, the pacer that follows it, the spacing of key frame requests, the rule for rises, and that the rate follows the network |
| `packet_pacer` | 3 sizes, 2 rates, 1 or 2 peers; 3792 states | the network is at most a burst ahead of the rate, a rested link is not delayed |

### Why the bounds are enough

* Supervisor: a route can gain, lose, exchange and re-announce a receiver with
  two receivers and two modes; one display for two receivers makes the limit
  bite, two make the assignment count. `Grace = 2` separates "first miss" from
  "period over", `AlertAfter = 2` separates the first failure from the alert,
  and `MaxFailures` is one more, where the count saturates. Two queued commands
  contradict each other; more only repeat that.
* Driver: two nodes are the first duplicate; `MaxCount = 2` tells the count of
  the file from that of a device; three actions are a race of two and a retry.
  `Samples = 3` holds a broken and a complete pair of stable samples.
* Receiver: with a queue of two a NAL can be in hand, queued and refused at
  once; a second session is needed for anything stale; a second stream for a
  takeover.

* Rate: the ceiling 1100 has the floor 1000 and one step between them, 1050, so a
  rise that is capped, one that is not, and a fall to the floor all occur. The
  ceiling 600 is below its floor (finding 13). Rates at which the multiplication
  saturates are out of the run's reach; the theorems cover them.
  `StaleAfter` is not below `Interval`, so one report counts in several windows and
  a receiver that left still counts for a while. Key frame schedule and update
  interval differ, so both clocks meet in every order.
* Pacer: sizes below, at and beyond the allowance; two peers double the cost;
  `MaxIdle` exceeds the rest that pays off the deepest debt.
* Tray: two pins tell an old configuration from a new one, two choices a setting
  from the one it replaces; of two routes one can fail and the other be the last,
  which is all that `NextRoute` tells apart. `MaxDrift = 1`: file and application
  differ in one setting at a time, the one last edited or not written. The proof
  removes these bounds for the safety properties.
* Negotiation: a laptop whose display moves between two GPUs, a computer whose
  decoder does not say where it runs, one without display and GPU, and a telephone
  without FEC are the cases the selection code distinguishes; sizes are odd,
  partial, larger than the limit or unset; the mode of a display is the
  receiver's, another, or unknown.
* Discovery: five-bit addresses with subnets of two, four, eight and sixteen lie
  below, at and above `ScanBits`; some interfaces are skipped, dead or a tunnel;
  `MaxProbes = 8` cuts off the last subnet of one office (there `CanAnswer` promises
  nothing); the limit is below the number of instances heard; two pids make an
  instance that restarted.
* Guard and updater: three processes are two that race and one that left a lock
  file; two runners are the race of the two updater threads.

### Fairness

* `SenderSupervisor`: weak fairness of the supervisor thread and of the tray's
  poll of the status channel (a timer of its event loop). Receivers, pipelines,
  Windows and the user are not fair.
* `VddDriver`: every caller's step and the waits, which have deadlines, are
  weakly fair. A UAC prompt is answered or times out, which is `Breaks` or the
  step itself.
* `RtpVideoReceiver`: the three threads, the passing of time (`Silence`) and
  posted callbacks are weakly fair. The sender repeats key pictures
  (`FORCE_KEY_UNIT_INTERVAL`), so the arrival of one is strongly fair once the
  world has settled. `Settle` itself is not fair: liveness is stated for
  behaviours in which the world does settle.

* `SenderRate`: the loop is weakly fair. Time is strongly fair, because it passes
  only in the loop's waits, which end: a tick is enabled again and again, not
  always. Once the world has settled, those who stay go on reporting, in time.

* `TrayApp`: every handler returns to the event loop and the loop wakes within
  its poll interval (`MainLoop`), time passes (`RetryDue`), and a pipeline polls its
  channel every 100 ms (`TakesStop`): weakly fair. Building a plan is the
  environment's luck, so `RestartReceiver` is strongly fair: what is tried again
  and again succeeds sometimes. Routes, the user and the displays are not fair.
* `AppUpdate`: processes and scripts run on (weak fairness of `Acquires`,
  `Leaves`, `RunnersRun`); nobody has to start a check, quit or launch anything.
* `Discovery`: the sender's loop is weakly fair: a pass begins, and it ends, at its
  deadline or with an error (`MaxErrors` bounds those). `Hears` is strongly fair for each
  receiver: an announcer speaks five times in a pass, so the network may lose any
  packet, but not all of them in all passes.

`CHECK_DEADLOCK FALSE` appears where a behaviour may end: the user quits
(`desktop_app`, `restart_aborted`), the last process is gone (`app_update`), all
actions are spent (driver) or all sessions (receiver). Everywhere else deadlock is
checked.

## 4. Findings

Finding 8 is shown by the run `restart_aborted`. The others were met while
modelling, the model does what the code does there, and the properties say what
holds all the same. `PROJECT.json` quotes the lines in full.

1. `pipeline.rs:473` vs `pipeline.rs:383` and `pipeline.rs:470`: the time slept for a
   deficit is never credited, so every further packet of a burst waits for it
   again. `RateIsKept` holds: the pacer errs to the slow side.
2. `lan.rs:308` vs `README.md:205`: displays that a failed start brought up
   after a handled loss are not removed at the next loss.
3. `vdd.rs:53` vs `vdd.rs:13`: a retried set-count does not restart the driver.
   `DriverOK` says when file and devices may differ.
4. `RtpH264Receiver.java:381` vs `RtpH264ReceiverTest.java:228`: a key NAL in the
   decode thread's hand cancels the wait an overflow has just begun.
   `PicturesFollowTheirKey` holds with this gap, and the silently dropped oversize
   NAL, excepted.
5. `MainActivity.java:473` vs `MainActivity.java:109`: callbacks are not tied to the
   session that posted them.
6. `updater.rs:75` vs `README.md:380`: periodic checks do install while idle.
7. `pipeline.rs:17` vs `README.md:539`: key frames are requested every two
   seconds, not every second.
8. `tray_app.rs:627` vs `tray_app.rs:891`: a receiver setting picked between the
   last route's failure and the next reap stops the session instead of restarting it.
9. `pipeline.rs:1490` with `pipeline.rs:1349`: a route that took the stop message
   and does not reach the Null state hands over to the next route, and the
   message is gone. `StopReturns` of `TrayApp` excepts exactly this.
10. `updater.rs:75` vs `updater.rs:26`: a session started after the check has read
    the flag is cut off by the installation.
11. `tray_app.rs:844` vs `lan.rs:702`: a receiver that plans anew does not announce
    the limits of its new decoder.
12. `discovery.rs:468` vs `lan.rs:671`: of a receiver on two networks the address in
    use depends on arrival order. `ResultIsCanonical` leaves that open and nothing else.
13. `pipeline.rs:1532` vs `pipeline.rs:1515` and `README.md:86`: with less than 1000
    kbit/s configured, congestion raises the rate to 1000, above the ceiling.
    `RateWithinBounds` and `RisesAreEarned` except exactly this.
14. `tray_app.rs:1440` vs `tray_app.rs:891`: a failed write of the configuration is
    only logged; a pick may then hold in the application and not in the session.
    `SessionMatchesConfig` excepts the session that runs without the last pick.
15. `tray_app.rs:1420` vs `tray_app.rs:698` and `README.md:205`: a sender that is
    reloaded and whose second load fails leaves its virtual displays.
    `DisplaysAreGivenBack` excepts this one path.

Observations that contradict no line of the repository:

* One report may count for as many as three healthy windows, because
  `FEEDBACK_STALE_AFTER` exceeds the interval between updates. `FeedbackSender`
  reports whatever the last snapshot says, without the check of `last_update`
  that `pipeline.rs:226` asks for and the receiver window makes.
* A reload that switches virtual displays off ends the session with the new
  setting, and displays brought up with the old one stay ("left" in `TrayApp`).
* `save_config` writes over a hand edit that was not reloaded.
* Without a primary display a receiver announces no decode limits.
* `resolve_sender_args` clamps only to the first receiver; `fit_within` returns at
  least 2, so a limit of 1 cannot be met; the limits of a decoder are taken per
  dimension.
* The named mutex outlives the lock file: a process that gives way to it exits
  without removing the lock file it has created. Two runners race, and each takes
  any screen-mirror process for the tray.
* With port 47777 taken, a sender finds only receivers that answer probes.

## 5. What is proved

For every finite set of receivers, every set of announcements and every value
of the limits that the named assumptions of `SenderSupervisor` allow
(`ReceiversAssumption`, `CapsAssumption`, `ConfigAssumption`,
`NumberAssumption`), `SenderSupervisorProofs` proves:

* `TypeCorrect`, `AudioIsTiedToVideo`, `ToggledAudioIsSilent`,
  `EveryStreamHasItsDisplay`, `RoutesArePreparedAnew`, `StreamsAreReported`: the
  type invariant and the invariants of the run `sender_supervisor`;
* `StreamsSurviveMisses`: its action property;
* `SupervisorIsASession`: the refinement of `SenderSession`.

They follow from one inductive invariant, `SupervisorInv`. None of the
properties is inductive by itself. What has to be added is `Bookkeeping` (where
in the loop a route may be running, found or forgotten, and that `active` and
`video` speak of the same receivers), `FlagIsObeyed` (audio runs only while the
thread's own flag is on) and the channel invariant, which relates the tray's
wish to the last audio command still queued, or to the flag if there is none.
Each conjunct has a lemma with one step per action that can disturb it.

For every set of receivers, every set of reports (`ReportsAssumption`), every
positive bitrate of 32 bits (`CeilingsAssumption`, which is what the code checks) and
all intervals (`TimesAssumption`), `SenderRateProofs` proves:

* `RateStaysWithinBounds`, `PacerKeepsUp`, `RequestsKeepTheirDistance`: the
  invariants of the run `sender_rate`; `RateInvariant` contains `TypeOK`;
* `RisesFollowCleanWindows`: its action property.

The inductive invariant `RateInv` adds `RequestTiming`, which ties the time until
the next scheduled request to the time since the last one, whoever asked for
it: their sum is at least the minimum, and at most the interval until the
schedule is due; from then on the loop's lag bounds it. `StableIsClean` adds
that no window is counted that was not clean, for which the lemma
`HealthyIsClean` shows that the worst of each figure speaks for everyone. Both
theorems about the rate hold for bitrates whose floor is above the ceiling and for
those whose rise saturates, with the exceptions that the properties name:
`FloorFits` orders floor, ceiling and the least rate saturation leaves, and
`LoweredFits` and `RaisedFits` follow a fall and a rise between them.

For all rates, sizes and peer counts, `PacketPacerProofs` proves
`PacerKeepsTheRate` and `RestedLinkIsFree`. `RateIsKept` is not inductive: a
bucket that is full of tokens and a network that is a burst ahead could go
together. `PacerInv` adds the account that rules it out: what was sent ahead is
at most the allowance less the credit the bucket still holds. `RestInv` does
the same for the rest: the tokens are at least the allowance less the bytes
sent since.

`PacerTypeCorrect` is its type invariant.

For every set of pins and choices, every number of routes (`RoutesAssumption`), any
drift of the file (`DriftAssumption`) and a `None` that is none of the values
(`NoneAssumption`), `TrayAppProofs` proves
`TypeCorrect`, `PartsAlwaysMatch`, `SessionFollowsConfig` and
`DisplaysReturned`, the safety properties of the run `desktop_app`, with failing
writes, failing loads and hand edits at every step. `DisplaysReturned` is about
steps: it names the only one after which displays nobody decided about outlive the
sender (finding 15). `SessionFollowsConfig` lets a pick that was not saved
differ (finding 14) and nothing else. Those speak of the moments
between two handlers; `TrayInv` adds what holds inside: `Ending` says what a
handler waiting for the pipeline thread has already taken down and what it still
owes (its mode, the configuration it loaded, the displays), `NothingYet` that
nothing is running before start-up. `RightParts` and `RightConfig` state the two
properties for any value of the session's record, so that a handler's lemma can
be about the record it builds.

For all finite sets of receivers, all computers, configurations, announcements
and display modes whose types the assumptions of `StreamNegotiation` give,
`StreamNegotiationProofs` proves `NegotiationTypeCorrect`, `SentFramesAlwaysFit`,
`TexturesAlwaysStayOnOneGpu` and `StreamsAlwaysUnderstood`. The heart of the first is arithmetic: scaled to the
height's limit, the width is within its own exactly because the height scaled to
the width's limit was not (`OtherSideFits`), through two integer divisions and the
rounding to even sides; `VideoSizeFits` carries it through sizes that are set,
half set, or left to the display. The invariant adds that a stream is built as
settled (`AsSettled`) and that what is settled, every target announced
(`Settled`). `DesksAssumption` takes from a computer that its decoders' limits
are frame sizes.

`TexturesAlwaysStayOnOneGpu` follows the decisions instead. A search that succeeds
returns one of its hits (`FoundIsHit`, from the least element of a set of natural
numbers); with that there is one lemma for each way an element is chosen: by its
name, alone, for a vendor, paired with the sink (`OpenedOnGpu`, `AloneOnGpu`,
`VendorOnGpu`, `PairedOnOneGpu`, and `EncoderSelected` on the sender's side), and they
meet in `PlansOnOneGpu` and `BuiltOnOneGpu`: a plan or pipeline whose frames are
textures has both ends on one adapter. The invariant is then `TypeOK` and that of
every pipeline that runs (`PipelineInv`). The proof needs `PluginsAssumption`:
without it an element that names no adapter passes for one on the same GPU.

For any callers, actions, numbers of monitors and of device nodes
(`CallersAssumption`, `CountsAssumption`, `NodesAssumption`), `VddDriverProofs`
proves `DriverAlwaysOK` and `DuplicatesNeedRaces`, the invariants of the run
`vdd_driver`. `DriverInv` adds who may write the settings file and poll for the
count (`ChangedBySetCount`, `PollsForCount`), so that a mismatch is always owed by
someone; that two exact samples end the count loop (`LoopGoesOn`); and that a
caller about to create a device has found none, so that a device or another such
caller is the sign of a race (`CreatesKnowOfRaces`).

For any streams, any bound of the queue, any number of starts and any packets
(`StreamsAssumption`, `BoundsAssumption`, `PacketsAssumption`),
`RtpVideoReceiverProofs` proves the invariants of the run `rtp_video`:
`QueueIsAlwaysSound`, `PicturesAlwaysFollowTheirKey`, `NothingIsLeftBehind`.
`ReceiverInv` adds, thread by thread, what the others rely on: `Stopped` (which
threads have ended while the UI thread waits, and that a start that was promised is
still wanted), `Held` (the NAL in the receive thread's hand and the fragments are
of the selected stream, and a takeover or an overflow has emptied the queue),
`Queued` (everything queued is of the selected stream), `Follows` (behind a key
picture in the queue, or a fresh one in the decoder's hand, nothing builds on a
dropped picture) and `Decodable` (a codec that is fed pictures has the key picture
of all that wait). The order in the code carries the proof: an overflow and a
takeover empty the queue before the wait for a key picture begins, and nothing more
is queued until it has.

For all receivers, interfaces, subnets and limits (`ReceiversAssumption`,
`InterfacesAssumption`, `NumbersAssumption`, and `PowersAssumption`: the size of a
subnet is a positive number, which the provers do not know of a power),
`DiscoveryProofs` proves:

* `DiscoveryTypeCorrect`: with the types, that a pass hears no instance twice;
* `PassInvariant`: `peers` holds one announcement of each instance in `heard`;
* `ResultAlwaysCanonical`, the action property of the run `discovery`, and
  `SameHeardSameList`: when every instance was heard from one address, the property
  leaves one list only, so passes that heard the same choose the same;
* `ReachableIsAlwaysProbed`: a receiver that can answer is probed, and no more
  addresses are than may be.

The lists rest on ranks. In a finite set with a strict order the number of
elements below grows with the order (`RankGrows`), so each rank below the size is
somebody's (`Ranks`), and a sequence by rank holds everything in order
(`InOrderIsSorted`). That gives `SortedSorts` and `UniqueRetains`, and the cut is a
prefix (`CutIsInOrder`). Whatever was heard has an entry before it, or itself, at its
address (`FirstAtAddress`), which makes the list canonical for all that was heard
(`ListIsCanonical`). Two lists of the same entries in order cannot differ at a first
index (`NoEarlierEntry`). The same ranks give what a subnet that does
not fit leaves (`FirstHosts`). Where an argument runs over all indices or
interfaces it takes the least counterexample (`LeastNatural`), because an
induction rule over predicates cannot be instantiated by the provers; so too for
the existence of the recursive function in `ProbeTargets` (`StepsExist`).
`TypeOK` and `ReachableIsProbed` are invariants no run lists.

Only model-checked: liveness, which is outside the prover's reach. Those are
`StopTerminates`, `FailureStreakReachesTray`, `ReceiversAreServed` and
`DisplaysAreReturned` of the supervisor, `ReceiverComesBack` and `StopReturns` of
the tray, `PeerIsFound`, `SenderIsAnswered`, `RateRecovers` and `RateYields`,
`StopReturns`, `EndIsNoticed` and `PictureReturns` of the Android receiver, and the
two properties of `AppUpdate`. Every invariant and every action property of a
passing run is stated by a theorem.

## 6. Not modelled, and the plan

Not modelled, and why:

* display enumeration and placement: one-shot Win32 calls whose outcome belongs
  to Windows; their results are the free choices of `StreamNegotiation` and
  `SenderSupervisor`;
* the visual watchdog of the receiver window: image statistics without a right
  answer to compare with; diagnostics, logging, menus and texts;
* defaults and migration of the configuration; autostart, power and console
  wrappers;
* the Android audio receiver, which repeats the structure of the video receiver
  without fragments and key pictures; the Android sender, capture service and
  discovery agent, whose order of events is given by the framework;
* the installer and scripts, except the update runner.

Left for later, in this order:

1. `TouchControl`: the queue of `ControlClient`, lossy transfer, gesture paths of
   the accessibility service and the injection on the desktop (which ignores the
   pointer); every gesture that begins ends.
2. `RtpFragments`: `RtpPacketizer` against `depacketizeAndQueue` with real
   sequence numbers, including wrap-around, loss and reordering.
3. `AndroidSender`: activity, discovery agent, capture service.
4. The supervisor composed with `VddDriver` instead of its outcomes.

Proofs left: that `SelectRoute` and the other route decisions of `ReceiverRoute`
never pass over a candidate that would do, and that a broadcast reaches the
sender whenever `CanBroadcast` holds, which needs that no host has a multicast
address.

The number of runs is kept to what a reader can follow; narrow runs for single
findings gave way to runs of whole modules.
