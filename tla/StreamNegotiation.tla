------------------------- MODULE StreamNegotiation -------------------------
(***************************************************************************)
(* From what a receiver's decoder accepts to what a sender sends it: a     *)
(* desktop receiver plans its routes and announces the largest frame of    *)
(* the first one (tray_app.rs, lan.rs), the sender collects announcements, *)
(* settles the parts all its receivers must understand, gives each one a   *)
(* virtual display and builds a pipeline scaled to it (lan.rs).            *)
(* ReceiverRoute and SenderRoute hold the decisions themselves.            *)
(***************************************************************************)
EXTENDS FiniteSets, SenderRoute

CONSTANTS
  Receivers,     \* numbered in instance_id order
  Desks,         \* computers receiver r may run on: a display moves, a GPU goes
  RecvArgs,      \* receiver configurations
  Peers,         \* announcements of receivers that are not this program
  Senders,       \* sender computers
  SendArgs,      \* sender configurations
  Modes,         \* display modes a virtual display may show
  MinMode,       \* the smallest mode a virtual display is synced to
  MaxBundled     \* MAX_BUNDLED_VIRTUAL_DISPLAYS

\* Frame sizes, a pair; what an announcement says of a receiver.
Sides == Nat \ {0}
Profiles == {"auto", "high", "main", "baseline"}
Frames == Sides \X Sides
Offers == [display: Frames \cup {None}, fec: BOOLEAN, high: BOOLEAN,
           limits: Frames \cup {None}]
Encoders == {"nvidia", "quicksync", "amf", "mediafoundation", "x264"}
SenderConfig ==
  [gpu: [number: Nat, words: SUBSET STRING] \cup {None}, encoder: Encoders \cup {"auto"}, software: BOOLEAN,
   size: (Sides \cup {None}) \X (Sides \cup {None}), monitor: Int, prefer: BOOLEAN,
   virtual: BOOLEAN, sync: BOOLEAN, zeroCopy: BOOLEAN, fec: BOOLEAN, profile: Profiles,
   hosts: Seq(Receivers) \cup {None}, limit: Nat, valid: BOOLEAN]

ASSUME ReceiversAssumption == Receivers \subseteq Nat /\ IsFiniteSet(Receivers)
ASSUME NumbersAssumption ==
  MaxBundled \in Nat /\ None \notin Nat \cup Frames \cup Seq(Receivers)
ASSUME SendersAssumption == SendArgs \subseteq SenderConfig /\ Modes \subseteq Frames
ASSUME PeersAssumption == Peers \subseteq Offers
\* A frame limit is the largest size of some decoder's caps.
ASSUME DesksAssumption ==
  \A r \in Receivers : \A pc \in Desks[r] :
    /\ pc.display \in Frames \cup {None} /\ pc.fec \in BOOLEAN
    /\ \A a \in RecvArgs :
         Plan(pc, a) # None => Plan(pc, a).limits \in Frames \cup {None}

\* What drivers and plugins say of themselves.  A decoder runs on an adapter of
\* the computer, on the one it names when it names one, and a vendor's decoder on
\* an adapter of that vendor; an encoder that takes D3D11 frames (nvd3d11, qsv,
\* amf, Media Foundation) has the property that names its adapter.
GpuFamilies == {"d3d12", "d3d11", "nvh264", "qsvh264"}
Adapters == [index: Nat, luid: Nat, vendor: STRING, words: SUBSET STRING]
GpuDecoders(pc, family) ==
  {e \in [luid: Nat \cup {None}, device: Nat, memory: SUBSET STRING, caps: SUBSET Frames] :
     /\ e.luid # None => e.device = e.luid
     /\ \E i \in DOMAIN pc.adapters :
          /\ pc.adapters[i].luid = e.device
          /\ family = "nvh264" => pc.adapters[i].vendor = "nvidia"
          /\ family = "qsvh264" => pc.adapters[i].vendor = "intel"}
GpuEncoders ==
  {e \in [luid: Nat \cup {None}, device: Nat \cup {None}, d3d11: BOOLEAN] :
     e.d3d11 => e.luid # None /\ e.device = e.luid}

ASSUME PluginsAssumption ==
  /\ \A r \in Receivers : \A pc \in Desks[r] :
       /\ pc.adapters \in Seq(Adapters)
       /\ \A family \in GpuFamilies :
            pc.decoders[family] \in Seq(GpuDecoders(pc, family))
  /\ \A a \in RecvArgs : a.decoder \in {"auto", "software", "avdec", "d3d11"}
  /\ \A pc \in Senders : \A family \in Encoders :
       pc.encoders[family] \in Seq(GpuEncoders)

VARIABLES
  desk,      \* the computer each receiver runs on
  recv,      \* RecvArgs of each receiver
  running,   \* its session: plan, the route that runs, what it announces
  sender,    \* the sender's computer
  args,      \* the sender's configuration
  resolved,  \* ResolvedSender: the negotiated configuration and receivers
  streams    \* the pipelines that run: to whom, of which mode, and how

vars == << desk, recv, running, sender, args, resolved, streams >>

(***************************************************************************)
(* Receivers.                                                              *)
(***************************************************************************)
\* Announcer::start: without a primary display there is no place for limits.
Offer(pc, plan) ==
  [display |-> pc.display, fec |-> pc.fec, high |-> TRUE,
   limits |-> IF pc.display = None THEN None ELSE plan.limits]

StartReceiver(r) ==
  LET plan == Plan(desk[r], recv[r])
  IN /\ running[r] = None /\ plan # None
     /\ running' = [running EXCEPT ![r] =
          [plan |-> plan, at |-> 1, offer |-> Offer(desk[r], plan)]]
     /\ UNCHANGED << desk, recv, sender, args, resolved, streams >>

StartPeer(r) ==
  /\ running[r] = None
  /\ \E offer \in Peers : running' = [running EXCEPT ![r] =
       [plan |-> None, at |-> 1, offer |-> offer]]
  /\ UNCHANGED << desk, recv, sender, args, resolved, streams >>

StopReceiver(r) ==
  /\ running[r] # None
  /\ running' = [running EXCEPT ![r] = None]
  /\ UNCHANGED << desk, recv, sender, args, resolved, streams >>

\* run_receiver_pipeline_plan: a failed route gives way to the next one; after
\* the last, restart_receiver_pipeline plans anew and announces what it did.
RouteEnds(r) ==
  LET session == running[r]
      plan == Plan(desk[r], recv[r])
  IN /\ session # None /\ session.plan # None
     /\ \/ /\ session.at < Len(session.plan.routes)
           /\ running' = [running EXCEPT ![r].at = @ + 1]
        \/ /\ session.at = Len(session.plan.routes) /\ plan # None
           /\ running' = [running EXCEPT ![r].plan = plan, ![r].at = 1]
     /\ UNCHANGED << desk, recv, sender, args, resolved, streams >>

DeskChanges(r) ==
  /\ \E pc \in Desks[r] \ {desk[r]} : desk' = [desk EXCEPT ![r] = pc]
  /\ UNCHANGED << recv, running, sender, args, resolved, streams >>

(***************************************************************************)
(* discover_sender_args and what it negotiates.  A receiver named in       *)
(* args.hosts is trusted to understand everything.                         *)
(***************************************************************************)
Trusted == [display |-> None, fec |-> TRUE, high |-> TRUE, limits |-> None]

\* stable_unique_receivers: the first of those that answer, in their order.
Ordered(names, all) ==
  /\ \A i, j \in DOMAIN names : i < j => names[i] < names[j]
  /\ \A r \in all : (\A i \in DOMAIN names : names[i] # r)
                    => \A i \in DOMAIN names : names[i] < r

Announced ==
  LET all == {r \in Receivers : running[r] # None}
      limit == IF ~args.virtual \/ args.limit <= MaxBundled THEN args.limit ELSE MaxBundled
      taken == IF limit <= Cardinality(all) THEN limit ELSE Cardinality(all)
  IN {names \in [1..taken -> all] : Ordered(names, all)}

\* Mutant: one receiver that understands FEC is enough.
AnyFec(targets) == \E i \in DOMAIN targets : targets[i].offer.fec

AreFec(targets) == \A i \in DOMAIN targets : targets[i].offer.fec

Profile(wanted, targets) ==
  IF wanted # "auto" THEN wanted
  ELSE IF targets # << >> /\ \A i \in DOMAIN targets : targets[i].offer.high
       THEN "high" ELSE "baseline"

Targets ==
  IF args.hosts # None
  THEN {[i \in DOMAIN args.hosts |-> [host |-> args.hosts[i], offer |-> Trusted]]}
  ELSE {[i \in DOMAIN names |-> [host |-> names[i], offer |-> running[names[i]].offer]] :
          names \in Announced \ {<< >>}}

Discover ==
  /\ resolved = None /\ streams = << >>
  /\ \E targets \in Targets :
       resolved' = [targets |-> targets,
         args |-> [args EXCEPT !.fec = @ /\ (args.hosts # None \/ AreFec(targets)),
                               !.profile = Profile(@, targets)]]
  /\ UNCHANGED << desk, recv, running, sender, args, streams >>

(***************************************************************************)
(* assign_receiver_displays and spawn_receiver_video_pipelines.            *)
(***************************************************************************)
\* What the virtual display given to a receiver may show once
\* sync_virtual_display_mode has tried: the receiver's own mode, or, when it is
\* too small or Windows refuses it, whatever was set; None: it cannot be read.
ModesFor(offer) ==
  Modes \cup {None} \cup
  {mode \in {offer.display} : /\ resolved.args.sync /\ mode # None
                              /\ mode[1] >= MinMode[1] /\ mode[2] >= MinMode[2]}

\* The targets and their one for each receiver, in order.
Assignments ==
  LET n == Len(resolved.targets)
      Shown == UNION {ModesFor(resolved.targets[i].offer) : i \in 1..n}
  IN IF ~resolved.args.virtual
     THEN {[i \in 1..n |-> [target |-> None, mode |-> None]]}
     ELSE IF Len(sender.targets) < n THEN {}
     ELSE {[i \in 1..n |-> [target |-> sender.targets[i], mode |-> modes[i]]] :
             modes \in {f \in [1..n -> Shown] :
                          \A i \in 1..n : f[i] \in ModesFor(resolved.targets[i].offer)}}

PipelineTo(i, assigned) ==
  SenderPipeline(sender,
    [resolved.args EXCEPT !.size =
       VideoSize(@, resolved.targets[i].offer.limits, assigned.mode)],
    assigned.target)

Stream(to, i, assigned) ==
  [to |-> to, offer |-> resolved.targets[i].offer, mode |-> assigned.mode,
   pipeline |-> PipelineTo(i, assigned)]

Spawn ==
  LET all == DOMAIN resolved.targets
  IN /\ resolved # None /\ streams = << >> /\ all # {}
     /\ \E assigned \in Assignments :
          /\ \A i \in all : PipelineTo(i, assigned[i]) # None
          /\ streams' = [i \in all |-> Stream({i}, i, assigned[i])]
     /\ UNCHANGED << desk, recv, running, sender, args, resolved >>

\* resolve_sender_args: the command line runs one pipeline for everybody, of
\* the first receiver's display and size.
SendDirectly ==
  /\ resolved # None /\ streams = << >> /\ resolved.targets # << >>
  /\ \E assigned \in Assignments :
       /\ PipelineTo(1, assigned[1]) # None
       /\ streams' = << Stream(DOMAIN resolved.targets, 1, assigned[1]) >>
  /\ UNCHANGED << desk, recv, running, sender, args, resolved >>

\* The displays are missing or one route cannot be built: nothing is started.
SpawnFails ==
  /\ resolved # None /\ streams = << >>
  /\ \/ resolved.args.virtual \/ resolved.targets = << >>
     \/ \E assigned \in Assignments, i \in DOMAIN resolved.targets :
          PipelineTo(i, assigned[i]) = None
  /\ resolved' = None
  /\ UNCHANGED << desk, recv, running, sender, args, streams >>

StopStreams ==
  /\ streams # << >>
  /\ streams' = << >> /\ resolved' = None
  /\ UNCHANGED << desk, recv, running, sender, args >>

Init ==
  /\ desk \in [Receivers -> UNION {Desks[r] : r \in Receivers}]
  /\ \A r \in Receivers : desk[r] \in Desks[r]
  /\ recv \in [Receivers -> RecvArgs]
  /\ running = [r \in Receivers |-> None]
  /\ sender \in Senders /\ args \in SendArgs
  /\ resolved = None /\ streams = << >>

Next ==
  \/ \E r \in Receivers : \/ StartReceiver(r) \/ StartPeer(r) \/ StopReceiver(r)
                          \/ RouteEnds(r) \/ DeskChanges(r)
  \/ Discover \/ Spawn \/ SendDirectly \/ SpawnFails \/ StopStreams

Spec == Init /\ [][Next]_vars

(* What the variables hold; a pipeline is what SenderPipeline builds.      *)
Plans == UNION {{Plan(pc, a) : a \in RecvArgs} : pc \in UNION {Desks[r] : r \in Receivers}}
Sessions == [plan: Plans \cup {None}, at: Nat, offer: Offers]

TypeOK ==
  /\ desk \in [Receivers -> UNION {Desks[r] : r \in Receivers}]
  /\ \A r \in Receivers : desk[r] \in Desks[r]
  /\ recv \in [Receivers -> RecvArgs]
  /\ running \in [Receivers -> Sessions \cup {None}]
  /\ sender \in Senders /\ args \in SendArgs
  /\ resolved \in [targets: Seq([host: Receivers, offer: Offers]), args: SenderConfig]
                 \cup {None}
  /\ \A i \in DOMAIN streams :
       streams[i].offer \in Offers /\ streams[i].mode \in Frames \cup {None}

(***************************************************************************)
(* Properties.                                                             *)
(***************************************************************************)
\* What leaves the encoder: the caps, or else the captured display's mode.
FrameSize(stream) ==
  IF None \notin {stream.pipeline.size[1], stream.pipeline.size[2]}
  THEN stream.pipeline.size ELSE stream.mode

\* A stream never carries a frame its receiver announced it cannot decode: when
\* the size is known (explicit caps, or the mode of the display the receiver was
\* given), both sides are within the announced limits, whatever display mode
\* was applied or refused on the way.  (A limit of 1 cannot be met: a side is at
\* least 2.)
SentFramesFit ==
  \A i \in DOMAIN streams :
    LET size == FrameSize(streams[i])
        limits == streams[i].offer.limits
    IN size # None /\ limits # None =>
         \A d \in {1, 2} : limits[d] >= 2 => size[d] <= limits[d]

\* A texture never crosses GPUs: when the caps of a receiver's route pin frames
\* to D3D memory, the decoder runs on the GPU the session settled on and the
\* sink draws with the same one; when a sender keeps frames in D3D11 memory,
\* its encoder runs on the GPU that captures them.  Holds through selections by
\* name, missing GPUs, elements bound to another adapter and fallback routes.
TexturesStayOnOneGpu ==
  /\ \A r \in Receivers :
       running[r] # None /\ running[r].plan # None =>
         LET plan == running[r].plan
         IN \A i \in DOMAIN plan.routes :
              plan.gpu # None /\ OutputMemory(plan.routes[i]) \in {"D3D11", "D3D12"}
              => /\ plan.routes[i].decoder.device = plan.gpu.luid
                 /\ plan.routes[i].sink.adapter = plan.gpu.index
  /\ \A i \in DOMAIN streams :
       LET pipeline == streams[i].pipeline
       IN pipeline.memory = "D3D11" =>
            pipeline.capture # None /\ pipeline.encoder.device = pipeline.capture.luid

\* What one pipeline or one negotiation decides for several receivers, all of
\* them understand: FEC packets are sent only to receivers that announced the
\* FEC elements, and the High profile is chosen for them only when all of them
\* announced it.
StreamsAreUnderstood ==
  resolved # None /\ args.hosts = None =>
    \A i \in DOMAIN streams : \A j \in streams[i].to :
      /\ streams[i].pipeline.fec => resolved.targets[j].offer.fec
      /\ streams[i].pipeline.profile = "high" /\ args.profile = "auto"
         => resolved.targets[j].offer.high

=============================================================================
