------------------------ MODULE StreamNegotiationProofs ------------------------
(***************************************************************************)
(* Proofs about StreamNegotiation: whatever the receivers' computers, the  *)
(* configurations and the display modes are, no stream carries a frame its *)
(* receiver announced it cannot decode, what one negotiation settles all   *)
(* of them understand, and no texture crosses GPUs.                        *)
(***************************************************************************)
EXTENDS StreamNegotiation, FiniteSetTheorems, WellFoundedInduction, TLAPS

(***************************************************************************)
(* The arithmetic of fit_within.                                           *)
(***************************************************************************)
LEMMA DivisionBound ==
  ASSUME NEW a \in Nat, NEW b \in Nat, b # 0
  PROVE  /\ a \div b \in Nat
         /\ (a \div b) * b <= a
         /\ a < (a \div b) * b + b
BY Z3

LEMMA ProductOrder ==
  ASSUME NEW a \in Nat, NEW b \in Nat, NEW c \in Nat, a * c < b * c
  PROVE  a < b
BY Z3

(* Scaled by the height, the width is within its limit exactly because the  *)
(* height scaled by the width was not.                                     *)
LEMMA OtherSideFits ==
  ASSUME NEW w \in Nat, NEW h \in Nat, w # 0, h # 0, NEW l1 \in Nat, NEW l2 \in Nat,
         l2 < (l1 * h) \div w
  PROVE  (l2 * w) \div h <= l1
<1> DEFINE p == l1 * h
           q == l2 * w
           x == p \div w
           y == q \div h
<1>1. p \in Nat /\ q \in Nat
  OBVIOUS
<1>2. x \in Nat /\ x * w <= p
  BY <1>1, DivisionBound
<1>3. y \in Nat /\ y * h <= q
  BY <1>1, DivisionBound
<1>4. q < x * w
  <2>1. l2 < x
    OBVIOUS
  <2> HIDE DEF x
  <2> QED BY <1>2, <2>1, Z3
<1>5. y * h < l1 * h
  <2>1. x * w \in Nat /\ y * h \in Nat
    BY <1>2, <1>3
  <2> HIDE DEF x, y, q
  <2> QED BY <1>1, <1>2, <1>3, <1>4, <2>1
<1>6. y \in Nat
  BY <1>3
<1> HIDE DEF y
<1>7. y < l1
  BY <1>5, <1>6, ProductOrder
<1> QED BY <1>6, <1>7 DEF y

LEMMA EvenBound ==
  ASSUME NEW n \in Nat
  PROVE  AtLeastTwo(Even(n)) \in Sides /\ \A m \in Nat : 2 <= m /\ n <= m => AtLeastTwo(Even(n)) <= m
<1>1. n % 2 \in Nat /\ n % 2 <= n
  BY Z3
<1>2. Even(n) \in Nat /\ Even(n) <= n
  BY <1>1 DEF Even
<1> HIDE DEF Even
<1> QED BY <1>2 DEF AtLeastTwo, Sides

(* One side of a frame is within a limit that can be met at all. *)
Within(size, limit) == \A d \in {1, 2} : limit[d] >= 2 => size[d] <= limit[d]

LEMMA FitWithinFits ==
  ASSUME NEW source \in Frames, NEW limit \in Frames
  PROVE  IF FitWithin(source, limit) = None THEN Within(source, limit)
         ELSE FitWithin(source, limit) \in Frames /\ Within(FitWithin(source, limit), limit)
<1> DEFINE w == source[1]
           h == source[2]
           l1 == limit[1]
           l2 == limit[2]
           height == (l1 * h) \div w
           scaled == IF height <= l2 THEN << l1, height >> ELSE << (l2 * w) \div h, l2 >>
           fitted == << AtLeastTwo(Even(scaled[1])), AtLeastTwo(Even(scaled[2])) >>
<1>1. /\ w \in Nat /\ h \in Nat /\ l1 \in Nat /\ l2 \in Nat
      /\ w # 0 /\ h # 0 /\ l1 # 0 /\ l2 # 0
      /\ source = << w, h >> /\ limit = << l1, l2 >>
  BY DEF Frames, Sides
<1>2. l1 * h \in Nat /\ l2 * w \in Nat
  BY <1>1
<1>3. height \in Nat /\ (l2 * w) \div h \in Nat
  BY <1>1, <1>2, DivisionBound
<1>4. scaled[1] \in Nat /\ scaled[2] \in Nat /\ scaled[1] <= l1 /\ scaled[2] <= l2
  <2>1. CASE height <= l2
    BY <1>1, <1>3, <2>1
  <2>2. CASE ~(height <= l2)
    <3>1. l2 < height
      BY <1>1, <1>3, <2>2
    <3>2. (l2 * w) \div h <= l1
      BY <1>1, <3>1, OtherSideFits
    <3> QED BY <1>1, <1>3, <2>2, <3>2
  <2> QED BY <2>1, <2>2
<1>5. FitWithin(source, limit) =
        IF 0 \in {w, h, l1, l2} THEN None
        ELSE IF w <= l1 /\ h <= l2 THEN None
        ELSE IF fitted = source THEN None ELSE fitted
  BY DEF FitWithin
<1> HIDE DEF scaled
<1>6. fitted \in Frames
  BY <1>4, EvenBound DEF Frames
<1>7. Within(fitted, limit)
  BY <1>1, <1>4, EvenBound DEF Within
<1> HIDE DEF fitted
<1>8. w <= l1 /\ h <= l2 => Within(source, limit)
  BY <1>1 DEF Within
<1>9. fitted # None
  BY <1>6, NumbersAssumption
<1> QED BY <1>1, <1>5, <1>6, <1>7, <1>8, <1>9

Partial == (Sides \cup {None}) \X (Sides \cup {None})

(* Whatever size the configuration sets and the display shows, what leaves  *)
(* the encoder fits.                                                        *)
LEMMA VideoSizeFits ==
  ASSUME NEW size \in Partial, NEW limits \in Frames, NEW mode \in Frames \cup {None}
  PROVE  LET set == VideoSize(size, limits, mode)
             sent == IF None \notin {set[1], set[2]} THEN set ELSE mode
         IN sent # None => Within(sent, limits)
<1> DEFINE source == IF None \notin {size[1], size[2]} THEN size ELSE mode
           set == VideoSize(size, limits, mode)
           sent == IF None \notin {set[1], set[2]} THEN set ELSE mode
<1>1. None \notin Frames /\ None \notin Sides
  BY NumbersAssumption DEF Sides
<1>2. source \in Frames \cup {None}
  <2>1. CASE None \notin {size[1], size[2]}
    BY <2>1 DEF Partial, Frames
  <2>2. CASE None \in {size[1], size[2]}
    BY <2>2
  <2> QED BY <2>1, <2>2
<1>3. CASE source = None
  <2>1. set = size /\ None \in {size[1], size[2]}
    BY <1>1, <1>3 DEF VideoSize, Partial, Frames
  <2>2. sent = mode /\ mode = None
    BY <1>1, <1>3, <2>1
  <2> QED BY <2>2
<1>4. CASE source # None /\ FitWithin(source, limits) # None
  <2>1. set = FitWithin(source, limits)
    BY <1>1, <1>4 DEF VideoSize, Or
  <2>2. source \in Frames
    BY <1>2, <1>4
  <2>3. set \in Frames /\ Within(set, limits)
    BY <1>4, <2>1, <2>2, FitWithinFits
  <2>4. sent = set
    BY <1>1, <2>3 DEF Frames
  <2> QED BY <2>3, <2>4
<1>5. CASE source # None /\ FitWithin(source, limits) = None
  <2>1. set = size
    BY <1>1, <1>5 DEF VideoSize, Or
  <2>2. source \in Frames
    BY <1>2, <1>5
  <2>3. Within(source, limits)
    BY <1>5, <2>2, FitWithinFits
  <2>4. sent = source
    BY <2>1
  <2> QED BY <2>3, <2>4
<1> QED BY <1>3, <1>4, <1>5

(***************************************************************************)
(* The streams.                                                            *)
(***************************************************************************)
LEMMA ElementOf ==
  ASSUME NEW S, NEW s \in Seq(S), NEW i \in DOMAIN s
  PROVE  i \in 1..Len(s) /\ s[i] \in S
OBVIOUS

LEMMA AssignedModes ==
  ASSUME NEW assigned \in Assignments, NEW i \in DOMAIN resolved.targets,
         resolved.targets \in Seq([host: Receivers, offer: Offers])
  PROVE  assigned[i].mode \in Frames \cup {None}
<1> DEFINE n == Len(resolved.targets)
           Shown == UNION {ModesFor(resolved.targets[j].offer) : j \in 1..n}
<1> DEFINE targets == resolved.targets
<1>0. i \in 1..Len(targets) /\ targets[i] \in [host: Receivers, offer: Offers]
  <2> HIDE DEF targets
  <2> QED BY ElementOf DEF targets
<1>1. i \in 1..n /\ resolved.targets[i].offer \in Offers
  BY <1>0
<1>2. ModesFor(resolved.targets[i].offer) \subseteq Frames \cup {None}
  <2>1. resolved.targets[i].offer.display \in Frames \cup {None}
    BY <1>1 DEF Offers
  <2> QED BY <2>1, SendersAssumption DEF ModesFor
<1>3. CASE ~resolved.args.virtual
  <2>1. assigned = [j \in 1..n |-> [target |-> None, mode |-> None]]
    BY <1>3 DEF Assignments
  <2> QED BY <1>1, <2>1
<1>4. CASE resolved.args.virtual
  <2>1. PICK modes \in [1..n -> Shown] :
          /\ \A j \in 1..n : modes[j] \in ModesFor(resolved.targets[j].offer)
          /\ assigned = [j \in 1..n |-> [target |-> sender.targets[j], mode |-> modes[j]]]
    BY <1>4 DEF Assignments
  <2>2. assigned[i].mode = modes[i]
    BY <1>1, <2>1
  <2> QED BY <1>1, <1>2, <2>1, <2>2
<1> QED BY <1>3, <1>4

Fits(stream) ==
  stream.offer.limits # None /\ FrameSize(stream) # None
    => Within(FrameSize(stream), stream.offer.limits)

LEMMA BuiltStreamFits ==
  ASSUME TypeOK, resolved # None, NEW i \in DOMAIN resolved.targets,
         NEW assigned \in Assignments, PipelineTo(i, assigned[i]) # None, NEW to
  PROVE  LET stream == Stream(to, i, assigned[i])
         IN stream.offer \in Offers /\ stream.mode \in Frames \cup {None} /\ Fits(stream)
<1> DEFINE stream == Stream(to, i, assigned[i])
           offer == resolved.targets[i].offer
           mode == assigned[i].mode
           size == VideoSize(resolved.args.size, offer.limits, mode)
<1>1. /\ resolved.targets \in Seq([host: Receivers, offer: Offers])
      /\ resolved.args \in SenderConfig
  BY DEF TypeOK
<1>2. offer \in Offers /\ offer.limits \in Frames \cup {None} /\ mode \in Frames \cup {None}
      /\ resolved.args.size \in Partial
  <2>1. resolved.targets[i] \in [host: Receivers, offer: Offers]
    BY <1>1, ElementOf
  <2>2. offer \in Offers /\ offer.limits \in Frames \cup {None}
    BY <2>1 DEF Offers
  <2>3. mode \in Frames \cup {None}
    BY <1>1, AssignedModes
  <2>4. resolved.args.size \in Partial
    BY <1>1 DEF SenderConfig, Partial
  <2> QED BY <2>2, <2>3, <2>4
<1>3. stream.offer = offer /\ stream.mode = mode /\ stream.pipeline = PipelineTo(i, assigned[i])
  BY DEF Stream
<1>4. PipelineTo(i, assigned[i]).size = size
  <2> DEFINE scaled == [resolved.args EXCEPT !.size = size]
  <2>1. scaled.size = size
    BY <1>1 DEF SenderConfig
  <2>2. PipelineTo(i, assigned[i]) = SenderPipeline(sender, scaled, assigned[i].target)
    BY DEF PipelineTo
  <2> HIDE DEF scaled
  <2> QED BY <2>1, <2>2 DEF SenderPipeline
<1>5. FrameSize(stream) = IF None \notin {size[1], size[2]} THEN size ELSE mode
  BY <1>3, <1>4 DEF FrameSize
<1>6. ASSUME offer.limits # None PROVE FrameSize(stream) # None => Within(FrameSize(stream), offer.limits)
  <2>1. offer.limits \in Frames
    BY <1>2, <1>6
  <2> HIDE DEF offer, mode, stream
  <2> QED BY <1>2, <1>5, <2>1, VideoSizeFits
<1> HIDE DEF size
<1> QED BY <1>2, <1>3, <1>6 DEF Fits

NegotiationInv == TypeOK /\ \A i \in DOMAIN streams : Fits(streams[i])

LEMMA OfferType ==
  ASSUME NEW r \in Receivers, NEW pc \in Desks[r], NEW a \in RecvArgs, Plan(pc, a) # None
  PROVE  Offer(pc, Plan(pc, a)) \in Offers
BY DesksAssumption DEF Offer, Offers

LEMMA ReceiverStep ==
  ASSUME TypeOK,
         NEW r \in Receivers,
         \/ StartReceiver(r) \/ StartPeer(r) \/ StopReceiver(r) \/ RouteEnds(r) \/ DeskChanges(r)
  PROVE  TypeOK'
<1> USE DEF TypeOK
<1>1. desk[r] \in Desks[r] /\ desk[r] \in UNION {Desks[q] : q \in Receivers} /\ recv[r] \in RecvArgs
  OBVIOUS
<1>2. Plan(desk[r], recv[r]) \in Plans
  <2>1. Plan(desk[r], recv[r]) \in {Plan(desk[r], a) : a \in RecvArgs}
    BY <1>1
  <2> QED BY <1>1, <2>1 DEF Plans
<1>3. CASE StartReceiver(r)
  <2> DEFINE session == [plan |-> Plan(desk[r], recv[r]), at |-> 1,
                         offer |-> Offer(desk[r], Plan(desk[r], recv[r]))]
  <2>1. running' = [running EXCEPT ![r] = session] /\ Plan(desk[r], recv[r]) # None
        /\ UNCHANGED << desk, recv, sender, args, resolved, streams >>
    BY <1>3 DEF StartReceiver
  <2>2. session \in Sessions
    BY <1>1, <1>2, <2>1, OfferType DEF Sessions
  <2> HIDE DEF session
  <2> QED BY <2>1, <2>2
<1>4. CASE StartPeer(r)
  <2>1. PICK offer \in Peers : running' = [running EXCEPT ![r] = [plan |-> None, at |-> 1, offer |-> offer]]
    BY <1>4 DEF StartPeer
  <2>2. [plan |-> None, at |-> 1, offer |-> offer] \in Sessions
    BY PeersAssumption DEF Sessions
  <2> QED BY <1>4, <2>1, <2>2 DEF StartPeer
<1>5. CASE StopReceiver(r)
  BY <1>5 DEF StopReceiver
<1>6. CASE RouteEnds(r)
  <2>1. running[r] \in Sessions /\ UNCHANGED << desk, recv, sender, args, resolved, streams >>
    BY <1>6 DEF RouteEnds
  <2>2. \/ running' = [running EXCEPT ![r].at = @ + 1]
        \/ running' = [running EXCEPT ![r].plan = Plan(desk[r], recv[r]), ![r].at = 1]
    BY <1>6 DEF RouteEnds
  <2>3. CASE running' = [running EXCEPT ![r].at = @ + 1]
    <3>1. [running[r] EXCEPT !.at = @ + 1] \in Sessions
      BY <2>1 DEF Sessions
    <3>2. running' = [running EXCEPT ![r] = [running[r] EXCEPT !.at = @ + 1]]
      BY <2>3
    <3> QED BY <2>1, <3>1, <3>2
  <2>4. CASE running' = [running EXCEPT ![r].plan = Plan(desk[r], recv[r]), ![r].at = 1]
    <3>1. [running[r] EXCEPT !.plan = Plan(desk[r], recv[r]), !.at = 1] \in Sessions
      BY <1>2, <2>1 DEF Sessions
    <3>2. running' = [running EXCEPT ![r] = [running[r] EXCEPT !.plan = Plan(desk[r], recv[r]), !.at = 1]]
      BY <2>1, <2>4
    <3> QED BY <2>1, <3>1, <3>2
  <2> QED BY <2>2, <2>3, <2>4
<1>7. CASE DeskChanges(r)
  <2>1. PICK pc \in Desks[r] : desk' = [desk EXCEPT ![r] = pc]
    BY <1>7 DEF DeskChanges
  <2> QED BY <1>7, <2>1 DEF DeskChanges
<1> QED BY <1>3, <1>4, <1>5, <1>6, <1>7

LEMMA TargetsType ==
  ASSUME TypeOK, NEW targets \in Targets
  PROVE  targets \in Seq([host: Receivers, offer: Offers])
<1> DEFINE Pair == [host: Receivers, offer: Offers]
<1>1. Trusted \in Offers
  BY DEF Trusted, Offers
<1>2. args.hosts \in Seq(Receivers) \cup {None}
  BY SendersAssumption DEF TypeOK, SenderConfig
<1>3. CASE args.hosts # None
  <2>1. targets = [i \in DOMAIN args.hosts |-> [host |-> args.hosts[i], offer |-> Trusted]]
    BY <1>3 DEF Targets
  <2>2. \A i \in 1..Len(args.hosts) : [host |-> args.hosts[i], offer |-> Trusted] \in Pair
    BY <1>1, <1>2, <1>3
  <2>3. args.hosts \in Seq(Receivers) /\ DOMAIN args.hosts = 1..Len(args.hosts)
    BY <1>2, <1>3
  <2> HIDE DEF Pair
  <2>4. targets \in [1..Len(args.hosts) -> Pair] /\ Len(args.hosts) \in Nat
    BY <2>1, <2>2, <2>3
  <2>5. targets \in Seq(Pair)
    BY <2>4
  <2> QED BY <2>5 DEF Pair
<1>4. CASE args.hosts = None
  <2>1. PICK names \in Announced :
          targets = [i \in DOMAIN names |-> [host |-> names[i], offer |-> running[names[i]].offer]]
    BY <1>4 DEF Targets
  <2>2. PICK k \in Nat : names \in [1..k -> {r \in Receivers : running[r] # None}]
    <3>1. Cardinality({r \in Receivers : running[r] # None}) \in Nat
      BY ReceiversAssumption, FS_Subset, FS_CardinalityType
    <3>2. args.limit \in Nat
      BY SendersAssumption DEF TypeOK, SenderConfig
    <3> QED BY <2>1, <3>1, <3>2, NumbersAssumption DEF Announced
  <2>3. \A i \in 1..k : names[i] \in Receivers /\ running[names[i]].offer \in Offers
    BY <2>2 DEF TypeOK, Sessions
  <2>4. \A i \in 1..k : [host |-> names[i], offer |-> running[names[i]].offer] \in Pair
    BY <2>3
  <2> QED BY <2>1, <2>2, <2>4
<1> QED BY <1>3, <1>4

LEMMA DiscoverStep == ASSUME TypeOK, Discover PROVE TypeOK'
<1>1. PICK targets \in Targets :
        resolved' = [targets |-> targets,
          args |-> [args EXCEPT !.fec = @ /\ (args.hosts # None \/ AreFec(targets)),
                                !.profile = Profile(@, targets)]]
  BY DEF Discover
<1>2. targets \in Seq([host: Receivers, offer: Offers])
  BY TargetsType
<1>3. args \in SenderConfig
  BY SendersAssumption DEF TypeOK
<1>4. Profile(args.profile, targets) \in Profiles
  BY <1>3 DEF Profile, Profiles, SenderConfig
<1>5. (args.fec /\ (args.hosts # None \/ AreFec(targets))) \in BOOLEAN
  OBVIOUS
<1> DEFINE fec == args.fec /\ (args.hosts # None \/ AreFec(targets))
           settled == [args EXCEPT !.fec = fec, !.profile = Profile(args.profile, targets)]
<1>6. resolved' = [targets |-> targets, args |-> settled]
  BY <1>1
<1>7. settled \in SenderConfig
  <2>1. fec \in BOOLEAN
    OBVIOUS
  <2> HIDE DEF fec
  <2> QED BY <1>3, <1>4, <2>1 DEF SenderConfig
<1> HIDE DEF settled
<1> QED BY <1>2, <1>6, <1>7 DEF Discover, TypeOK

LEMMA NextInv == NegotiationInv /\ [Next]_vars => NegotiationInv'
<1> SUFFICES ASSUME NegotiationInv, [Next]_vars PROVE NegotiationInv'
  OBVIOUS
<1>1. TypeOK
  BY DEF NegotiationInv
<1>2. ASSUME NEW r \in Receivers,
             \/ StartReceiver(r) \/ StartPeer(r) \/ StopReceiver(r) \/ RouteEnds(r) \/ DeskChanges(r)
      PROVE  NegotiationInv'
  <2>1. streams' = streams
    BY <1>2 DEF StartReceiver, StartPeer, StopReceiver, RouteEnds, DeskChanges
  <2> QED BY <1>1, <1>2, <2>1, ReceiverStep DEF NegotiationInv, Fits, FrameSize
<1>3. CASE Discover
  <2>1. streams' = streams
    BY <1>3 DEF Discover
  <2> QED BY <1>1, <1>3, <2>1, DiscoverStep DEF NegotiationInv, Fits, FrameSize
<1>4. CASE Spawn
  <2> DEFINE all == DOMAIN resolved.targets
  <2>1. /\ resolved # None /\ UNCHANGED << desk, recv, running, sender, args, resolved >>
    BY <1>4 DEF Spawn
  <2>2. PICK assigned \in Assignments :
          /\ \A i \in all : PipelineTo(i, assigned[i]) # None
          /\ streams' = [i \in all |-> Stream({i}, i, assigned[i])]
    BY <1>4 DEF Spawn
  <2>3. ASSUME NEW i \in all
        PROVE  /\ streams'[i].offer \in Offers /\ streams'[i].mode \in Frames \cup {None}
               /\ Fits(streams'[i])
    <3>1. streams'[i] = Stream({i}, i, assigned[i])
      BY <2>2
    <3> QED BY <1>1, <2>1, <2>2, <3>1, BuiltStreamFits
  <2>4. DOMAIN streams' = all
    BY <2>2
  <2> HIDE DEF all
  <2> QED BY <1>1, <2>1, <2>3, <2>4 DEF NegotiationInv, TypeOK
<1>5. CASE SendDirectly
  <2>1. /\ resolved # None /\ resolved.targets # << >>
        /\ UNCHANGED << desk, recv, running, sender, args, resolved >>
    BY <1>5 DEF SendDirectly
  <2>2. PICK assigned \in Assignments :
          /\ PipelineTo(1, assigned[1]) # None
          /\ streams' = << Stream(DOMAIN resolved.targets, 1, assigned[1]) >>
    BY <1>5 DEF SendDirectly
  <2>3. 1 \in DOMAIN resolved.targets
    <3>1. resolved.targets \in Seq([host: Receivers, offer: Offers])
      BY <1>1, <2>1 DEF TypeOK
    <3> QED BY <2>1, <3>1
  <2> DEFINE stream == Stream(DOMAIN resolved.targets, 1, assigned[1])
  <2>4. stream.offer \in Offers /\ stream.mode \in Frames \cup {None} /\ Fits(stream)
    BY <1>1, <2>1, <2>2, <2>3, BuiltStreamFits
  <2> HIDE DEF stream
  <2>5. DOMAIN streams' = {1} /\ streams'[1] = stream
    BY <2>2 DEF stream
  <2> QED BY <1>1, <2>1, <2>4, <2>5 DEF NegotiationInv, TypeOK
<1>6. CASE SpawnFails
  <2>1. resolved' = None /\ UNCHANGED << desk, recv, running, sender, args, streams >>
    BY <1>6 DEF SpawnFails
  <2> QED BY <1>1, <2>1 DEF NegotiationInv, TypeOK, Fits, FrameSize
<1>7. CASE StopStreams
  <2>1. streams' = << >> /\ resolved' = None /\ UNCHANGED << desk, recv, running, sender, args >>
    BY <1>7 DEF StopStreams
  <2> QED BY <1>1, <2>1 DEF NegotiationInv, TypeOK
<1>8. CASE UNCHANGED vars
  BY <1>1, <1>8 DEF vars, NegotiationInv, TypeOK, Fits, FrameSize
<1> QED BY <1>2, <1>3, <1>4, <1>5, <1>6, <1>7, <1>8 DEF Next

THEOREM NegotiationHolds == Spec => []NegotiationInv
<1>1. Init => NegotiationInv
  BY DEF Init, NegotiationInv, TypeOK
<1> QED BY <1>1, NextInv, PTL DEF Spec

(* Every variable keeps its type, for all computers, configurations and     *)
(* display modes.                                                           *)
THEOREM NegotiationTypeCorrect == Spec => []TypeOK
<1>1. NegotiationInv => TypeOK
  BY DEF NegotiationInv
<1> QED BY <1>1, NegotiationHolds, PTL

(* The clamp of effective_video_size and fit_within keeps every frame whose *)
(* size is known within the limits its receiver announced, for every limit, *)
(* every configured size and every display mode.                            *)
THEOREM SentFramesAlwaysFit == Spec => []SentFramesFit
<1>1. NegotiationInv => SentFramesFit
  BY DEF NegotiationInv, SentFramesFit, Fits, Within
<1> QED BY <1>1, NegotiationHolds, PTL

(***************************************************************************)
(* What the receivers of a stream understand.                              *)
(***************************************************************************)
\* What was settled, all targets can do; a stream is as settled.
Settled ==
  resolved # None /\ args.hosts = None =>
    /\ resolved.args.fec => AreFec(resolved.targets)
    /\ resolved.args.profile = "high" /\ args.profile = "auto"
       => \A j \in DOMAIN resolved.targets : resolved.targets[j].offer.high

AsSettled(stream) ==
  /\ resolved # None /\ stream.to \subseteq DOMAIN resolved.targets
  /\ stream.pipeline.fec = resolved.args.fec
  /\ stream.pipeline.profile = resolved.args.profile

UnderstoodInv == Settled /\ \A i \in DOMAIN streams : AsSettled(streams[i])

LEMMA DiscoverSettles == ASSUME TypeOK, Discover PROVE Settled'
<1>1. PICK targets \in Targets :
        resolved' = [targets |-> targets,
          args |-> [args EXCEPT !.fec = @ /\ (args.hosts # None \/ AreFec(targets)),
                                !.profile = Profile(@, targets)]]
  BY DEF Discover
<1>2. args' = args /\ args \in SenderConfig
  BY SendersAssumption DEF TypeOK, Discover
<1> DEFINE fec == args.fec /\ (args.hosts # None \/ AreFec(targets))
           profile == Profile(args.profile, targets)
<1>3. resolved'.targets = targets
  BY <1>1
<1>4. resolved'.args = [args EXCEPT !.fec = fec, !.profile = profile]
  BY <1>1
<1>5. (resolved'.args.fec <=> fec) /\ resolved'.args.profile = profile
  <2>1. fec \in BOOLEAN
    OBVIOUS
  <2> HIDE DEF fec, profile
  <2> QED BY <1>2, <1>4, <2>1 DEF SenderConfig
<1>6. args.hosts = None /\ resolved'.args.fec => AreFec(targets)
  BY <1>5
<1>7. profile = "high" /\ args.profile = "auto"
        => \A j \in DOMAIN targets : targets[j].offer.high
  BY DEF Profile
<1> HIDE DEF fec, profile
<1> QED BY <1>2, <1>3, <1>5, <1>6, <1>7 DEF Settled, AreFec

LEMMA BuiltAsSettled ==
  ASSUME resolved # None, NEW i, NEW assigned, PipelineTo(i, assigned) # None,
         NEW to \in SUBSET (DOMAIN resolved.targets)
  PROVE  AsSettled(Stream(to, i, assigned))
<1> DEFINE scaled == [resolved.args EXCEPT !.size =
                        VideoSize(@, resolved.targets[i].offer.limits, assigned.mode)]
<1>1. PipelineTo(i, assigned) = SenderPipeline(sender, scaled, assigned.target)
  BY DEF PipelineTo
<1>2. scaled.fec = resolved.args.fec /\ scaled.profile = resolved.args.profile
  OBVIOUS
<1> HIDE DEF scaled
<1>3. PipelineTo(i, assigned).fec = scaled.fec
      /\ PipelineTo(i, assigned).profile = scaled.profile
  BY <1>1 DEF SenderPipeline
<1> QED BY <1>2, <1>3 DEF AsSettled, Stream

LEMMA UnderstoodStep ==
  ASSUME TypeOK, UnderstoodInv, [Next]_vars PROVE UnderstoodInv'
<1> USE DEF UnderstoodInv, AsSettled
<1>1. ASSUME UNCHANGED << args, resolved, streams >> PROVE UnderstoodInv'
  BY <1>1 DEF Settled, AreFec
<1>2. ASSUME NEW r \in Receivers,
             \/ StartReceiver(r) \/ StartPeer(r) \/ StopReceiver(r) \/ RouteEnds(r) \/ DeskChanges(r)
      PROVE  UnderstoodInv'
  BY <1>1, <1>2 DEF StartReceiver, StartPeer, StopReceiver, RouteEnds, DeskChanges
<1>3. CASE Discover
  <2>1. streams = << >> /\ streams' = streams
    BY <1>3 DEF Discover
  <2> QED BY <1>3, <2>1, DiscoverSettles
<1>4. CASE Spawn
  <2> DEFINE all == DOMAIN resolved.targets
  <2>1. resolved # None /\ UNCHANGED << args, resolved >>
    BY <1>4 DEF Spawn
  <2>2. PICK assigned \in Assignments :
          /\ \A i \in all : PipelineTo(i, assigned[i]) # None
          /\ streams' = [i \in all |-> Stream({i}, i, assigned[i])]
    BY <1>4 DEF Spawn
  <2>3. ASSUME NEW i \in all PROVE AsSettled(streams'[i])
    BY <2>1, <2>2, BuiltAsSettled
  <2>4. Settled'
    BY <2>1 DEF Settled, AreFec
  <2> QED BY <2>1, <2>2, <2>3, <2>4
<1>5. CASE SendDirectly
  <2>1. resolved # None /\ UNCHANGED << args, resolved >>
    BY <1>5 DEF SendDirectly
  <2>2. PICK assigned \in Assignments :
          /\ PipelineTo(1, assigned[1]) # None
          /\ streams' = << Stream(DOMAIN resolved.targets, 1, assigned[1]) >>
    BY <1>5 DEF SendDirectly
  <2>3. AsSettled(Stream(DOMAIN resolved.targets, 1, assigned[1]))
    BY <2>1, <2>2, BuiltAsSettled
  <2>4. Settled'
    BY <2>1 DEF Settled, AreFec
  <2> DEFINE stream == Stream(DOMAIN resolved.targets, 1, assigned[1])
  <2> HIDE DEF stream
  <2>5. DOMAIN streams' = {1} /\ streams'[1] = stream
    BY <2>2 DEF stream
  <2>6. AsSettled(stream)
    BY <2>3 DEF stream
  <2> QED BY <2>1, <2>4, <2>5, <2>6
<1>6. CASE SpawnFails
  BY <1>6 DEF SpawnFails, Settled
<1>7. CASE StopStreams
  BY <1>7 DEF StopStreams, Settled
<1>8. CASE UNCHANGED vars
  BY <1>1, <1>8 DEF vars
<1> QED BY <1>2, <1>3, <1>4, <1>5, <1>6, <1>7, <1>8 DEF Next

(* What one negotiation decides for several receivers, all of them          *)
(* understand: FEC only when every target announced it, the High profile by *)
(* itself only when every target announced that.                            *)
THEOREM StreamsAlwaysUnderstood == Spec => []StreamsAreUnderstood
<1>1. Init => UnderstoodInv
  BY DEF Init, UnderstoodInv, Settled
<1>2. TypeOK /\ UnderstoodInv /\ [Next]_vars => UnderstoodInv'
  BY UnderstoodStep
<1>3. UnderstoodInv => StreamsAreUnderstood
  BY DEF UnderstoodInv, Settled, AsSettled, AreFec, StreamsAreUnderstood
<1> QED BY <1>1, <1>2, <1>3, NegotiationTypeCorrect, PTL DEF Spec

(***************************************************************************)
(* The searches of the routes.                                             *)
(***************************************************************************)
LEMMA LeastNatural ==
  ASSUME NEW T, T \subseteq Nat, T # {}
  PROVE  \E m \in T : \A k \in T : m <= k
<1> DEFINE R == OpToRel(<, Nat)
<1>1. PICK m \in T : \A k \in T : ~(<< k, m >> \in R)
  BY WFMin, NatLessThanWellFounded
<1>2. \A k \in T : ~(k < m)
  <2> SUFFICES ASSUME NEW k \in T, k < m PROVE FALSE
    OBVIOUS
  <2>1. k \in Nat /\ m \in Nat
    OBVIOUS
  <2>2. << k, m >> \in R
    BY <2>1 DEF OpToRel
  <2> HIDE DEF R
  <2> QED BY <1>1, <2>2
<1>3. m \in Nat /\ \A k \in T : k \in Nat
  OBVIOUS
<1> HIDE DEF R
<1>4. \A k \in T : m <= k
  BY <1>2, <1>3
<1> QED BY <1>4

(* What the first element is that a search finds. *)
LEMMA FoundIsHit ==
  ASSUME NEW S, NEW s \in Seq(S), NEW hits, hits \subseteq DOMAIN s, Found(s, hits) # None
  PROVE  \E i \in hits : Found(s, hits) = s[i] /\ s[i] \in S
<1>1. hits # {} /\ Found(s, hits) = s[CHOOSE i \in hits : \A j \in hits : i <= j]
  BY DEF Found
<1>2. hits \subseteq Nat
  OBVIOUS
<1>3. \E i \in hits : \A j \in hits : i <= j
  BY <1>1, <1>2, LeastNatural
<1>4. PICK i \in hits : Found(s, hits) = s[i]
  BY <1>1, <1>3
<1>5. s[i] \in S
  OBVIOUS
<1> QED BY <1>4, <1>5

(* The GPU a receiver settles on is one of its computer's. *)
Has(pc, gpu) == \E i \in DOMAIN pc.adapters : pc.adapters[i] = gpu

LEMMA ResolvedIsThere ==
  ASSUME NEW pc, NEW selection, pc.adapters \in Seq(Adapters), Resolve(pc, selection) # None
  PROVE  Has(pc, Resolve(pc, selection))
<1> DEFINE as == pc.adapters
           A == {i \in DOMAIN as : as[i].index = selection.number}
           B == {i \in DOMAIN as : as[i].words = selection.words}
           C == {i \in DOMAIN as : selection.words \subseteq as[i].words}
<1>1. Resolve(pc, selection) = Or(Found(as, A), Or(Found(as, B), Found(as, C)))
  BY DEF Resolve, First
<1>2. \A hits \in SUBSET DOMAIN as : Found(as, hits) # None => Has(pc, Found(as, hits))
  BY FoundIsHit DEF Has
<1>3. A \subseteq DOMAIN as /\ B \subseteq DOMAIN as /\ C \subseteq DOMAIN as
  OBVIOUS
<1> HIDE DEF A, B, C
<1> QED BY <1>1, <1>2, <1>3 DEF Or

LEMMA AdapterOfIsThere ==
  ASSUME NEW pc, NEW screen, pc.adapters \in Seq(Adapters), AdapterOf(pc, screen) # None
  PROVE  Has(pc, AdapterOf(pc, screen))
<1> DEFINE as == pc.adapters
           A == {i \in DOMAIN as : as[i].luid = screen.adapter}
<1>1. AdapterOf(pc, screen) = Found(as, A)
  BY DEF AdapterOf, First
<1>2. A \subseteq DOMAIN as
  OBVIOUS
<1> HIDE DEF A
<1> QED BY <1>1, <1>2, FoundIsHit DEF Has

LEMMA ReceiverGpuIsThere ==
  ASSUME NEW pc, NEW selection, pc.adapters \in Seq(Adapters),
         ResolveReceiver(pc, selection) # None
  PROVE  Has(pc, ResolveReceiver(pc, selection))
<1>1. CASE selection # None
  BY <1>1, ResolvedIsThere DEF ResolveReceiver
<1>2. CASE selection = None
  <2>1. PICK screen : ResolveReceiver(pc, selection) = AdapterOf(pc, screen)
    BY <1>2 DEF ResolveReceiver
  <2> QED BY <2>1, AdapterOfIsThere
<1> QED BY <1>1, <1>2

(***************************************************************************)
(* Decoders.                                                               *)
(***************************************************************************)
(* A GPU decoder runs on the GPU; one that does not leaves its frames in no *)
(* GPU memory.                                                              *)
OnGpu(decoder, gpu) ==
  decoder # None =>
    decoder.device = gpu.luid \/ decoder.memory \in {"system", "negotiated"}

LEMMA OrOnGpu ==
  ASSUME NEW a, NEW b, NEW gpu, OnGpu(a, gpu), OnGpu(b, gpu)
  PROVE  OnGpu(Or(a, b), gpu)
BY DEF Or

Equipped(pc) ==
  /\ pc.adapters \in Seq(Adapters)
  /\ \A family \in GpuFamilies : pc.decoders[family] \in Seq(GpuDecoders(pc, family))

LEMMA OpenedOnGpu ==
  ASSUME NEW e, NEW preferred, NEW gpu, e.device = gpu.luid
  PROVE  OnGpu(Opened(e, preferred), gpu)
<1>1. Opened(e, preferred).device = gpu.luid
  BY DEF Opened
<1> QED BY <1>1 DEF OnGpu

LEMMA FamilyOnGpu ==
  ASSUME NEW pc, Equipped(pc), NEW family \in GpuFamilies, NEW gpu, gpu.luid \in Nat, NEW preferred
  PROVE  OnGpu(FamilyDecoder(pc, family, gpu, preferred), gpu)
<1> DEFINE elements == pc.decoders[family]
           hits == {i \in DOMAIN elements : elements[i].luid = gpu.luid}
           e == Found(elements, hits)
<1>1. FamilyDecoder(pc, family, gpu, preferred) = IF e = None THEN None ELSE Opened(e, preferred)
  BY DEF FamilyDecoder, First
<1>2. CASE e = None
  BY <1>1, <1>2 DEF OnGpu
<1>3. CASE e # None
  <2>1. elements \in Seq(GpuDecoders(pc, family)) /\ hits \subseteq DOMAIN elements
    BY DEF Equipped
  <2>2. PICK i \in hits : e = elements[i] /\ elements[i] \in GpuDecoders(pc, family)
    <3> HIDE DEF elements, hits
    <3> QED BY <1>3, <2>1, FoundIsHit DEF e
  <2>3. e.luid = gpu.luid
    <3>1. elements[i].luid = gpu.luid
      OBVIOUS
    <3> QED BY <2>2, <3>1
  <2>4. e.luid # None => e.device = e.luid
    BY <2>2 DEF GpuDecoders
  <2>5. e.device = gpu.luid
    BY <2>3, <2>4, NumbersAssumption
  <2> HIDE DEF e
  <2> QED BY <1>1, <1>3, <2>5, OpenedOnGpu
<1> QED BY <1>2, <1>3

LEMMA BaseElement ==
  ASSUME NEW pc, Equipped(pc), NEW family \in GpuFamilies, Base(pc, family) # None
  PROVE  Base(pc, family) \in GpuDecoders(pc, family)
<1> DEFINE elements == pc.decoders[family]
<1>1. elements \in Seq(GpuDecoders(pc, family))
  BY DEF Equipped
<1>2. elements # << >> /\ Base(pc, family) = elements[1]
  BY DEF Base
<1> HIDE DEF elements
<1> QED BY <1>1, <1>2

(* The base decoder of a computer with one GPU runs on it. *)
LEMMA AloneOnGpu ==
  ASSUME NEW pc, Equipped(pc), NEW gpu, OnlyAdapter(pc, gpu)
  PROVE  OnGpu(BaseD3d11(pc), gpu)
<1>1. SUFFICES ASSUME Base(pc, "d3d11") # None PROVE OnGpu(BaseD3d11(pc), gpu)
  BY DEF BaseD3d11, OnGpu
<1>2. Base(pc, "d3d11") \in GpuDecoders(pc, "d3d11")
  BY <1>1, BaseElement DEF GpuFamilies
<1>3. PICK i \in DOMAIN pc.adapters : pc.adapters[i].luid = Base(pc, "d3d11").device
  BY <1>2 DEF GpuDecoders
<1>4. pc.adapters[1].luid = gpu.luid /\ i = 1
  BY DEF OnlyAdapter, Equipped
<1>5. BaseD3d11(pc).device = Base(pc, "d3d11").device
  BY <1>1 DEF BaseD3d11, Opened
<1> QED BY <1>3, <1>4, <1>5 DEF OnGpu

VendorOf(family) == IF family = "nvh264" THEN "nvidia" ELSE "intel"

(* So does the base decoder of a vendor with one GPU. *)
LEMMA VendorOnGpu ==
  ASSUME NEW pc, Equipped(pc), NEW family \in {"nvh264", "qsvh264"}, NEW gpu,
         gpu.luid \in Nat, gpu.vendor = VendorOf(family)
  PROVE  OnGpu(VendorDecoder(pc, family, gpu), gpu)
<1> DEFINE base == IF OnlyOfVendor(pc, gpu) /\ Base(pc, family) # None
                   THEN Opened(Base(pc, family), "D3D11") ELSE None
<1>1. family \in GpuFamilies
  BY DEF GpuFamilies
<1>2. OnGpu(base, gpu)
  <2>1. SUFFICES ASSUME OnlyOfVendor(pc, gpu), Base(pc, family) # None
                 PROVE  Base(pc, family).device = gpu.luid
    BY OpenedOnGpu DEF OnGpu
  <2>2. Base(pc, family) \in GpuDecoders(pc, family)
    BY <1>1, <2>1, BaseElement
  <2>3. PICK i \in DOMAIN pc.adapters : /\ pc.adapters[i].luid = Base(pc, family).device
                                       /\ pc.adapters[i].vendor = gpu.vendor
    BY <2>2 DEF GpuDecoders, VendorOf
  <2> DEFINE same == {j \in DOMAIN pc.adapters : pc.adapters[j].vendor = gpu.vendor}
  <2>4. PICK k \in same : same = {k} /\ pc.adapters[k].luid = gpu.luid
    BY <2>1 DEF OnlyOfVendor
  <2>5. i \in same
    BY <2>3
  <2> QED BY <2>3, <2>4, <2>5
<1>3. OnGpu(FamilyDecoder(pc, family, gpu, "D3D11"), gpu)
  BY <1>1, FamilyOnGpu
<1>4. VendorDecoder(pc, family, gpu) = Or(FamilyDecoder(pc, family, gpu, "D3D11"), base)
  BY DEF VendorDecoder
<1> HIDE DEF base
<1> QED BY <1>2, <1>3, <1>4, OrOnGpu

LEMMA CpuOnGpu ==
  ASSUME NEW memory \in {"system", "negotiated"}, NEW gpu
  PROVE  OnGpu(OnCpu(memory), gpu)
BY DEF OnGpu, OnCpu

(* Whatever decoder is asked for, the one selected for a GPU runs on it or  *)
(* leaves its frames in no GPU memory.                                      *)
LEMMA SelectedOnGpu ==
  ASSUME NEW pc, Equipped(pc), NEW gpu, gpu # None, gpu.luid \in Nat,
         NEW requested \in {"auto", "software", "avdec", "d3d11"}
  PROVE  OnGpu(SelectDecoder(pc, requested, gpu), gpu)
<1>1. OnGpu(None, gpu)
  BY DEF OnGpu
<1>2. OnGpu(FamilyDecoder(pc, "d3d11", gpu, "D3D11"), gpu)
  BY FamilyOnGpu DEF GpuFamilies
<1> DEFINE alone == IF OnlyAdapter(pc, gpu) THEN BaseD3d11(pc) ELSE None
<1>3. OnGpu(alone, gpu)
  BY <1>1, AloneOnGpu
<1>4. CASE requested = "auto"
  <2> DEFINE vendors == IF gpu.vendor = "nvidia" THEN VendorDecoder(pc, "nvh264", gpu)
                        ELSE IF gpu.vendor = "intel" THEN VendorDecoder(pc, "qsvh264", gpu)
                        ELSE None
             decodebin == IF pc.decodebin THEN OnCpu("system") ELSE None
  <2>1. OnGpu(vendors, gpu)
    BY <1>1, VendorOnGpu DEF VendorOf
  <2>2. OnGpu(decodebin, gpu)
    BY <1>1, CpuOnGpu
  <2>3. SelectDecoder(pc, requested, gpu)
          = Or(FamilyDecoder(pc, "d3d11", gpu, "D3D11"), Or(alone, Or(vendors, decodebin)))
    BY <1>4 DEF SelectDecoder, AutoDecoder
  <2> HIDE DEF alone, vendors, decodebin
  <2> QED BY <1>2, <1>3, <2>1, <2>2, <2>3, OrOnGpu
<1>5. CASE requested = "software"
  BY <1>1, <1>5, CpuOnGpu DEF SelectDecoder, SoftwareDecoder
<1>6. CASE requested = "avdec"
  BY <1>1, <1>6, CpuOnGpu DEF SelectDecoder
<1>7. CASE requested = "d3d11"
  <2>1. SelectDecoder(pc, requested, gpu) = Or(FamilyDecoder(pc, "d3d11", gpu, "D3D11"), alone)
    BY <1>7 DEF SelectDecoder
  <2> HIDE DEF alone
  <2> QED BY <1>2, <1>3, <2>1, OrOnGpu
<1> QED BY <1>4, <1>5, <1>6, <1>7

(***************************************************************************)
(* Routes.                                                                 *)
(***************************************************************************)
Pinned == {"D3D11", "D3D12"}
(* A route whose frames are pinned to GPU memory decodes and draws on one.  *)
OneGpu(route, gpu) ==
  OutputMemory(route) \in Pinned =>
    route.decoder.device = gpu.luid /\ route.sink.adapter = gpu.index

LEMMA PairedOnOneGpu ==
  ASSUME NEW decoder, NEW sink, NEW gpu, OnGpu(decoder, gpu),
         sink # None /\ sink.kind \in {"d3d11videosink", "d3d12videosink"}
           => sink.adapter = gpu.index,
         Paired(decoder, sink) # None
  PROVE  OneGpu(Paired(decoder, sink), gpu)
<1> DEFINE route == Paired(decoder, sink)
<1>1. decoder # None /\ sink # None /\ route.decoder = decoder /\ route.sink = sink
  BY DEF Paired
<1> HIDE DEF route
<1>2. OutputMemory(route) \in Pinned =>
        decoder.memory \notin {"system", "negotiated"} /\ sink.kind \in {"d3d11videosink", "d3d12videosink"}
  BY <1>1 DEF OutputMemory, Pinned
<1> QED BY <1>1, <1>2 DEF OneGpu, OnGpu, route

LEMMA SinkOnGpu ==
  ASSUME NEW pc, NEW requested, NEW gpu, gpu # None, SelectSink(pc, requested, gpu) # None,
         SelectSink(pc, requested, gpu).kind \in {"d3d11videosink", "d3d12videosink"}
  PROVE  SelectSink(pc, requested, gpu).adapter = gpu.index
BY DEF SelectSink, Sink

LEMMA RouteOnOneGpu ==
  ASSUME NEW pc, Equipped(pc), NEW a \in RecvArgs, NEW gpu, gpu # None, gpu.luid \in Nat,
         NEW allow \in BOOLEAN, SelectRoute(pc, a, gpu, allow) # None
  PROVE  OneGpu(SelectRoute(pc, a, gpu, allow), gpu)
<1> DEFINE modern == /\ allow /\ a.decoder = "auto" /\ a.sink = "auto"
                     /\ gpu # None /\ gpu.vendor = "intel" /\ "d3d12videosink" \in pc.sinks
           new == IF modern THEN Paired(D3d12Decoder(pc, gpu), Sink("d3d12videosink", gpu)) ELSE None
           old == Paired(SelectDecoder(pc, a.decoder, gpu), SelectSink(pc, a.sink, gpu))
<1>1. SelectRoute(pc, a, gpu, allow) = Or(new, old)
  BY DEF SelectRoute
<1>2. new # None => OneGpu(new, gpu)
  <2>1. OnGpu(D3d12Decoder(pc, gpu), gpu)
    <3>1. OnGpu(FamilyDecoder(pc, "d3d12", gpu, "D3D12"), gpu)
      BY FamilyOnGpu DEF GpuFamilies
    <3> QED BY <3>1 DEF D3d12Decoder, OnGpu
  <2>2. Sink("d3d12videosink", gpu).adapter = gpu.index
    BY DEF Sink
  <2> QED BY <2>1, <2>2, PairedOnOneGpu
<1>3. old # None => OneGpu(old, gpu)
  <2>1. OnGpu(SelectDecoder(pc, a.decoder, gpu), gpu)
    BY PluginsAssumption, SelectedOnGpu
  <2> QED BY <2>1, SinkOnGpu, PairedOnOneGpu
<1> HIDE DEF new, old
<1> QED BY <1>1, <1>2, <1>3 DEF Or

LEMMA SoftwareOnOneGpu ==
  ASSUME NEW pc, NEW a, NEW gpu, gpu # None, SoftwareRoute(pc, a, gpu) # None
  PROVE  OneGpu(SoftwareRoute(pc, a, gpu), gpu)
<1>1. SoftwareRoute(pc, a, gpu) = Paired(SoftwareDecoder(pc), SelectSink(pc, a.sink, gpu))
  BY DEF SoftwareRoute
<1>2. OnGpu(SoftwareDecoder(pc), gpu)
  BY CpuOnGpu DEF SoftwareDecoder, OnGpu
<1> QED BY <1>1, <1>2, SinkOnGpu, PairedOnOneGpu

PlanOnOneGpu(plan) ==
  \A i \in DOMAIN plan.routes : plan.gpu # None => OneGpu(plan.routes[i], plan.gpu)

(* Every plan a receiver makes keeps the textures of each of its routes on  *)
(* the GPU it settled on.                                                   *)
LEMMA PlansOnOneGpu ==
  ASSUME NEW pc, Equipped(pc), NEW a \in RecvArgs, Plan(pc, a) # None
  PROVE  PlanOnOneGpu(Plan(pc, a))
<1> DEFINE gpu == ResolveReceiver(pc, a.gpu)
           primary == SelectRoute(pc, a, gpu, TRUE)
           older == IF OutputMemory(primary) = "D3D12" THEN SelectRoute(pc, a, gpu, FALSE) ELSE None
           soft == SoftwareRoute(pc, a, gpu)
           routes == << primary >> \o Optional(older) \o Optional(soft)
<1>1. primary # None /\ Plan(pc, a).gpu = gpu /\ Plan(pc, a).routes = routes
  BY DEF Plan
<1>2. SUFFICES ASSUME gpu # None, NEW i \in DOMAIN routes PROVE OneGpu(routes[i], gpu)
  BY <1>1 DEF PlanOnOneGpu
<1>3. gpu.luid \in Nat
  <2>1. Has(pc, gpu)
    BY <1>2, ReceiverGpuIsThere DEF Equipped
  <2>2. gpu \in Adapters
    BY <2>1 DEF Equipped, Has
  <2> QED BY <2>2 DEF Adapters
<1>4. OneGpu(primary, gpu)
  BY <1>1, <1>2, <1>3, RouteOnOneGpu
<1>5. older # None => OneGpu(older, gpu)
  BY <1>2, <1>3, RouteOnOneGpu
<1>6. soft # None => OneGpu(soft, gpu)
  BY <1>2, SoftwareOnOneGpu
<1>7. /\ Optional(older) = << >> \/ (older # None /\ Optional(older) = << older >>)
      /\ Optional(soft) = << >> \/ (soft # None /\ Optional(soft) = << soft >>)
  BY DEF Optional
<1> HIDE DEF gpu, primary, older, soft
<1>8. \/ routes[i] = primary
      \/ routes[i] = older /\ older # None
      \/ routes[i] = soft /\ soft # None
  <2> DEFINE second == Optional(older)
             third == Optional(soft)
  <2>1. i \in DOMAIN (<< primary >> \o second \o third)
        /\ routes[i] = (<< primary >> \o second \o third)[i]
    BY <1>2
  <2>2. /\ second = << >> \/ (older # None /\ second = << older >>)
        /\ third = << >> \/ (soft # None /\ third = << soft >>)
    BY <1>7
  <2> HIDE DEF second, third, routes
  <2>3. CASE second = << >> /\ third = << >>
    BY <2>1, <2>3
  <2>4. CASE second = << older >> /\ third = << >> /\ older # None
    BY <2>1, <2>4
  <2>5. CASE second = << >> /\ third = << soft >> /\ soft # None
    BY <2>1, <2>5
  <2>6. CASE second = << older >> /\ third = << soft >> /\ older # None /\ soft # None
    BY <2>1, <2>6
  <2> QED BY <2>2, <2>3, <2>4, <2>5, <2>6
<1> QED BY <1>4, <1>5, <1>6, <1>8

(***************************************************************************)
(* Senders.                                                                *)
(***************************************************************************)
LEMMA EncoderFound ==
  ASSUME NEW pc \in Senders, NEW family \in Encoders, NEW gpu,
         EncoderOnGpu(pc, family, gpu) # None
  PROVE  EncoderOnGpu(pc, family, gpu) \in GpuEncoders
<1> DEFINE elements == pc.encoders[family]
           hits == {i \in DOMAIN elements : elements[i].luid = gpu.luid}
           bound == IF gpu = None THEN None ELSE Found(elements, hits)
<1>1. elements \in Seq(GpuEncoders)
  BY PluginsAssumption
<1>2. EncoderOnGpu(pc, family, gpu) = Or(bound, elements[1]) /\ elements # << >>
  BY DEF EncoderOnGpu, First
<1>3. bound # None => bound \in GpuEncoders
  <2>1. hits \subseteq DOMAIN elements
    OBVIOUS
  <2> HIDE DEF elements, hits
  <2> QED BY <1>1, <2>1, FoundIsHit
<1> HIDE DEF elements, bound
<1>4. elements[1] \in GpuEncoders
  BY <1>1, <1>2
<1> QED BY <1>2, <1>3, <1>4 DEF Or

LEMMA PreferredAreEncoders ==
  ASSUME NEW vendor
  PROVE  PreferredFor(vendor) \in Seq(Encoders)
<1>1. /\ << "nvidia", "mediafoundation" >> \in Seq(Encoders)
      /\ << "amf", "mediafoundation" >> \in Seq(Encoders)
      /\ << "quicksync", "mediafoundation" >> \in Seq(Encoders)
      /\ << "nvidia", "quicksync", "amf", "mediafoundation" >> \in Seq(Encoders)
  BY DEF Encoders
<1> QED BY <1>1 DEF PreferredFor

LEMMA EncoderSelected ==
  ASSUME NEW pc \in Senders, NEW a, a.encoder \in Encoders \cup {"auto"}, NEW gpu,
         SelectEncoder(pc, a, gpu) # None
  PROVE  SelectEncoder(pc, a, gpu) \in GpuEncoders
<1>1. CASE a.encoder # "auto"
  BY <1>1, EncoderFound DEF SelectEncoder
<1>2. CASE a.encoder = "auto"
  <2> DEFINE families == PreferredFor(IF gpu = None THEN "other" ELSE gpu.vendor)
             hits == {i \in DOMAIN families : EncoderOnGpu(pc, families[i], gpu) # None}
             family == Found(families, hits)
  <2>1. SelectEncoder(pc, a, gpu) =
          IF family # None THEN EncoderOnGpu(pc, family, gpu)
          ELSE IF a.software THEN EncoderOnGpu(pc, "x264", None) ELSE None
    BY <1>2 DEF SelectEncoder, FirstEncoder, First
  <2>2. families \in Seq(Encoders)
    BY PreferredAreEncoders
  <2>3. family # None => family \in Encoders
    <3>1. hits \subseteq DOMAIN families
      OBVIOUS
    <3> HIDE DEF families, hits
    <3> QED BY <2>2, <3>1, FoundIsHit
  <2>4. "x264" \in Encoders
    BY DEF Encoders
  <2> HIDE DEF family
  <2> QED BY <2>1, <2>3, <2>4, EncoderFound
<1> QED BY <1>1, <1>2

(* Frames stay in D3D11 memory only when the encoder runs where they are    *)
(* captured.                                                                *)
CaptureOnOneGpu(pipeline) ==
  pipeline.memory = "D3D11" =>
    pipeline.capture # None /\ pipeline.encoder.device = pipeline.capture.luid

LEMMA PipelineOnOneGpu ==
  ASSUME NEW pc \in Senders, NEW a, a.encoder \in Encoders \cup {"auto"}, NEW target,
         SenderPipeline(pc, a, target) # None
  PROVE  CaptureOnOneGpu(SenderPipeline(pc, a, target))
<1> DEFINE capture == CaptureAdapter(pc, a, target)
           encoder == SelectEncoder(pc, a, SenderGpu(pc, a, capture))
           pipeline == SenderPipeline(pc, a, target)
<1>1. /\ pipeline.capture = capture /\ pipeline.encoder = encoder /\ encoder # None
      /\ pipeline.memory = FrameMemory(a, encoder, capture)
  BY DEF SenderPipeline
<1>2. encoder \in GpuEncoders
  BY <1>1, EncoderSelected
<1> HIDE DEF encoder, capture, pipeline
<1>3. ASSUME FrameMemory(a, encoder, capture) = "D3D11"
      PROVE  capture # None /\ encoder.device = capture.luid
  BY <1>2, <1>3 DEF FrameMemory, SameGpu, GpuEncoders
<1> QED BY <1>1, <1>3 DEF CaptureOnOneGpu, pipeline

PipelineInv == \A i \in DOMAIN streams : CaptureOnOneGpu(streams[i].pipeline)

LEMMA BuiltOnOneGpu ==
  ASSUME TypeOK, resolved # None, NEW i \in DOMAIN resolved.targets, NEW assigned,
         PipelineTo(i, assigned) # None, NEW to
  PROVE  CaptureOnOneGpu(Stream(to, i, assigned).pipeline)
<1> DEFINE scaled == [resolved.args EXCEPT !.size =
                        VideoSize(@, resolved.targets[i].offer.limits, assigned.mode)]
<1>1. PipelineTo(i, assigned) = SenderPipeline(sender, scaled, assigned.target)
  BY DEF PipelineTo
<1>2. scaled.encoder \in Encoders \cup {"auto"} /\ sender \in Senders
  <2>1. resolved.args \in SenderConfig
    BY DEF TypeOK
  <2> QED BY <2>1 DEF TypeOK, SenderConfig
<1> HIDE DEF scaled
<1>3. CaptureOnOneGpu(PipelineTo(i, assigned))
  BY <1>1, <1>2, PipelineOnOneGpu
<1> QED BY <1>3 DEF Stream

LEMMA PipelineStep == ASSUME TypeOK, PipelineInv, [Next]_vars PROVE PipelineInv'
<1> USE DEF PipelineInv
<1>1. CASE streams' = streams
  BY <1>1
<1>2. CASE streams' = << >>
  BY <1>2
<1>3. CASE Spawn
  <2> DEFINE all == DOMAIN resolved.targets
  <2>1. resolved # None
    BY <1>3 DEF Spawn
  <2>2. PICK assigned \in Assignments :
          /\ \A i \in all : PipelineTo(i, assigned[i]) # None
          /\ streams' = [i \in all |-> Stream({i}, i, assigned[i])]
    BY <1>3 DEF Spawn
  <2>3. \A i \in all : CaptureOnOneGpu(Stream({i}, i, assigned[i]).pipeline)
    BY <2>1, <2>2, BuiltOnOneGpu
  <2> HIDE DEF all
  <2> QED BY <2>2, <2>3
<1>4. CASE SendDirectly
  <2>1. resolved # None /\ resolved.targets # << >>
    BY <1>4 DEF SendDirectly
  <2>2. PICK assigned \in Assignments :
          /\ PipelineTo(1, assigned[1]) # None
          /\ streams' = << Stream(DOMAIN resolved.targets, 1, assigned[1]) >>
    BY <1>4 DEF SendDirectly
  <2>3. 1 \in DOMAIN resolved.targets
    <3>1. resolved.targets \in Seq([host: Receivers, offer: Offers])
      BY <2>1 DEF TypeOK
    <3> QED BY <2>1, <3>1
  <2> DEFINE stream == Stream(DOMAIN resolved.targets, 1, assigned[1])
  <2>4. CaptureOnOneGpu(stream.pipeline)
    BY <2>1, <2>2, <2>3, BuiltOnOneGpu
  <2> HIDE DEF stream
  <2>5. DOMAIN streams' = {1} /\ streams'[1] = stream
    BY <2>2 DEF stream
  <2> QED BY <2>4, <2>5
<1>5. streams' = streams \/ streams' = << >> \/ Spawn \/ SendDirectly
  BY DEF Next, vars, StartReceiver, StartPeer, StopReceiver, RouteEnds, DeskChanges,
         Discover, SpawnFails, StopStreams
<1> QED BY <1>1, <1>2, <1>3, <1>4, <1>5

LEMMA RunningOnOneGpu ==
  ASSUME TypeOK, NEW r \in Receivers, running[r] # None, running[r].plan # None
  PROVE  PlanOnOneGpu(running[r].plan)
<1>1. running[r].plan \in Plans
  BY DEF TypeOK, Sessions
<1>2. PICK pc \in UNION {Desks[q] : q \in Receivers} :
        running[r].plan \in {Plan(pc, a) : a \in RecvArgs}
  BY <1>1 DEF Plans
<1>3. PICK a \in RecvArgs : running[r].plan = Plan(pc, a)
  BY <1>2
<1>4. Equipped(pc)
  BY PluginsAssumption DEF Equipped
<1> QED BY <1>3, <1>4, PlansOnOneGpu

(* A texture never crosses GPUs, whatever adapters, elements, selections    *)
(* and fallback routes there are: at a receiver by what any plan holds, at a *)
(* sender by how each running pipeline was built.                           *)
THEOREM TexturesAlwaysStayOnOneGpu == Spec => []TexturesStayOnOneGpu
<1>1. Init => PipelineInv
  BY DEF Init, PipelineInv
<1>2. TypeOK /\ PipelineInv /\ [Next]_vars => PipelineInv'
  BY PipelineStep
<1>3. TypeOK /\ PipelineInv => TexturesStayOnOneGpu
  BY RunningOnOneGpu DEF PipelineInv, TexturesStayOnOneGpu, CaptureOnOneGpu, PlanOnOneGpu,
     OneGpu, Pinned
<1> QED BY <1>1, <1>2, <1>3, NegotiationTypeCorrect, PTL DEF Spec

=============================================================================
