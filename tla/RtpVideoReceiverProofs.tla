----------------------- MODULE RtpVideoReceiverProofs -----------------------
(***************************************************************************)
(* Proofs about RtpVideoReceiver, for any streams, any queue and any       *)
(* number of sessions: what lies in the queue belongs together, the codec  *)
(* gets a picture only on top of its key picture, and nothing of a session *)
(* is left behind when it has been stopped.                                *)
(***************************************************************************)
EXTENDS RtpVideoReceiver, TLAPS

\* Where the receive thread holds a NAL on its way to the queue.
Keeps == {"offer", "full", "cleared"}

\* Where the threads are while the UI thread waits for them, and after.
Stopped ==
  /\ ui \in {"joinDecode", "open"} => recv = "off"
  /\ ui = "open" => decode = "off" /\ codec = "none" /\ queue = <<>>
  /\ (ui # "idle" /\ goal = "start") \/ ui = "open" => session < MaxSessions /\ requested

\* What the receive thread holds is of this session, and of the selected stream
\* unless that is just being replaced; then nothing of the old one is left.
Held ==
  /\ recv \in Keeps \cup {"takeover"} =>
       incoming.stream \in Streams /\ incoming.session = session /\ ~incoming.mixed
  /\ recv \in Keeps => incoming.stream = locked /\ incoming.type \in Types
  /\ recv \in {"takeover", "cleared"} => queue = <<>> /\ orphaned
  /\ recv = "takeover" => partial = {}
  /\ partial \subseteq {<<locked, session>>}
  /\ partial # {} => locked # NoStream
  /\ locked # NoStream => locked \in Streams

\* What lies in the queue is of the selected stream and of this session.
Queued ==
  /\ \A i \in DOMAIN queue :
       /\ queue[i].stream = locked /\ queue[i].stream \in Streams
       /\ queue[i].session = session /\ ~queue[i].mixed
  /\ decode = "feed" => hand.session = session

\* Pictures behind a key picture build on it, and so does the next to come.
Follows ==
  /\ \A k, i \in DOMAIN queue :
       k < i /\ queue[k].type = "key" /\ queue[i].type = "picture" => ~queue[i].orphan
  /\ \A k \in DOMAIN queue : queue[k].type = "key" => ~orphaned
  /\ decode = "feed" /\ hand.type = "key" /\ ~late =>
       /\ hand.stream = locked /\ locked # NoStream /\ ~orphaned
       /\ \A i \in DOMAIN queue : queue[i].type = "picture" => ~queue[i].orphan

\* A codec that is fed pictures has the key picture all that wait build on.
Decodable ==
  codec = "working" /\ ~awaiting /\ ~unsound =>
    /\ keyStream = locked /\ locked # NoStream
    /\ ~orphaned \/ recv \in {"cleared", "takeover"}
    /\ decode = "feed" /\ hand.type = "picture" => ~hand.orphan /\ hand.stream = keyStream
    /\ \A i \in DOMAIN queue : queue[i].type = "picture" => ~queue[i].orphan

ReceiverInv ==
  /\ TypeOK /\ Stopped /\ NothingLeftBehind
  /\ Held /\ Queued /\ Follows /\ Decodable

-----------------------------------------------------------------------------
(* Values.                                                                  *)

LEMMA Appended ==
  ASSUME NEW S, NEW q \in Seq(S), NEW x \in S
  PROVE  /\ Append(q, x) \in Seq(S) /\ Len(Append(q, x)) = Len(q) + 1
         /\ DOMAIN Append(q, x) = 1..Len(q) + 1 /\ DOMAIN q = 1..Len(q)
         /\ Append(q, x)[Len(q) + 1] = x
         /\ \A i \in 1..Len(q) : Append(q, x)[i] = q[i]
OBVIOUS

LEMMA Polled ==
  ASSUME NEW S, NEW q \in Seq(S), q # <<>>
  PROVE  /\ Tail(q) \in Seq(S) /\ Len(Tail(q)) = Len(q) - 1
         /\ DOMAIN Tail(q) = 1..Len(q) - 1 /\ DOMAIN q = 1..Len(q)
         /\ Head(q) = q[1] /\ Head(q) \in S /\ 1 \in DOMAIN q
         /\ \A i \in 1..Len(q) - 1 : Tail(q)[i] = q[i + 1] /\ i + 1 \in DOMAIN q
OBVIOUS

LEMMA EmptyQueue == /\ <<>> \in Seq(Units) /\ Len(<<>>) = 0 /\ DOMAIN <<>> = {}
OBVIOUS

LEMMA UnitType ==
  ASSUME TypeOK, NEW s \in Streams, NEW type \in Packets \cup {"key"}
  PROVE  /\ Unit(s, type) \in Units /\ Unit(s, type).stream = s /\ Unit(s, type).type = type
         /\ Unit(s, type).session = session /\ ~Unit(s, type).mixed
BY DEF TypeOK, FlagsOK, PlacesOK, Unit, Units

(* A unit that was received has a stream; Nothing has none.                 *)
Received == [type : Packets \cup {"key"}, stream : Streams, session : Sessions, mixed : BOOLEAN,
             orphan : BOOLEAN]

LEMMA ReceivedFields ==
  ASSUME NEW u \in Received
  PROVE  /\ u.type \in Packets \cup {"key"} /\ u.stream \in Streams
         /\ u.session \in Sessions /\ u.mixed \in BOOLEAN /\ u.orphan \in BOOLEAN
BY DEF Received

LEMMA ReceivedOrNothing ==
  ASSUME NEW u \in Units
  PROVE  u \in Received \/ u = Nothing
BY DEF Units, Received

LEMMA NothingFields ==
  /\ Nothing \in Units /\ Nothing.type = "params" /\ Nothing.stream = NoStream
  /\ Nothing.session \in Sessions /\ Nothing.mixed \in BOOLEAN /\ Nothing.orphan \in BOOLEAN
BY BoundsAssumption DEF Nothing, Sessions, Units

LEMMA UnitFields ==
  ASSUME NEW u \in Units
  PROVE  /\ u.type \in Packets \cup {"key", "params"} /\ u.stream \in Streams \cup {NoStream}
         /\ u.session \in Sessions /\ u.mixed \in BOOLEAN /\ u.orphan \in BOOLEAN
         /\ u.stream \in Streams => u.type \in Packets \cup {"key"}
<1>1. CASE u \in Received
  BY <1>1, ReceivedFields
<1>2. CASE u = Nothing
  BY <1>2, NothingFields, StreamsAssumption
<1> QED BY <1>1, <1>2, ReceivedOrNothing

(* What is queued is what the receive thread holds, marked.                 *)
Marked == [incoming EXCEPT !.orphan = orphaned /\ incoming.type = "picture"]

LEMMA MarkedType ==
  ASSUME incoming \in Received, orphaned \in BOOLEAN
  PROVE  /\ Marked \in Units /\ Marked.type = incoming.type /\ Marked.stream = incoming.stream
         /\ Marked.session = incoming.session /\ (Marked.mixed <=> incoming.mixed)
         /\ (Marked.orphan <=> orphaned /\ incoming.type = "picture")
<1> DEFINE orphan == orphaned /\ incoming.type = "picture"
<1>1. orphan \in BOOLEAN
  OBVIOUS
<1>2. Marked = [incoming EXCEPT !.orphan = orphan]
  BY DEF Marked
<1> HIDE DEF orphan
<1>3. Marked \in Received
  BY <1>1, <1>2 DEF Received
<1>4. /\ Marked.type = incoming.type /\ Marked.stream = incoming.stream
      /\ Marked.session = incoming.session /\ Marked.mixed = incoming.mixed
      /\ Marked.orphan = orphan
  BY <1>2 DEF Received
<1>5. Marked \in Units
  BY <1>3 DEF Received, Units
<1> QED BY <1>4, <1>5 DEF orphan

(* depacketizeAndQueue keeps or hands on what is of stream s.               *)
LEMMA Depacketized ==
  ASSUME TypeOK, NEW s \in Streams, NEW type \in Packets \cup {"key"}, Depacketize(s, type),
         partial \subseteq {<<s, session>>}
  PROVE  /\ incoming' \in Units /\ partial' \subseteq {<<s, session>>}
         /\ partial' \subseteq Streams \X Sessions
         /\ recv' \in {"offer", "receive", "off"}
         /\ recv' = "offer" =>
              /\ incoming'.stream = s /\ incoming'.session = session /\ ~incoming'.mixed
              /\ incoming'.type \in Types
<1>1. session \in Sessions
  BY DEF TypeOK, FlagsOK, PlacesOK
<1>2. CASE type \in Types /\ incoming' = Unit(s, type) /\ recv' = "offer" /\ UNCHANGED partial
  BY <1>1, <1>2, UnitType DEF TypeOK, FlagsOK, PlacesOK
<1>3. CASE type = "head" /\ partial' = {<<s, session>>} /\ recv' = Loop("receive") /\ incoming' = Nothing
  BY <1>1, <1>3, NothingFields DEF Loop
<1>4. CASE type = "tail" /\ partial # {} /\ partial' = {}
  <2>1. CASE recv' = Loop("receive") /\ incoming' = Nothing
    BY <1>4, <2>1, NothingFields DEF Loop
  <2>2. CASE incoming' = [Unit(s, "key") EXCEPT !.mixed = partial # {<<s, session>>}] /\ recv' = "offer"
    <3>1. partial = {<<s, session>>}
      BY <1>4
    <3>2. incoming' = [Unit(s, "key") EXCEPT !.mixed = FALSE]
      BY <2>2, <3>1
    <3>3. incoming' = Unit(s, "key")
      BY <3>2 DEF Unit
    <3>4. "key" \in Packets \cup {"key"} /\ "key" \in Types
      BY DEF Types
    <3>5. /\ Unit(s, "key") \in Units /\ Unit(s, "key").stream = s
          /\ Unit(s, "key").type = "key"
          /\ Unit(s, "key").session = session /\ ~Unit(s, "key").mixed
      BY <3>4, UnitType
    <3> QED BY <1>4, <2>2, <3>3, <3>4, <3>5
  <2> QED BY <1>4, <2>1, <2>2 DEF Depacketize
<1> QED BY <1>2, <1>3, <1>4 DEF Depacketize

-----------------------------------------------------------------------------
(* The actions that fill and empty the queue, and those that receive.       *)

(* What the receive thread keeps for the queue was received.                *)
LEMMA KeptIsReceived ==
  ASSUME TypeOK, Held, recv \in Keeps
  PROVE  incoming \in Received
<1>1. incoming \in Units /\ incoming.stream \in Streams
  BY DEF TypeOK, PlacesOK, Held
<1> QED BY <1>1, ReceivedOrNothing, NothingFields, StreamsAssumption

(* The queue grows at its end by what the receive thread holds, marked.     *)
LEMMA Appending ==
  ASSUME ReceiverInv, recv \in Keeps, Len(queue) < MaxPending, queue' = Append1
  PROVE  /\ queue' \in Seq(Units) /\ Len(queue') <= MaxPending
         /\ \A i \in DOMAIN queue' :
              \/ i \in DOMAIN queue /\ queue'[i] = queue[i]
              \/ /\ \A k \in DOMAIN queue' : k <= i
                 /\ queue'[i].type = incoming.type /\ queue'[i].stream = incoming.stream
                 /\ queue'[i].session = incoming.session
                 /\ (queue'[i].mixed <=> incoming.mixed)
                 /\ (queue'[i].orphan <=> orphaned /\ incoming.type = "picture")
         /\ DOMAIN queue' \subseteq Nat
<1>1. queue \in Seq(Units) /\ Len(queue) \in Nat /\ MaxPending \in Nat /\ orphaned \in BOOLEAN
  BY BoundsAssumption DEF ReceiverInv, TypeOK, PlacesOK, FlagsOK
<1>2. incoming \in Received
  BY KeptIsReceived DEF ReceiverInv
<1>3. /\ Marked \in Units /\ Marked.type = incoming.type /\ Marked.stream = incoming.stream
      /\ Marked.session = incoming.session /\ (Marked.mixed <=> incoming.mixed)
      /\ (Marked.orphan <=> orphaned /\ incoming.type = "picture")
  BY <1>1, <1>2, MarkedType
<1>4. queue' = Append(queue, Marked)
  BY DEF Append1, Marked
<1> HIDE DEF Marked
<1>5. /\ queue' \in Seq(Units) /\ Len(queue') = Len(queue) + 1
      /\ DOMAIN queue' = 1..Len(queue) + 1 /\ DOMAIN queue = 1..Len(queue)
      /\ queue'[Len(queue) + 1] = Marked
      /\ \A i \in 1..Len(queue) : queue'[i] = queue[i]
  BY <1>1, <1>3, <1>4, Appended
<1>6. \A i \in DOMAIN queue' : i \in 1..Len(queue) \/ i = Len(queue) + 1
  BY <1>1, <1>5
<1>7. \A i \in DOMAIN queue' : i \in Nat /\ i <= Len(queue) + 1
  BY <1>1, <1>5
<1> QED BY <1>1, <1>3, <1>5, <1>6, <1>7

LEMMA OfferKeeps == ReceiverInv /\ Offer => ReceiverInv'
<1> SUFFICES ASSUME ReceiverInv, Offer PROVE ReceiverInv'
  OBVIOUS
<1> USE DEF codecVars, uiVars, world
<1>0. recv \in Keeps
  BY DEF Offer, Keeps
<1>1. CASE Len(queue) < MaxPending
  <2>0. queue' = Append1 /\ recv' = Loop("receive") /\ incoming' = Nothing
    BY <1>1 DEF Offer
  <2>q. /\ queue' \in Seq(Units) /\ Len(queue') <= MaxPending
        /\ \A i \in DOMAIN queue' :
             \/ i \in DOMAIN queue /\ queue'[i] = queue[i]
             \/ /\ \A k \in DOMAIN queue' : k <= i
                /\ queue'[i].type = incoming.type /\ queue'[i].stream = incoming.stream
                /\ queue'[i].session = incoming.session
                /\ (queue'[i].mixed <=> incoming.mixed)
                /\ (queue'[i].orphan <=> orphaned /\ incoming.type = "picture")
        /\ DOMAIN queue' \subseteq Nat
    BY <1>0, <1>1, <2>0, Appending
  <2>1. TypeOK'
    <3>1. FlagsOK'
      BY <1>1 DEF ReceiverInv, TypeOK, FlagsOK, Offer
    <3>2. PlacesOK'
      BY <1>1, <2>q, NothingFields DEF ReceiverInv, TypeOK, PlacesOK, Offer, Loop
    <3> QED BY <3>1, <3>2 DEF TypeOK
  <2>2. Stopped' /\ NothingLeftBehind'
    BY <1>1 DEF ReceiverInv, Stopped, NothingLeftBehind, Offer, Loop
  <2>3. Held'
    BY <1>1 DEF ReceiverInv, Held, Keeps, Offer, Loop
  <2>4. Queued'
    BY <1>0, <1>1, <2>q DEF ReceiverInv, Queued, Held, Offer
  <2>5. Follows'
    <3>1. ~orphaned' <=> ~orphaned \/ incoming.type = "key"
      BY <1>1 DEF Offer
    <3>2. \A k \in DOMAIN queue' : queue'[k].type = "key" => ~orphaned'
      BY <2>q, <3>1 DEF ReceiverInv, Follows
    <3>3. \A k, i \in DOMAIN queue' :
            k < i /\ queue'[k].type = "key" /\ queue'[i].type = "picture" => ~queue'[i].orphan
      <4> SUFFICES ASSUME NEW k \in DOMAIN queue', NEW i \in DOMAIN queue', k < i,
                          queue'[k].type = "key", queue'[i].type = "picture"
                   PROVE  ~queue'[i].orphan
        OBVIOUS
      <4>1. k \in DOMAIN queue /\ queue'[k] = queue[k]
        BY <2>q
      <4>2. CASE i \in DOMAIN queue /\ queue'[i] = queue[i]
        BY <4>1, <4>2 DEF ReceiverInv, Follows
      <4>3. CASE queue'[i].orphan <=> orphaned /\ incoming.type = "picture"
        BY <4>1, <4>3 DEF ReceiverInv, Follows
      <4> QED BY <2>q, <4>2, <4>3
    <3>4. decode' = "feed" /\ hand'.type = "key" /\ ~late' =>
            /\ hand'.stream = locked' /\ locked' # NoStream /\ ~orphaned'
            /\ \A i \in DOMAIN queue' : queue'[i].type = "picture" => ~queue'[i].orphan
      BY <2>q, <3>1 DEF ReceiverInv, Follows, Offer
    <3> QED BY <3>2, <3>3, <3>4 DEF Follows
  <2>6. Decodable'
    BY <1>1, <2>q DEF ReceiverInv, Decodable, Offer
  <2> QED BY <2>1, <2>2, <2>3, <2>4, <2>5, <2>6 DEF ReceiverInv
<1>2. CASE ~(Len(queue) < MaxPending)
  <2>0. recv' = "full" /\ UNCHANGED <<incoming, queue, orphaned>>
    BY <1>2 DEF Offer
  <2>1. TypeOK'
    BY <2>0 DEF ReceiverInv, TypeOK, FlagsOK, PlacesOK, Offer
  <2>2. Stopped' /\ NothingLeftBehind'
    BY <2>0 DEF ReceiverInv, Stopped, NothingLeftBehind, Offer
  <2>3. Held'
    BY <1>0, <2>0 DEF ReceiverInv, Held, Keeps, Offer
  <2>4. Queued' /\ Follows' /\ Decodable'
    BY <2>0 DEF ReceiverInv, Queued, Follows, Decodable, Offer
  <2> QED BY <2>1, <2>2, <2>3, <2>4 DEF ReceiverInv
<1> QED BY <1>1, <1>2

LEMMA OverflowAwaitKeeps == ReceiverInv /\ OverflowAwait => ReceiverInv'
<1> SUFFICES ASSUME ReceiverInv, OverflowAwait PROVE ReceiverInv'
  OBVIOUS
<1> USE DEF uiVars, world
<1>0. recv \in Keeps /\ queue = <<>> /\ orphaned
  BY DEF OverflowAwait, Keeps, ReceiverInv, Held
<1>1. Len(queue) < MaxPending /\ DOMAIN queue = {}
  BY <1>0, BoundsAssumption, EmptyQueue
<1>2. FlagsOK'
  BY DEF ReceiverInv, TypeOK, FlagsOK, OverflowAwait
<1>3. Stopped' /\ NothingLeftBehind'
  BY DEF ReceiverInv, Stopped, NothingLeftBehind, OverflowAwait, Loop
<1>4. Held'
  BY DEF ReceiverInv, Held, Keeps, OverflowAwait, Loop
<1>5. Decodable'
  BY DEF Decodable, OverflowAwait
<1>6. CASE incoming.type = "picture"
  <2>1. PlacesOK'
    BY <1>6, NothingFields DEF ReceiverInv, TypeOK, PlacesOK, OverflowAwait, Loop
  <2>2. Queued' /\ Follows'
    BY <1>6 DEF ReceiverInv, Queued, Follows, OverflowAwait
  <2> QED BY <1>2, <1>3, <1>4, <1>5, <2>1, <2>2 DEF ReceiverInv, TypeOK
<1>7. CASE incoming.type # "picture"
  <2>0. queue' = Append1
    BY <1>7 DEF OverflowAwait
  <2>q. /\ queue' \in Seq(Units) /\ Len(queue') <= MaxPending
        /\ \A i \in DOMAIN queue' :
             /\ \A k \in DOMAIN queue' : k <= i
             /\ queue'[i].type = incoming.type /\ queue'[i].stream = incoming.stream
             /\ queue'[i].session = incoming.session
             /\ (queue'[i].mixed <=> incoming.mixed)
        /\ DOMAIN queue' \subseteq Nat
    BY <1>0, <1>1, <2>0, Appending
  <2>1. PlacesOK'
    BY <1>7, <2>q, NothingFields DEF ReceiverInv, TypeOK, PlacesOK, OverflowAwait, Loop
  <2>2. Queued'
    BY <1>0, <2>q DEF ReceiverInv, Queued, Held, OverflowAwait
  <2>3. Follows'
    BY <1>0, <1>7, <2>q DEF ReceiverInv, Follows, OverflowAwait
  <2> QED BY <1>2, <1>3, <1>4, <1>5, <2>1, <2>2, <2>3 DEF ReceiverInv, TypeOK
<1> QED BY <1>6, <1>7

LEMMA PollKeeps == ReceiverInv /\ Poll => ReceiverInv'
<1> SUFFICES ASSUME ReceiverInv, Poll PROVE ReceiverInv'
  OBVIOUS
<1> USE DEF recvVars, codecVars, uiVars, world
<1>0. queue \in Seq(Units) /\ queue # <<>> /\ MaxPending \in Nat /\ Len(queue) <= MaxPending
  BY BoundsAssumption DEF Poll, ReceiverInv, TypeOK, PlacesOK
<1>q. /\ queue' \in Seq(Units) /\ Len(queue') <= MaxPending
      /\ hand' = queue[1] /\ hand' \in Units /\ 1 \in DOMAIN queue
      /\ \A i \in DOMAIN queue' : i \in Nat /\ i + 1 \in DOMAIN queue /\ 1 < i + 1 /\ queue'[i] = queue[i + 1]
  <2>1. queue' = Tail(queue) /\ hand' = Head(queue)
    BY DEF Poll
  <2> QED BY <1>0, <2>1, Polled
<1>1. TypeOK'
  <2>1. FlagsOK'
    BY DEF ReceiverInv, TypeOK, FlagsOK, Poll
  <2>2. PlacesOK'
    BY <1>q DEF ReceiverInv, TypeOK, PlacesOK, Poll
  <2> QED BY <2>1, <2>2 DEF TypeOK
<1>2. Stopped' /\ NothingLeftBehind'
  BY DEF ReceiverInv, Stopped, NothingLeftBehind, Poll
<1>3. Held'
  BY DEF ReceiverInv, Held, Poll
<1>4. Queued'
  BY <1>q DEF ReceiverInv, Queued, Poll
<1>5. Follows'
  <2>1. \A k, i \in DOMAIN queue' :
          k < i /\ queue'[k].type = "key" /\ queue'[i].type = "picture" => ~queue'[i].orphan
    BY <1>q DEF ReceiverInv, Follows
  <2>2. \A k \in DOMAIN queue' : queue'[k].type = "key" => ~orphaned'
    BY <1>q DEF ReceiverInv, Follows, Poll
  <2>3. hand'.type = "key" =>
          /\ hand'.stream = locked' /\ locked' # NoStream /\ ~orphaned'
          /\ \A i \in DOMAIN queue' : queue'[i].type = "picture" => ~queue'[i].orphan
    BY <1>q, StreamsAssumption DEF ReceiverInv, Follows, Queued, Poll
  <2> QED BY <2>1, <2>2, <2>3 DEF Follows
<1>6. Decodable'
  BY <1>q DEF ReceiverInv, Decodable, Queued, Poll
<1> QED BY <1>1, <1>2, <1>3, <1>4, <1>5, <1>6 DEF ReceiverInv

LEMMA ReceiveSelectedKeeps ==
  ASSUME ReceiverInv, NEW s \in Streams, NEW type \in Packets, ReceiveSelected(s, type)
  PROVE  ReceiverInv'
<1> USE DEF codecVars, uiVars, world
<1>0. partial \subseteq {<<s, session>>}
  BY DEF ReceiveSelected, ReceiverInv, Held
<1>1. /\ incoming' \in Units /\ partial' \subseteq {<<s, session>>}
      /\ partial' \subseteq Streams \X Sessions
      /\ recv' \in {"offer", "receive", "off"}
      /\ recv' = "offer" =>
           /\ incoming'.stream = s /\ incoming'.session = session /\ ~incoming'.mixed
           /\ incoming'.type \in Types
  BY <1>0, Depacketized DEF ReceiveSelected, ReceiverInv
<1>2. s # NoStream
  BY StreamsAssumption
<1>3. locked = NoStream => DOMAIN queue = {}
  BY StreamsAssumption DEF ReceiverInv, Queued
<1>4. TypeOK'
  <2>1. FlagsOK'
    BY DEF ReceiverInv, TypeOK, FlagsOK, ReceiveSelected
  <2>2. PlacesOK'
    BY <1>1 DEF ReceiverInv, TypeOK, PlacesOK, ReceiveSelected
  <2> QED BY <2>1, <2>2 DEF TypeOK
<1>5. Stopped' /\ NothingLeftBehind'
  BY DEF ReceiverInv, Stopped, NothingLeftBehind, ReceiveSelected
<1>6. Held'
  BY <1>1, <1>2 DEF ReceiverInv, Held, Keeps, ReceiveSelected
<1>7. Queued'
  BY <1>3 DEF ReceiverInv, Queued, ReceiveSelected
<1>8. Follows'
  BY <1>3 DEF ReceiverInv, Follows, ReceiveSelected
<1>9. Decodable'
  BY <1>2 DEF ReceiverInv, Decodable, ReceiveSelected
<1> QED BY <1>4, <1>5, <1>6, <1>7, <1>8, <1>9 DEF ReceiverInv

LEMMA ReceiveOtherKeeps ==
  ASSUME ReceiverInv, NEW s \in Streams, NEW type \in Packets, ReceiveOther(s, type)
  PROVE  ReceiverInv'
<1> USE DEF codecVars, uiVars, world
<1>0. /\ Unit(s, type) \in Units /\ Unit(s, type).stream = s
      /\ Unit(s, type).session = session /\ ~Unit(s, type).mixed
  BY UnitType DEF ReceiverInv
<1>1. TypeOK'
  <2>1. FlagsOK'
    BY DEF ReceiverInv, TypeOK, FlagsOK, ReceiveOther
  <2>2. PlacesOK'
    BY <1>0, EmptyQueue, BoundsAssumption DEF ReceiverInv, TypeOK, PlacesOK, ReceiveOther
  <2> QED BY <2>1, <2>2 DEF TypeOK
<1>2. Stopped' /\ NothingLeftBehind'
  BY DEF ReceiverInv, Stopped, NothingLeftBehind, ReceiveOther
<1>3. Held'
  BY <1>0 DEF ReceiverInv, Held, Keeps, ReceiveOther
<1>4. Queued' /\ Follows'
  BY EmptyQueue DEF ReceiverInv, Queued, Follows, ReceiveOther
<1>5. Decodable'
  BY EmptyQueue DEF ReceiverInv, Decodable, ReceiveOther
<1> QED BY <1>1, <1>2, <1>3, <1>4, <1>5 DEF ReceiverInv

LEMMA TakeoverKeeps == ReceiverInv /\ Takeover => ReceiverInv'
<1> SUFFICES ASSUME ReceiverInv, Takeover PROVE ReceiverInv'
  OBVIOUS
<1> USE DEF uiVars, world
<1> DEFINE s == incoming.stream
           type == incoming.type
<1>0. /\ s \in Streams /\ s # NoStream /\ queue = <<>> /\ orphaned /\ partial = {}
      /\ incoming \in Units
  BY StreamsAssumption DEF Takeover, ReceiverInv, Held, TypeOK, PlacesOK
<1>1. type \in Packets \cup {"key"}
  BY <1>0, UnitFields
<1>2. /\ incoming' \in Units /\ partial' \subseteq {<<s, session>>}
      /\ partial' \subseteq Streams \X Sessions
      /\ recv' \in {"offer", "receive", "off"}
      /\ recv' = "offer" =>
           /\ incoming'.stream = s /\ incoming'.session = session /\ ~incoming'.mixed
           /\ incoming'.type \in Types
  <2>1. CASE Depacketize(s, type)
    <3> HIDE DEF s, type
    <3> QED BY <1>0, <1>1, <2>1, Depacketized DEF ReceiverInv
  <2>2. CASE recv' = Loop("receive") /\ incoming' = Nothing /\ UNCHANGED partial
    BY <1>0, <2>2, NothingFields DEF Loop
  <2> QED BY <2>1, <2>2 DEF Takeover
<1>3. TypeOK'
  <2>1. FlagsOK'
    BY DEF ReceiverInv, TypeOK, FlagsOK, Takeover
  <2>2. PlacesOK'
    BY <1>0, <1>2 DEF ReceiverInv, TypeOK, PlacesOK, Takeover
  <2> QED BY <2>1, <2>2 DEF TypeOK
<1>4. Stopped' /\ NothingLeftBehind'
  BY DEF ReceiverInv, Stopped, NothingLeftBehind, Takeover
<1>5. Held'
  BY <1>0, <1>2 DEF ReceiverInv, Held, Keeps, Takeover
<1>6. Queued' /\ Follows'
  BY <1>0, EmptyQueue DEF ReceiverInv, Queued, Follows, Takeover
<1>7. Decodable'
  BY DEF Decodable, Takeover
<1> QED BY <1>3, <1>4, <1>5, <1>6, <1>7 DEF ReceiverInv

-----------------------------------------------------------------------------
(* The other actions, in the order of the module.                           *)

LEMMA DisconnectKeeps == ReceiverInv /\ Disconnect => ReceiverInv'
<1> SUFFICES ASSUME ReceiverInv, Disconnect PROVE ReceiverInv'
  OBVIOUS
<1> USE DEF codecVars, uiVars, world
<1>1. TypeOK'
  <2>1. FlagsOK'
    BY DEF ReceiverInv, TypeOK, FlagsOK, Disconnect, EndSession
  <2>2. PlacesOK'
    BY DEF ReceiverInv, TypeOK, PlacesOK, Disconnect, EndSession
  <2> QED BY <2>1, <2>2 DEF TypeOK
<1>2. Stopped' /\ NothingLeftBehind'
  BY DEF ReceiverInv, Stopped, NothingLeftBehind, Disconnect, EndSession
<1>3. Held'
  BY DEF ReceiverInv, Held, Keeps, Disconnect, EndSession
<1>4. Queued' /\ Follows'
  BY DEF ReceiverInv, Queued, Follows, Disconnect, EndSession
<1>5. Decodable'
  BY DEF ReceiverInv, Decodable, Disconnect, EndSession
<1> QED BY <1>1, <1>2, <1>3, <1>4, <1>5 DEF ReceiverInv

LEMMA ReceiveFailsKeeps == ReceiverInv /\ ReceiveFails => ReceiverInv'
<1> SUFFICES ASSUME ReceiverInv, ReceiveFails PROVE ReceiverInv'
  OBVIOUS
<1> USE DEF codecVars, uiVars, world
<1>1. TypeOK'
  <2>1. FlagsOK'
    BY DEF ReceiverInv, TypeOK, FlagsOK, ReceiveFails, EndSession
  <2>2. PlacesOK'
    BY DEF ReceiverInv, TypeOK, PlacesOK, ReceiveFails, EndSession
  <2> QED BY <2>1, <2>2 DEF TypeOK
<1>2. Stopped' /\ NothingLeftBehind'
  BY DEF ReceiverInv, Stopped, NothingLeftBehind, ReceiveFails, EndSession
<1>3. Held'
  BY DEF ReceiverInv, Held, Keeps, ReceiveFails, EndSession
<1>4. Queued' /\ Follows'
  BY DEF ReceiverInv, Queued, Follows, ReceiveFails, EndSession
<1>5. Decodable'
  BY DEF ReceiverInv, Decodable, ReceiveFails, EndSession
<1> QED BY <1>1, <1>2, <1>3, <1>4, <1>5 DEF ReceiverInv

LEMMA ReceiveEndsKeeps == ReceiverInv /\ ReceiveEnds => ReceiverInv'
<1> SUFFICES ASSUME ReceiverInv, ReceiveEnds PROVE ReceiverInv'
  OBVIOUS
<1> USE DEF codecVars, uiVars, world
<1>1. TypeOK'
  <2>1. FlagsOK'
    BY DEF ReceiverInv, TypeOK, FlagsOK, ReceiveEnds
  <2>2. PlacesOK'
    BY DEF ReceiverInv, TypeOK, PlacesOK, ReceiveEnds
  <2> QED BY <2>1, <2>2 DEF TypeOK
<1>2. Stopped' /\ NothingLeftBehind'
  BY DEF ReceiverInv, Stopped, NothingLeftBehind, ReceiveEnds
<1>3. Held'
  BY DEF ReceiverInv, Held, Keeps, ReceiveEnds
<1>4. Queued' /\ Follows'
  BY DEF ReceiverInv, Queued, Follows, ReceiveEnds
<1>5. Decodable'
  BY DEF ReceiverInv, Decodable, ReceiveEnds
<1> QED BY <1>1, <1>2, <1>3, <1>4, <1>5 DEF ReceiverInv

LEMMA OverflowClearKeeps == ReceiverInv /\ OverflowClear => ReceiverInv'
<1> SUFFICES ASSUME ReceiverInv, OverflowClear PROVE ReceiverInv'
  OBVIOUS
<1> USE DEF codecVars, uiVars, world
<1>1. TypeOK'
  <2>1. FlagsOK'
    BY DEF ReceiverInv, TypeOK, FlagsOK, OverflowClear
  <2>2. PlacesOK'
    BY BoundsAssumption DEF ReceiverInv, TypeOK, PlacesOK, OverflowClear
  <2> QED BY <2>1, <2>2 DEF TypeOK
<1>2. Stopped' /\ NothingLeftBehind'
  BY DEF ReceiverInv, Stopped, NothingLeftBehind, OverflowClear
<1>3. Held'
  BY DEF ReceiverInv, Held, Keeps, OverflowClear
<1>4. Queued' /\ Follows'
  BY EmptyQueue DEF ReceiverInv, Queued, Follows, OverflowClear
<1>5. Decodable'
  BY DEF ReceiverInv, Decodable, OverflowClear
<1> QED BY <1>1, <1>2, <1>3, <1>4, <1>5 DEF ReceiverInv

LEMMA DecodeEndsKeeps == ReceiverInv /\ DecodeEnds => ReceiverInv'
<1> SUFFICES ASSUME ReceiverInv, DecodeEnds PROVE ReceiverInv'
  OBVIOUS
<1> USE DEF recvVars, codecVars, uiVars, world
<1>1. TypeOK'
  <2>1. FlagsOK'
    BY DEF ReceiverInv, TypeOK, FlagsOK, DecodeEnds
  <2>2. PlacesOK'
    BY DEF ReceiverInv, TypeOK, PlacesOK, DecodeEnds
  <2> QED BY <2>1, <2>2 DEF TypeOK
<1>2. Stopped' /\ NothingLeftBehind'
  BY DEF ReceiverInv, Stopped, NothingLeftBehind, DecodeEnds
<1>3. Held'
  BY DEF ReceiverInv, Held, Keeps, DecodeEnds
<1>4. Queued' /\ Follows'
  BY DEF ReceiverInv, Queued, Follows, DecodeEnds
<1>5. Decodable'
  BY DEF ReceiverInv, Decodable, DecodeEnds
<1> QED BY <1>1, <1>2, <1>3, <1>4, <1>5 DEF ReceiverInv

LEMMA FeedKeeps == ReceiverInv /\ Feed => ReceiverInv'
<1> SUFFICES ASSUME ReceiverInv, Feed PROVE ReceiverInv'
  OBVIOUS
<1> USE DEF recvVars, uiVars, world
<1>1. TypeOK'
  <2>1. FlagsOK'
    BY DEF ReceiverInv, TypeOK, FlagsOK, Feed, Fed, Loop
  <2>2. PlacesOK'
    BY NothingFields, UnitFields DEF ReceiverInv, TypeOK, PlacesOK, Feed, Fed, Loop
  <2> QED BY <2>1, <2>2 DEF TypeOK
<1>2. Stopped' /\ NothingLeftBehind'
  BY DEF ReceiverInv, Stopped, NothingLeftBehind, Feed, Fed, Loop
<1>3. Held'
  BY DEF ReceiverInv, Held, Keeps, Feed, Fed, Loop
<1>4. Queued' /\ Follows'
  BY DEF ReceiverInv, Queued, Follows, Feed, Fed, Loop
<1>5. Decodable'
  BY DEF ReceiverInv, Decodable, Feed, Fed, Loop, Follows
<1> QED BY <1>1, <1>2, <1>3, <1>4, <1>5 DEF ReceiverInv

LEMMA FeedOversizeKeeps == ReceiverInv /\ FeedOversize => ReceiverInv'
<1> SUFFICES ASSUME ReceiverInv, FeedOversize PROVE ReceiverInv'
  OBVIOUS
<1> USE DEF recvVars, uiVars, world
<1>1. TypeOK'
  <2>1. FlagsOK'
    BY DEF ReceiverInv, TypeOK, FlagsOK, FeedOversize, Fed, Loop
  <2>2. PlacesOK'
    BY NothingFields DEF ReceiverInv, TypeOK, PlacesOK, FeedOversize, Fed, Loop
  <2> QED BY <2>1, <2>2 DEF TypeOK
<1>2. Stopped' /\ NothingLeftBehind'
  BY DEF ReceiverInv, Stopped, NothingLeftBehind, FeedOversize, Fed, Loop
<1>3. Held'
  BY DEF ReceiverInv, Held, Keeps, FeedOversize, Fed, Loop
<1>4. Queued' /\ Follows'
  BY DEF ReceiverInv, Queued, Follows, FeedOversize, Fed, Loop
<1>5. Decodable'
  BY DEF ReceiverInv, Decodable, FeedOversize, Fed, Loop
<1> QED BY <1>1, <1>2, <1>3, <1>4, <1>5 DEF ReceiverInv

LEMMA FeedBlockedKeeps == ReceiverInv /\ FeedBlocked => ReceiverInv'
<1> SUFFICES ASSUME ReceiverInv, FeedBlocked PROVE ReceiverInv'
  OBVIOUS
<1> USE DEF recvVars, uiVars, world
<1>1. TypeOK'
  <2>1. FlagsOK'
    BY DEF ReceiverInv, TypeOK, FlagsOK, FeedBlocked, Fed, Loop
  <2>2. PlacesOK'
    BY NothingFields, BoundsAssumption DEF ReceiverInv, TypeOK, PlacesOK, FeedBlocked, Fed, Loop
  <2> QED BY <2>1, <2>2 DEF TypeOK
<1>2. Stopped' /\ NothingLeftBehind'
  BY DEF ReceiverInv, Stopped, NothingLeftBehind, FeedBlocked, Fed, Loop
<1>3. Held'
  BY DEF ReceiverInv, Held, Keeps, FeedBlocked, Fed, Loop
<1>4. Queued' /\ Follows'
  BY DEF ReceiverInv, Queued, Follows, FeedBlocked, Fed, Loop
<1>5. Decodable'
  BY DEF ReceiverInv, Decodable, FeedBlocked, Fed, Loop
<1> QED BY <1>1, <1>2, <1>3, <1>4, <1>5 DEF ReceiverInv

LEMMA CodecFailsKeeps == ReceiverInv /\ CodecFails => ReceiverInv'
<1> SUFFICES ASSUME ReceiverInv, CodecFails PROVE ReceiverInv'
  OBVIOUS
<1> USE DEF recvVars, uiVars, world
<1>1. TypeOK'
  <2>1. FlagsOK'
    BY DEF ReceiverInv, TypeOK, FlagsOK, CodecFails, RestartDecoder, EndSession
  <2>2. PlacesOK'
    BY NothingFields, BoundsAssumption
      DEF ReceiverInv, TypeOK, PlacesOK, CodecFails, RestartDecoder, EndSession
  <2> QED BY <2>1, <2>2 DEF TypeOK
<1>2. Stopped' /\ NothingLeftBehind'
  BY DEF ReceiverInv, Stopped, NothingLeftBehind, CodecFails, RestartDecoder, EndSession
<1>3. Held'
  BY DEF ReceiverInv, Held, Keeps, CodecFails, RestartDecoder, EndSession
<1>4. Queued' /\ Follows'
  BY DEF ReceiverInv, Queued, Follows, CodecFails, RestartDecoder, EndSession
<1>5. Decodable'
  BY DEF ReceiverInv, Decodable, CodecFails, RestartDecoder, EndSession
<1> QED BY <1>1, <1>2, <1>3, <1>4, <1>5 DEF ReceiverInv

LEMMA DecodeFailsKeeps == ReceiverInv /\ DecodeFails => ReceiverInv'
<1> SUFFICES ASSUME ReceiverInv, DecodeFails PROVE ReceiverInv'
  OBVIOUS
<1> USE DEF recvVars, codecVars, uiVars, world
<1>1. TypeOK'
  <2>1. FlagsOK'
    BY DEF ReceiverInv, TypeOK, FlagsOK, DecodeFails, EndSession
  <2>2. PlacesOK'
    BY NothingFields DEF ReceiverInv, TypeOK, PlacesOK, DecodeFails, EndSession
  <2> QED BY <2>1, <2>2 DEF TypeOK
<1>2. Stopped' /\ NothingLeftBehind'
  BY DEF ReceiverInv, Stopped, NothingLeftBehind, DecodeFails, EndSession
<1>3. Held'
  BY DEF ReceiverInv, Held, Keeps, DecodeFails, EndSession
<1>4. Queued' /\ Follows'
  BY DEF ReceiverInv, Queued, Follows, DecodeFails, EndSession
<1>5. Decodable'
  BY DEF ReceiverInv, Decodable, DecodeFails, EndSession
<1> QED BY <1>1, <1>2, <1>3, <1>4, <1>5 DEF ReceiverInv

LEMMA UserStartKeeps == ReceiverInv /\ UserStart => ReceiverInv'
<1> SUFFICES ASSUME ReceiverInv, UserStart PROVE ReceiverInv'
  OBVIOUS
<1> USE DEF recvVars, codecVars, world
<1>1. TypeOK'
  <2>1. FlagsOK'
    BY DEF ReceiverInv, TypeOK, FlagsOK, UserStart, BeginStop
  <2>2. PlacesOK'
    BY DEF ReceiverInv, TypeOK, PlacesOK, UserStart, BeginStop
  <2> QED BY <2>1, <2>2 DEF TypeOK
<1>2. Stopped' /\ NothingLeftBehind'
  BY DEF ReceiverInv, Stopped, NothingLeftBehind, UserStart, BeginStop
<1>3. Held'
  BY DEF ReceiverInv, Held, Keeps, UserStart, BeginStop
<1>4. Queued' /\ Follows'
  BY DEF ReceiverInv, Queued, Follows, UserStart, BeginStop
<1>5. Decodable'
  BY DEF ReceiverInv, Decodable, UserStart, BeginStop
<1> QED BY <1>1, <1>2, <1>3, <1>4, <1>5 DEF ReceiverInv

LEMMA UserStopKeeps == ReceiverInv /\ UserStop => ReceiverInv'
<1> SUFFICES ASSUME ReceiverInv, UserStop PROVE ReceiverInv'
  OBVIOUS
<1> USE DEF recvVars, codecVars, world
<1>1. TypeOK'
  <2>1. FlagsOK'
    BY DEF ReceiverInv, TypeOK, FlagsOK, UserStop, BeginStop
  <2>2. PlacesOK'
    BY DEF ReceiverInv, TypeOK, PlacesOK, UserStop, BeginStop
  <2> QED BY <2>1, <2>2 DEF TypeOK
<1>2. Stopped' /\ NothingLeftBehind'
  BY DEF ReceiverInv, Stopped, NothingLeftBehind, UserStop, BeginStop
<1>3. Held'
  BY DEF ReceiverInv, Held, Keeps, UserStop, BeginStop
<1>4. Queued' /\ Follows'
  BY DEF ReceiverInv, Queued, Follows, UserStop, BeginStop
<1>5. Decodable'
  BY DEF ReceiverInv, Decodable, UserStop, BeginStop
<1> QED BY <1>1, <1>2, <1>3, <1>4, <1>5 DEF ReceiverInv

LEMMA SurfaceDestroyedKeeps == ReceiverInv /\ SurfaceDestroyed => ReceiverInv'
<1> SUFFICES ASSUME ReceiverInv, SurfaceDestroyed PROVE ReceiverInv'
  OBVIOUS
<1> USE DEF recvVars, codecVars, world
<1>1. TypeOK'
  <2>1. FlagsOK'
    BY DEF ReceiverInv, TypeOK, FlagsOK, SurfaceDestroyed, BeginStop
  <2>2. PlacesOK'
    BY DEF ReceiverInv, TypeOK, PlacesOK, SurfaceDestroyed, BeginStop
  <2> QED BY <2>1, <2>2 DEF TypeOK
<1>2. Stopped' /\ NothingLeftBehind'
  BY DEF ReceiverInv, Stopped, NothingLeftBehind, SurfaceDestroyed, BeginStop
<1>3. Held'
  BY DEF ReceiverInv, Held, Keeps, SurfaceDestroyed, BeginStop
<1>4. Queued' /\ Follows'
  BY DEF ReceiverInv, Queued, Follows, SurfaceDestroyed, BeginStop
<1>5. Decodable'
  BY DEF ReceiverInv, Decodable, SurfaceDestroyed, BeginStop
<1> QED BY <1>1, <1>2, <1>3, <1>4, <1>5 DEF ReceiverInv

LEMMA SurfaceCreatedKeeps == ReceiverInv /\ SurfaceCreated => ReceiverInv'
<1> SUFFICES ASSUME ReceiverInv, SurfaceCreated PROVE ReceiverInv'
  OBVIOUS
<1> USE DEF recvVars, codecVars, world
<1>1. TypeOK'
  <2>1. FlagsOK'
    BY DEF ReceiverInv, TypeOK, FlagsOK, SurfaceCreated, BeginStop
  <2>2. PlacesOK'
    BY DEF ReceiverInv, TypeOK, PlacesOK, SurfaceCreated, BeginStop
  <2> QED BY <2>1, <2>2 DEF TypeOK
<1>2. Stopped' /\ NothingLeftBehind'
  BY DEF ReceiverInv, Stopped, NothingLeftBehind, SurfaceCreated, BeginStop
<1>3. Held'
  BY DEF ReceiverInv, Held, Keeps, SurfaceCreated, BeginStop
<1>4. Queued' /\ Follows'
  BY DEF ReceiverInv, Queued, Follows, SurfaceCreated, BeginStop
<1>5. Decodable'
  BY DEF ReceiverInv, Decodable, SurfaceCreated, BeginStop
<1> QED BY <1>1, <1>2, <1>3, <1>4, <1>5 DEF ReceiverInv

LEMMA CallbackKeeps == ReceiverInv /\ Callback => ReceiverInv'
<1> SUFFICES ASSUME ReceiverInv, Callback PROVE ReceiverInv'
  OBVIOUS
<1> USE DEF recvVars, codecVars, world
<1>1. TypeOK'
  <2>1. FlagsOK'
    BY DEF ReceiverInv, TypeOK, FlagsOK, Callback, BeginStop
  <2>2. PlacesOK'
    BY DEF ReceiverInv, TypeOK, PlacesOK, Callback, BeginStop
  <2> QED BY <2>1, <2>2 DEF TypeOK
<1>2. Stopped' /\ NothingLeftBehind'
  BY DEF ReceiverInv, Stopped, NothingLeftBehind, Callback, BeginStop
<1>3. Held'
  BY DEF ReceiverInv, Held, Keeps, Callback, BeginStop
<1>4. Queued' /\ Follows'
  BY DEF ReceiverInv, Queued, Follows, Callback, BeginStop
<1>5. Decodable'
  BY DEF ReceiverInv, Decodable, Callback, BeginStop
<1> QED BY <1>1, <1>2, <1>3, <1>4, <1>5 DEF ReceiverInv

LEMMA JoinReceiveKeeps == ReceiverInv /\ JoinReceive => ReceiverInv'
<1> SUFFICES ASSUME ReceiverInv, JoinReceive PROVE ReceiverInv'
  OBVIOUS
<1> USE DEF recvVars, codecVars, world
<1>1. TypeOK'
  <2>1. FlagsOK'
    BY DEF ReceiverInv, TypeOK, FlagsOK, JoinReceive
  <2>2. PlacesOK'
    BY DEF ReceiverInv, TypeOK, PlacesOK, JoinReceive
  <2> QED BY <2>1, <2>2 DEF TypeOK
<1>2. Stopped' /\ NothingLeftBehind'
  BY DEF ReceiverInv, Stopped, NothingLeftBehind, JoinReceive
<1>3. Held'
  BY DEF ReceiverInv, Held, Keeps, JoinReceive
<1>4. Queued' /\ Follows'
  BY DEF ReceiverInv, Queued, Follows, JoinReceive
<1>5. Decodable'
  BY DEF ReceiverInv, Decodable, JoinReceive
<1> QED BY <1>1, <1>2, <1>3, <1>4, <1>5 DEF ReceiverInv

LEMMA JoinDecodeKeeps == ReceiverInv /\ JoinDecode => ReceiverInv'
<1> SUFFICES ASSUME ReceiverInv, JoinDecode PROVE ReceiverInv'
  OBVIOUS
<1> USE DEF world
<1>1. TypeOK'
  <2>1. FlagsOK'
    BY DEF ReceiverInv, TypeOK, FlagsOK, JoinDecode, Cleared
  <2>2. PlacesOK'
    BY BoundsAssumption DEF ReceiverInv, TypeOK, PlacesOK, JoinDecode, Cleared
  <2> QED BY <2>1, <2>2 DEF TypeOK
<1>2. Stopped' /\ NothingLeftBehind'
  BY DEF ReceiverInv, Stopped, NothingLeftBehind, JoinDecode, Cleared
<1>3. Held'
  BY DEF ReceiverInv, Held, Keeps, JoinDecode, Cleared, Stopped
<1>4. Queued' /\ Follows'
  BY DEF ReceiverInv, Queued, Follows, JoinDecode, Cleared
<1>5. Decodable'
  BY DEF ReceiverInv, Decodable, JoinDecode, Cleared
<1> QED BY <1>1, <1>2, <1>3, <1>4, <1>5 DEF ReceiverInv

LEMMA OpenKeeps == ReceiverInv /\ Open => ReceiverInv'
<1> SUFFICES ASSUME ReceiverInv, Open PROVE ReceiverInv'
  OBVIOUS
<1> USE DEF world
<1>1. TypeOK'
  <2>1. FlagsOK'
    BY DEF ReceiverInv, TypeOK, FlagsOK, Open, Cleared, Sessions
  <2>2. PlacesOK'
    BY BoundsAssumption DEF ReceiverInv, TypeOK, PlacesOK, Open, Cleared, Sessions, Stopped
  <2> QED BY <2>1, <2>2 DEF TypeOK
<1>2. Stopped' /\ NothingLeftBehind'
  BY DEF ReceiverInv, Stopped, NothingLeftBehind, Open, Cleared, Sessions
<1>3. Held'
  BY DEF ReceiverInv, Held, Keeps, Open, Cleared, Sessions
<1>4. Queued' /\ Follows'
  BY DEF ReceiverInv, Queued, Follows, Open, Cleared, Sessions
<1>5. Decodable'
  BY DEF ReceiverInv, Decodable, Open, Cleared, Sessions
<1> QED BY <1>1, <1>2, <1>3, <1>4, <1>5 DEF ReceiverInv

LEMMA OpenFailsKeeps == ReceiverInv /\ OpenFails => ReceiverInv'
<1> SUFFICES ASSUME ReceiverInv, OpenFails PROVE ReceiverInv'
  OBVIOUS
<1> USE DEF recvVars, codecVars, world
<1>1. TypeOK'
  <2>1. FlagsOK'
    BY DEF ReceiverInv, TypeOK, FlagsOK, OpenFails
  <2>2. PlacesOK'
    BY DEF ReceiverInv, TypeOK, PlacesOK, OpenFails
  <2> QED BY <2>1, <2>2 DEF TypeOK
<1>2. Stopped' /\ NothingLeftBehind'
  BY DEF ReceiverInv, Stopped, NothingLeftBehind, OpenFails
<1>3. Held'
  BY DEF ReceiverInv, Held, Keeps, OpenFails
<1>4. Queued' /\ Follows'
  BY DEF ReceiverInv, Queued, Follows, OpenFails
<1>5. Decodable'
  BY DEF ReceiverInv, Decodable, OpenFails
<1> QED BY <1>1, <1>2, <1>3, <1>4, <1>5 DEF ReceiverInv

LEMMA AnotherPartFailsKeeps == ReceiverInv /\ AnotherPartFails => ReceiverInv'
<1> SUFFICES ASSUME ReceiverInv, AnotherPartFails PROVE ReceiverInv'
  OBVIOUS
<1> USE DEF recvVars, codecVars, world
<1>1. TypeOK'
  <2>1. FlagsOK'
    BY DEF ReceiverInv, TypeOK, FlagsOK, AnotherPartFails, BeginStop
  <2>2. PlacesOK'
    BY DEF ReceiverInv, TypeOK, PlacesOK, AnotherPartFails, BeginStop
  <2> QED BY <2>1, <2>2 DEF TypeOK
<1>2. Stopped' /\ NothingLeftBehind'
  BY DEF ReceiverInv, Stopped, NothingLeftBehind, AnotherPartFails, BeginStop
<1>3. Held'
  BY DEF ReceiverInv, Held, Keeps, AnotherPartFails, BeginStop
<1>4. Queued' /\ Follows'
  BY DEF ReceiverInv, Queued, Follows, AnotherPartFails, BeginStop
<1>5. Decodable'
  BY DEF ReceiverInv, Decodable, AnotherPartFails, BeginStop
<1> QED BY <1>1, <1>2, <1>3, <1>4, <1>5 DEF ReceiverInv

LEMMA SilenceKeeps == ReceiverInv /\ Silence => ReceiverInv'
<1> SUFFICES ASSUME ReceiverInv, Silence PROVE ReceiverInv'
  OBVIOUS
<1> USE DEF codecVars, uiVars, world
<1>1. TypeOK'
  <2>1. FlagsOK'
    BY DEF ReceiverInv, TypeOK, FlagsOK, Silence
  <2>2. PlacesOK'
    BY DEF ReceiverInv, TypeOK, PlacesOK, Silence
  <2> QED BY <2>1, <2>2 DEF TypeOK
<1>2. Stopped' /\ NothingLeftBehind'
  BY DEF ReceiverInv, Stopped, NothingLeftBehind, Silence
<1>3. Held'
  BY DEF ReceiverInv, Held, Keeps, Silence
<1>4. Queued' /\ Follows'
  BY DEF ReceiverInv, Queued, Follows, Silence
<1>5. Decodable'
  BY DEF ReceiverInv, Decodable, Silence
<1> QED BY <1>1, <1>2, <1>3, <1>4, <1>5 DEF ReceiverInv

-----------------------------------------------------------------------------
LEMMA InitiallyHolds == Init => ReceiverInv
<1> SUFFICES ASSUME Init PROVE ReceiverInv
  OBVIOUS
<1>1. TypeOK
  <2>1. FlagsOK
    BY DEF Init, FlagsOK
  <2>2. PlacesOK
    BY NothingFields, EmptyQueue, BoundsAssumption DEF Init, PlacesOK, Sessions
  <2> QED BY <2>1, <2>2 DEF TypeOK
<1>2. Stopped /\ NothingLeftBehind /\ Held /\ Decodable
  BY DEF Init, Stopped, NothingLeftBehind, Held, Keeps, Decodable
<1>3. Queued /\ Follows
  BY EmptyQueue DEF Init, Queued, Follows
<1> QED BY <1>1, <1>2, <1>3 DEF ReceiverInv

LEMMA StutterKeeps == ReceiverInv /\ UNCHANGED vars => ReceiverInv'
BY DEF ReceiverInv, TypeOK, FlagsOK, PlacesOK, Stopped, NothingLeftBehind, Held, Queued, Follows,
       Decodable, vars, recvVars, codecVars, uiVars, world

LEMMA NextKeeps == ReceiverInv /\ [Next]_vars => ReceiverInv'
<1> SUFFICES ASSUME ReceiverInv, [Next]_vars PROVE ReceiverInv'
  OBVIOUS
<1>1. CASE \E s \in Streams, type \in Packets : Arrive(s, type)
  BY <1>1, ReceiveSelectedKeeps, ReceiveOtherKeeps DEF Arrive
<1>2. CASE ReceiveThread
  BY <1>2, TakeoverKeeps, DisconnectKeeps, ReceiveEndsKeeps, OfferKeeps, OverflowClearKeeps,
     OverflowAwaitKeeps DEF ReceiveThread
<1>3. CASE DecodeThread
  BY <1>3, PollKeeps, DecodeEndsKeeps, FeedKeeps DEF DecodeThread
<1>4. CASE UiThread
  BY <1>4, CallbackKeeps, JoinReceiveKeeps, JoinDecodeKeeps, OpenKeeps DEF UiThread
<1>5. CASE Events
  BY <1>5, UserStartKeeps, UserStopKeeps, SurfaceDestroyedKeeps, SurfaceCreatedKeeps,
     OpenFailsKeeps, AnotherPartFailsKeeps DEF Events
<1>6. CASE Failures
  BY <1>6, ReceiveFailsKeeps, FeedOversizeKeeps, FeedBlockedKeeps, CodecFailsKeeps,
     DecodeFailsKeeps DEF Failures
<1>7. CASE Silence
  BY <1>7, SilenceKeeps
<1>8. CASE UNCHANGED vars
  BY <1>8, StutterKeeps
<1> QED BY <1>1, <1>2, <1>3, <1>4, <1>5, <1>6, <1>7, <1>8 DEF Next

(* The inductive invariant holds in every state (RtpH264Receiver.java, with *)
(* the lock, the watchdog and the activity around it).                      *)
THEOREM ReceiverInvariant == Spec => []ReceiverInv
<1>1. Init => ReceiverInv
  BY InitiallyHolds
<1>2. ReceiverInv /\ [Next]_vars => ReceiverInv'
  BY NextKeeps
<1> QED BY <1>1, <1>2, PTL DEF Spec

(* nalQueue keeps its bound and holds whole NALs of one session, for any    *)
(* bound, any senders and any number of restarts.                           *)
THEOREM QueueIsAlwaysSound == Spec => []QueueIsSound
<1>1. ReceiverInv => QueueIsSound
  BY DEF ReceiverInv, Queued, QueueIsSound, NalsAreOfThisSession, NalsAreWhole
<1> QED BY <1>1, ReceiverInvariant, PTL

(* feedDecoder hands a picture to the codec only behind its key picture,    *)
(* whatever overflowed, blocked, failed or was taken over before.           *)
THEOREM PicturesAlwaysFollowTheirKey == Spec => []PicturesFollowTheirKey
<1>1. ReceiverInv => PicturesFollowTheirKey
  BY DEF ReceiverInv, Decodable, PicturesFollowTheirKey, Feeding
<1> QED BY <1>1, ReceiverInvariant, PTL

(* stop() leaves neither thread nor codec nor NAL behind, whoever called it *)
(* and however the session had ended.                                       *)
THEOREM NothingIsLeftBehind == Spec => []NothingLeftBehind
<1>1. ReceiverInv => NothingLeftBehind
  BY DEF ReceiverInv
<1> QED BY <1>1, ReceiverInvariant, PTL

====
