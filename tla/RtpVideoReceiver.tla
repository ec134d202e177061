-------------------------- MODULE RtpVideoReceiver --------------------------
(***************************************************************************)
(* The Android video receiver: RtpH264Receiver.java with its receive and   *)
(* decode threads and the lock on one RTP stream, DisconnectWatchdog.java, *)
(* and the part of MainActivity.java that starts and stops it from the UI  *)
(* thread (buttons, the mirror surface, callbacks posted by the threads).  *)
(* A packet stands for what the depacketizer makes of it: parameter sets,  *)
(* a picture, a key picture, or the first or last fragment of a key one.   *)
(***************************************************************************)
EXTENDS Naturals, Sequences

CONSTANTS
  Streams,      \* senders' RTP streams (host and SSRC)
  NoStream,
  MaxPending,   \* MAX_PENDING_NALS
  MaxSessions,  \* bound: times the receiver is started
  Packets,      \* the kinds of packet that arrive
  Oversize      \* whether a NAL may exceed the codec's input buffer

ASSUME StreamsAssumption == NoStream \notin Streams
ASSUME BoundsAssumption == MaxPending \in Nat \ {0} /\ MaxSessions \in Nat
ASSUME PacketsAssumption ==
  /\ Packets \subseteq {"params", "picture", "key", "head", "tail"}
  /\ Oversize \in BOOLEAN

VARIABLES
  running,    \* running
  recv,       \* where the receive thread is
  incoming,   \* the packet or NAL it is working on
  locked,     \* streamLock
  watchdog,   \* "none": no packet yet, "fresh", "timedOut": 3 s of silence
  partial,    \* fuState: {} or the stream and session of the first fragment
  decode,     \* where the decode thread is
  hand,       \* the NAL it polled
  queue,      \* nalQueue
  codec,      \* decoder: "none" (null) or "working"
  awaiting,   \* awaitingKeyFrame
  \* The UI thread.
  ui, goal,   \* the receiver.stop() or start() it is in
  requested,  \* receiverRequested
  surface,    \* the mirror surface is valid
  posted,     \* onDisconnected and onError callbacks waiting in its looper
  \* History.
  session,    \* number of the current start()
  orphaned,   \* a picture queued now builds on one that was dropped
  late,       \* NALs were dropped since hand was polled
  keyStream,  \* the stream whose key picture the codec has
  unsound,    \* since then the codec got or missed something it should not
  settled, live  \* from now on only packets of live (NoStream: none) arrive

recvVars == <<recv, incoming, locked, watchdog, partial>>
codecVars == <<codec, awaiting, keyStream, unsound>>
uiVars == <<ui, goal, requested, surface>>
world == <<settled, live>>
vars == <<running, recvVars, decode, hand, queue, codecVars, uiVars, posted,
          session, orphaned, late, world>>

Sessions == 0..MaxSessions
Types == {"params", "picture", "key"}
Nothing == [type |-> "params", stream |-> NoStream, session |-> 0, mixed |-> FALSE,
            orphan |-> FALSE]
Units == [type : Packets \cup {"key"}, stream : Streams, session : Sessions, mixed : BOOLEAN,
          orphan : BOOLEAN] \cup {Nothing}
Unit(s, type) == [type |-> type, stream |-> s, session |-> session, mixed |-> FALSE,
                  orphan |-> FALSE]

(* The loop condition of both threads, tested when a round is over.         *)
Loop(place) == IF running THEN place ELSE "off"

-----------------------------------------------------------------------------
(* The receive thread.                                                      *)

(* fail(error), and disconnectIfSelectedStreamTimedOut: the session is over *)
(* and the UI thread is told.                                               *)
EndSession == running' = FALSE /\ posted' = posted \cup {session}

(* depacketizeAndQueue: a fragment is kept until its last one arrives.  Its *)
(* header, timestamp and sequence number are taken to fit at will, the      *)
(* worst case for a first fragment of another stream or session.            *)
Depacketize(s, type) ==
  \/ /\ type \in Types
     /\ incoming' = Unit(s, type) /\ recv' = "offer"
     /\ UNCHANGED partial
  \/ /\ type = "head"
     /\ partial' = {<<s, session>>}
     /\ recv' = Loop("receive") /\ incoming' = Nothing
  \/ /\ type = "tail" /\ partial # {}
     /\ partial' = {}
     /\ \/ /\ incoming' = [Unit(s, "key") EXCEPT !.mixed = partial # {<<s, session>>}]
           /\ recv' = "offer"
        \/ recv' = Loop("receive") /\ incoming' = Nothing

(* A packet of the selected stream, or the first packet of all.             *)
ReceiveSelected(s, type) ==
  /\ recv = "receive"
  /\ locked \in {s, NoStream}
  /\ locked' = s
  /\ watchdog' = "fresh"
  /\ Depacketize(s, type)
  /\ UNCHANGED <<running, decode, hand, queue, codecVars, uiVars, posted, session,
                 orphaned, late, world>>

(* Mutant: what was assembled so far of the old stream is kept.             *)
ReceiveOtherKeepsFragments(s, type) ==
  /\ recv = "receive"
  /\ locked \notin {s, NoStream} /\ watchdog = "timedOut"
  /\ recv' = "takeover"
  /\ incoming' = Unit(s, type)
  /\ queue' = <<>>
  /\ orphaned' = TRUE /\ late' = (decode = "feed")
  /\ UNCHANGED <<running, locked, watchdog, partial, decode, hand, codecVars, uiVars, posted,
                 session, world>>

(* A packet of another stream replaces the selected one if that was silent  *)
(* for too long, and is ignored otherwise.  resyncForStreamTakeover first   *)
(* drops what is left of the old stream ...                                 *)
ReceiveOther(s, type) ==
  /\ recv = "receive"
  /\ locked \notin {s, NoStream} /\ watchdog = "timedOut"
  /\ recv' = "takeover"
  /\ incoming' = Unit(s, type)
  /\ partial' = {}
  /\ queue' = <<>>
  /\ orphaned' = TRUE /\ late' = (decode = "feed")
  /\ UNCHANGED <<running, locked, watchdog, decode, hand, codecVars, uiVars, posted,
                 session, world>>

(* Mutant: the lock is asked again without having been reset.               *)
TakeoverKeepsLock ==
  /\ recv = "takeover"
  /\ awaiting' = TRUE
  /\ watchdog' = "fresh"
  /\ \/ Depacketize(incoming.stream, incoming.type)
     \/ /\ incoming.type = "tail"
        /\ recv' = Loop("receive") /\ incoming' = Nothing
        /\ UNCHANGED partial
  /\ UNCHANGED <<running, locked, decode, hand, queue, codec, keyStream, unsound, uiVars, posted,
                 session, orphaned, late, world>>

(* ... and then takes the decoder lock.                                     *)
Takeover ==
  /\ recv = "takeover"
  /\ awaiting' = TRUE
  /\ locked' = incoming.stream
  /\ watchdog' = "fresh"
  /\ \/ Depacketize(incoming.stream, incoming.type)
     \/ /\ incoming.type = "tail"
        /\ recv' = Loop("receive") /\ incoming' = Nothing
        /\ UNCHANGED partial
  /\ UNCHANGED <<running, decode, hand, queue, codec, keyStream, unsound, uiVars, posted,
                 session, orphaned, late, world>>

(* Mutant: the check needs a socket timeout, and other traffic prevents it. *)
NoDisconnect == FALSE /\ UNCHANGED vars

(* A socket timeout, or a packet that is not a valid RTP packet, while the  *)
(* selected stream is silent for too long.  running is not looked at.       *)
Disconnect ==
  /\ recv = "receive" /\ watchdog = "timedOut"
  /\ EndSession
  /\ recv' = "off"
  /\ UNCHANGED <<incoming, locked, watchdog, partial, decode, hand, queue, codecVars, uiVars,
                 session, orphaned, late, world>>

ReceiveFails ==
  /\ recv = "receive" /\ running /\ ~settled
  /\ EndSession
  /\ recv' = "off"
  /\ UNCHANGED <<incoming, locked, watchdog, partial, decode, hand, queue, codecVars, uiVars,
                 session, orphaned, late, world>>

(* Mutant: nothing wakes up a receive that waits for a packet.              *)
ReceiveBlocks == FALSE /\ UNCHANGED vars

(* The socket was closed, or a receive timed out, after running was cleared.*)
ReceiveEnds ==
  /\ recv = "receive" /\ ~running
  /\ recv' = "off"
  /\ UNCHANGED <<running, incoming, locked, watchdog, partial, decode, hand, queue, codecVars,
                 uiVars, posted, session, orphaned, late, world>>

Append1 == Append(queue, [incoming EXCEPT !.orphan = orphaned /\ incoming.type = "picture"])

(* queueNal: offer ...                                                      *)
Offer ==
  /\ recv = "offer"
  /\ IF Len(queue) < MaxPending
     THEN /\ queue' = Append1
          /\ orphaned' = (orphaned /\ incoming.type # "key")
          /\ recv' = Loop("receive") /\ incoming' = Nothing
     ELSE recv' = "full" /\ UNCHANGED <<incoming, queue, orphaned>>
  /\ UNCHANGED <<running, locked, watchdog, partial, decode, hand, codecVars, uiVars,
                 posted, session, late, world>>

(* ... and on overflow drop everything, ...                                 *)
OverflowClear ==
  /\ recv = "full"
  /\ queue' = <<>>
  /\ orphaned' = TRUE /\ late' = (decode = "feed")
  /\ recv' = "cleared"
  /\ UNCHANGED <<running, incoming, locked, watchdog, partial, decode, hand, codecVars, uiVars,
                 posted, session, world>>

(* Mutant: the overflow only drops NALs.                                    *)
OverflowForgetsKey ==
  /\ recv = "cleared"
  /\ IF incoming.type = "picture" THEN UNCHANGED <<queue, orphaned>>
     ELSE queue' = Append1 /\ orphaned' = (incoming.type # "key")
  /\ recv' = Loop("receive") /\ incoming' = Nothing
  /\ UNCHANGED <<running, locked, watchdog, partial, decode, hand, codecVars,
                 uiVars, posted, session, late, world>>

(* ... wait for a key picture, and keep this NAL only if it helps with that.*)
OverflowAwait ==
  /\ recv = "cleared"
  /\ awaiting' = TRUE
  /\ IF incoming.type = "picture" THEN UNCHANGED <<queue, orphaned>>
     ELSE queue' = Append1 /\ orphaned' = (incoming.type # "key")
  /\ recv' = Loop("receive") /\ incoming' = Nothing
  /\ UNCHANGED <<running, locked, watchdog, partial, decode, hand, codec, keyStream,
                 unsound, uiVars, posted, session, late, world>>

-----------------------------------------------------------------------------
(* The decode thread.                                                       *)

Poll ==
  /\ decode = "poll" /\ queue # <<>>
  /\ hand' = Head(queue) /\ queue' = Tail(queue)
  /\ late' = FALSE
  /\ decode' = "feed"
  /\ UNCHANGED <<running, recvVars, codecVars, uiVars, posted, session, orphaned, world>>

DecodeEnds ==
  /\ decode = "poll" /\ ~running
  /\ decode' = "off"
  /\ UNCHANGED <<running, recvVars, hand, queue, codecVars, uiVars, posted, session, orphaned,
                 late, world>>

(* restartDecoderLocked: a new codec, unless the session is being stopped   *)
(* or no codec can be created.                                              *)
RestartDecoder ==
  /\ awaiting' = TRUE
  /\ queue' = <<>>
  /\ orphaned' = TRUE
  /\ keyStream' = NoStream /\ unsound' = FALSE
  /\ \/ running /\ codec' = "working" /\ UNCHANGED <<running, posted>>
     \/ running /\ codec' = "none" /\ EndSession
     \/ ~running /\ codec' = "none" /\ UNCHANGED <<running, posted>>

(* A picture is worth nothing while a key picture is awaited.               *)
Skipped == awaiting /\ hand.type = "picture"

Fed == decode' = Loop("poll") /\ hand' = Nothing /\ late' = FALSE

(* feedDecoder, under the decoder lock.                                     *)
Feed ==
  /\ decode = "feed"
  /\ awaiting' = (awaiting /\ hand.type # "key")
  /\ IF hand.type = "key" /\ codec = "working"
     THEN keyStream' = hand.stream /\ unsound' = late
     ELSE UNCHANGED <<keyStream, unsound>>
  /\ Fed
  /\ UNCHANGED <<running, recvVars, queue, codec, uiVars, posted, session, orphaned, world>>

(* The input buffer is too small: the NAL is left out, and that is all.     *)
FeedOversize ==
  /\ decode = "feed" /\ Oversize /\ ~settled
  /\ ~Skipped /\ codec = "working"
  /\ awaiting' = (awaiting /\ hand.type # "key")
  /\ unsound' = TRUE
  /\ Fed
  /\ UNCHANGED <<running, recvVars, queue, codec, keyStream, uiVars, posted, session,
                 orphaned, world>>

(* No input buffer for ten milliseconds.                                    *)
FeedBlocked ==
  /\ decode = "feed" /\ ~settled
  /\ ~Skipped /\ codec = "working"
  /\ awaiting' = TRUE
  /\ queue' = <<>> /\ orphaned' = TRUE
  /\ Fed
  /\ UNCHANGED <<running, recvVars, codec, keyStream, unsound, uiVars, posted, session,
                 world>>

(* The codec throws, in feedDecoder or in drainDecoder.                     *)
CodecFails ==
  /\ decode \in {"feed", "poll"} /\ ~settled
  /\ decode = "feed" => ~Skipped
  /\ codec = "working"
  /\ RestartDecoder
  /\ decode' = IF running' THEN "poll" ELSE "off"
  /\ hand' = Nothing /\ late' = FALSE
  /\ UNCHANGED <<recvVars, uiVars, session, world>>

(* Anything else that is thrown while it feeds or drains the codec.         *)
DecodeFails ==
  /\ decode \in {"feed", "poll"} /\ running /\ ~settled
  /\ decode = "feed" => ~Skipped
  /\ codec = "working"
  /\ EndSession
  /\ decode' = "off"
  /\ hand' = Nothing /\ late' = FALSE
  /\ UNCHANGED <<recvVars, queue, codecVars, uiVars, session, orphaned, world>>

-----------------------------------------------------------------------------
(* The UI thread.                                                           *)

(* receiver.stop() begins: no more rounds, and the socket is closed.        *)
BeginStop(next) == running' = FALSE /\ ui' = "joinReceive" /\ goal' = next

UserStart ==
  /\ ui = "idle" /\ ~settled /\ session < MaxSessions
  /\ requested' = TRUE
  /\ BeginStop(IF surface THEN "start" ELSE "stop")
  /\ UNCHANGED <<recvVars, decode, hand, queue, codecVars, surface, posted, session, orphaned,
                 late, world>>

(* stopAll                                                                  *)
UserStop ==
  /\ ui = "idle" /\ ~settled
  /\ requested' = FALSE
  /\ BeginStop("stop")
  /\ UNCHANGED <<recvVars, decode, hand, queue, codecVars, surface, posted, session, orphaned,
                 late, world>>

(* surfaceDestroyed pauses the receiver, surfaceCreated resumes it.         *)
SurfaceDestroyed ==
  /\ ui = "idle" /\ ~settled /\ surface
  /\ surface' = FALSE
  /\ IF requested THEN BeginStop("stop") ELSE UNCHANGED <<running, ui, goal>>
  /\ UNCHANGED <<recvVars, decode, hand, queue, codecVars, requested, posted, session, orphaned,
                 late, world>>

SurfaceCreated ==
  /\ ui = "idle" /\ ~settled /\ ~surface
  /\ surface' = TRUE
  /\ IF requested /\ ~running
     THEN session < MaxSessions /\ BeginStop("start")
     ELSE UNCHANGED <<running, ui, goal>>
  /\ UNCHANGED <<recvVars, decode, hand, queue, codecVars, requested, posted, session, orphaned,
                 late, world>>

(* Mutant: the callback believes that a dead receiver needs no stop().      *)
CallbackWithoutStop ==
  /\ ui = "idle"
  /\ \E s \in posted : posted' = posted \ {s}
  /\ requested' = FALSE
  /\ IF requested /\ running THEN BeginStop("stop") ELSE UNCHANGED <<running, ui, goal>>
  /\ UNCHANGED <<recvVars, decode, hand, queue, codecVars, surface, session, orphaned, late,
                 world>>

(* onDisconnected and onError: stopReceiverSession.                         *)
Callback ==
  /\ ui = "idle"
  /\ \E s \in posted : posted' = posted \ {s}
  /\ requested' = FALSE
  /\ IF requested THEN BeginStop("stop") ELSE UNCHANGED <<running, ui, goal>>
  /\ UNCHANGED <<recvVars, decode, hand, queue, codecVars, surface, session, orphaned, late,
                 world>>

JoinReceive ==
  /\ ui = "joinReceive" /\ recv = "off"
  /\ ui' = "joinDecode"
  /\ UNCHANGED <<running, recvVars, decode, hand, queue, codecVars, goal, requested, surface,
                 posted, session, orphaned, late, world>>

(* What stop() leaves behind, and start() begins with.                      *)
Cleared == /\ queue' = <<>>
           /\ awaiting' = TRUE /\ keyStream' = NoStream /\ unsound' = FALSE
           /\ partial' = {} /\ watchdog' = "none" /\ locked' = NoStream

JoinDecode ==
  /\ ui = "joinDecode" /\ decode = "off"
  /\ Cleared /\ codec' = "none"
  /\ ui' = IF goal = "start" THEN "open" ELSE "idle"
  /\ goal' = "stop"
  /\ UNCHANGED <<running, recv, incoming, decode, hand, requested, surface, posted,
                 session, orphaned, late, world>>

(* The rest of start(): socket, codec and threads.                          *)
Open ==
  /\ ui = "open"
  /\ Cleared /\ codec' = "working"
  /\ running' = TRUE
  /\ recv' = "receive" /\ decode' = "poll"
  /\ session' = session + 1 /\ orphaned' = TRUE /\ late' = FALSE
  /\ ui' = "idle"
  /\ UNCHANGED <<incoming, hand, goal, requested, surface, posted, world>>

OpenFails ==
  /\ ui = "open" /\ ~settled
  /\ requested' = FALSE
  /\ ui' = "idle"
  /\ UNCHANGED <<running, recvVars, decode, hand, queue, codecVars, goal, surface, posted,
                 session, orphaned, late, world>>

(* startReceiverOnSurface then starts the audio receiver and the beacon: if *)
(* one of them fails, at once or later, everything stops.                   *)
AnotherPartFails ==
  /\ ui = "idle" /\ requested /\ running /\ ~settled
  /\ requested' = FALSE
  /\ BeginStop("stop")
  /\ UNCHANGED <<recvVars, decode, hand, queue, codecVars, surface, posted, session, orphaned,
                 late, world>>

-----------------------------------------------------------------------------
(* The environment.                                                         *)

(* The selected stream has been silent for three seconds.                   *)
Silence ==
  /\ watchdog = "fresh" /\ (settled => locked # live)
  /\ watchdog' = "timedOut"
  /\ UNCHANGED <<running, recv, incoming, locked, partial, decode, hand, queue, codecVars, uiVars,
                 posted, session, orphaned, late, world>>

(* From now on one sender streams without loss and the codec keeps up with  *)
(* it, or nobody does; the user and the system leave the receiver alone.    *)
Settle ==
  /\ ~settled
  /\ settled' = TRUE
  /\ live' \in Streams \cup {NoStream}
  /\ UNCHANGED <<running, recvVars, decode, hand, queue, codecVars, uiVars, posted, session,
                 orphaned, late>>

Arrive(s, type) ==
  /\ settled => s = live /\ Len(queue) < MaxPending
  /\ ReceiveSelected(s, type) \/ ReceiveOther(s, type)

ReceiveThread == Takeover \/ Disconnect \/ ReceiveEnds \/ Offer \/ OverflowClear \/ OverflowAwait
DecodeThread == Poll \/ DecodeEnds \/ Feed
UiThread == Callback \/ JoinReceive \/ JoinDecode \/ Open
Events == UserStart \/ UserStop \/ SurfaceDestroyed \/ SurfaceCreated \/ OpenFails \/ AnotherPartFails
Failures == ReceiveFails \/ FeedOversize \/ FeedBlocked \/ CodecFails
            \/ DecodeFails

-----------------------------------------------------------------------------
Init ==
  /\ running = FALSE
  /\ recv = "off" /\ locked = NoStream /\ watchdog = "none" /\ partial = {}
  /\ incoming = Nothing /\ hand = Nothing
  /\ decode = "off" /\ queue = <<>>
  /\ codec = "none" /\ awaiting = TRUE
  /\ ui = "idle" /\ goal = "stop" /\ requested = FALSE /\ surface = FALSE /\ posted = {}
  /\ session = 0 /\ orphaned = TRUE /\ late = FALSE
  /\ keyStream = NoStream /\ unsound = FALSE
  /\ settled = FALSE /\ live = NoStream

Next == \/ \E s \in Streams, type \in Packets : Arrive(s, type)
        \/ ReceiveThread \/ DecodeThread \/ UiThread
        \/ Events \/ Failures \/ Silence

Spec == Init /\ [][Next]_vars

(* The threads are scheduled, posted callbacks run, time passes, and a      *)
(* settled sender sends key pictures again and again.                       *)
Fairness ==
  /\ WF_vars(ReceiveThread) /\ WF_vars(DecodeThread) /\ WF_vars(UiThread) /\ WF_vars(Silence)
  /\ SF_vars(settled /\ \E s \in Streams : Arrive(s, "key"))

FairSpec == Init /\ [][Next \/ Settle]_vars /\ Fairness

-----------------------------------------------------------------------------
FlagsOK ==
  /\ running \in BOOLEAN /\ awaiting \in BOOLEAN
  /\ requested \in BOOLEAN /\ surface \in BOOLEAN
  /\ orphaned \in BOOLEAN /\ late \in BOOLEAN /\ unsound \in BOOLEAN
  /\ settled \in BOOLEAN

PlacesOK ==
  /\ recv \in {"off", "receive", "takeover", "offer", "full", "cleared"}
  /\ incoming \in Units /\ hand \in Units
  /\ locked \in Streams \cup {NoStream}
  /\ watchdog \in {"none", "fresh", "timedOut"}
  /\ partial \subseteq Streams \X Sessions
  /\ decode \in {"off", "poll", "feed"}
  /\ queue \in Seq(Units) /\ Len(queue) <= MaxPending
  /\ codec \in {"none", "working"}
  /\ ui \in {"idle", "joinReceive", "joinDecode", "open"} /\ goal \in {"stop", "start"}
  /\ posted \subseteq Sessions /\ session \in Sessions
  /\ keyStream \in Streams \cup {NoStream}
  /\ live \in Streams \cup {NoStream}

TypeOK == FlagsOK /\ PlacesOK

Feeding == decode = "feed" /\ codec = "working" /\ ~awaiting /\ hand.type = "picture"

(* The codec is fed a picture only on top of a key picture of the same      *)
(* stream, with nothing dropped in between: after an overflow, a blocked or *)
(* restarted codec and a takeover alike.  Two gaps in the code are excepted:*)
(* a key picture that was polled before the drop and fed after it ends the  *)
(* wait, and so does one that was too large to be fed.                      *)
PicturesFollowTheirKey ==
  Feeding => unsound \/ (~hand.orphan /\ keyStream = hand.stream)

(* A restarted receiver never shows anything that an earlier session        *)
(* received: its threads ended and its queue was emptied before.            *)
NalsAreOfThisSession ==
  /\ \A i \in DOMAIN queue : queue[i].session = session
  /\ decode = "feed" => hand.session = session

(* No NAL is ever put together from fragments of two streams or sessions.   *)
NalsAreWhole == \A i \in DOMAIN queue : ~queue[i].mixed

(* The queue between the threads keeps its bound, and what lies in it is    *)
(* one sender's and this session's, through overflow, takeover and restart. *)
QueueIsSound == TypeOK /\ NalsAreOfThisSession /\ NalsAreWhole

(* When the UI is back to idle, the socket, the codec and both threads are  *)
(* gone, however the session ended.                                         *)
NothingLeftBehind ==
  ui = "idle" /\ ~requested => recv = "off" /\ decode = "off" /\ codec = "none" /\ queue = <<>>

(* stop() and start() return.                                               *)
StopReturns == ui # "idle" ~> ui = "idle"

(* A session that died never leaves the UI waiting for it.                  *)
DeathIsNoticed == requested /\ ~running /\ surface /\ ui = "idle" ~> running \/ ~requested \/ ~surface

(* A receiver whose senders are all gone tells the user so.                 *)
SilenceIsNoticed ==
  settled /\ live = NoStream /\ running /\ locked # NoStream ~> ~requested

(* The activity always learns that its receiver has ended: of threads that  *)
(* failed, and of senders that fell silent.                                 *)
EndIsNoticed == DeathIsNoticed /\ SilenceIsNoticed

(* A stream that keeps coming is shown, whatever stream was selected before *)
(* and whatever was dropped, blocked or restarted.                          *)
Showing == ~awaiting /\ keyStream = live
PictureReturns ==
  settled /\ live # NoStream /\ running ~> [](Showing \/ ~running)
=============================================================================
