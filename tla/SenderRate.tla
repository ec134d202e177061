----------------------------- MODULE SenderRate -----------------------------
(***************************************************************************)
(* Rate control of a desktop sender: the loop of                           *)
(* run_pipeline_until_stop_with_pacer (pipeline.rs) with its               *)
(* AdaptiveBitrateController and SenderKeyUnitRequester, next to the       *)
(* control thread that fills the FeedbackStore (control.rs) with what the  *)
(* receivers report. Streams come and go; the store outlives them. Time    *)
(* is counted in ticks of MIN_KEY_UNIT_REQUEST_INTERVAL or less, and an    *)
(* Instant is kept as the ticks until it is reached, or since.             *)
(***************************************************************************)
EXTENDS Naturals, FiniteSets

CONSTANTS
  Receivers,    \* LAN addresses that send reports
  Reports,      \* what they report
  Ceilings,     \* configured bitrates, kbit/s
  Interval,     \* ADAPTIVE_BITRATE_INTERVAL
  KeyInterval,  \* FORCE_KEY_UNIT_INTERVAL
  MinKey,       \* MIN_KEY_UNIT_REQUEST_INTERVAL
  StaleAfter,   \* FEEDBACK_STALE_AFTER
  MaxU32,       \* the greatest u32, where saturating_mul stops
  MaxLag        \* bound: ticks that pass in one iteration of the loop

\* A ratio or jitter below the healthy threshold, between the two thresholds,
\* or at the congested one.
Levels == 0..2

\* The bitrate is a u32 that is checked to be positive, and nothing more
\* (ensure_positive, build_sender_video_pipeline_for).
ASSUME CeilingsAssumption ==
  MaxU32 \in Nat /\ \A c \in Ceilings : c \in Nat \ {0} /\ c <= MaxU32
ASSUME ReportsAssumption ==
  Reports \subseteq [loss : Levels, late : Levels, jitter : Levels]
ASSUME TimesAssumption ==
  /\ {Interval, KeyInterval, MinKey, MaxLag} \subseteq Nat \ {0}
  /\ StaleAfter \in Nat
  /\ MinKey <= KeyInterval

VARIABLES
  pc,            \* where the loop is; "ended": no pipeline
  lag,           \* ticks the loop has been waiting on the bus
  \* AdaptiveBitrateController, the encoder and the pacer.
  ceiling, current, stable, untilUpdate,
  tunable,       \* the encoder element has a bitrate property
  encoderRate,   \* its value
  pacerRate,     \* the bitrate the pacer was given
  \* SenderKeyUnitRequester.
  untilRequest,  \* next_request
  sinceRequest,  \* last_requested_at
  lossSeen,      \* loss_detected of this iteration
  \* FeedbackStore: address to report and age.
  store,
  \* History and environment.
  cleanRun,      \* updates of this stream in a row, since it last went faster, that
                 \* saw only clean reports
  hasty,         \* a key frame was requested too soon after another
  settled, weather, staying  \* from now on they, and nobody else, report this,
                             \* and in time

controller == <<ceiling, current, stable, untilUpdate>>
rates == <<tunable, encoderRate, pacerRate>>
requester == <<untilRequest, sinceRequest>>
world == <<settled, weather, staying>>
vars == <<pc, lag, controller, rates, requester, lossSeen, store, cleanRun,
          hasty, world>>

Lower(a, b) == IF a < b THEN a ELSE b
Higher(a, b) == IF a > b THEN a ELSE b

\* Above the ceiling when that is below 1000 kbit/s.
Floor(c) == Higher(c \div 2, 1000)
\* saturating_mul of a rate by a percentage.
Percent(rate, n) == Lower(rate * n, MaxU32) \div 100
CleanReport == [loss |-> 0, late |-> 0, jitter |-> 0]
CongestedReport == [loss |-> 2, late |-> 2, jitter |-> 2]
Entries == [report : Reports \cup {CleanReport, CongestedReport}, age : 0..(StaleAfter + 1)]

-----------------------------------------------------------------------------
(* FeedbackStore.                                                          *)

\* health: the worst of each figure over the entries that are not stale.
\* Mutant of Fresh: stale entries count.
EverHeard == DOMAIN store
Fresh == {r \in DOMAIN store : store[r].age <= StaleAfter}
Worst(level, f) == \E r \in Fresh : store[r].report[f] >= level

LossDetected == Worst(2, "loss") \/ Worst(2, "late")
Congested == LossDetected \/ Worst(2, "jitter")
Healthy == ~ \E f \in {"loss", "late", "jitter"} : Worst(1, f)

\* The control server's thread: a report with the right PIN arrives.
Report(r) ==
  /\ \E p \in Reports \cup {CleanReport, CongestedReport} :
       /\ settled => r \in staying /\ p = weather
       /\ store' = [x \in DOMAIN store \cup {r} |->
                     IF x = r THEN [report |-> p, age |-> 0] ELSE store[x]]
  /\ UNCHANGED <<pc, lag, controller, rates, requester, lossSeen, cleanRun,
                 hasty, world>>

-----------------------------------------------------------------------------
(* The loop.                                                               *)

\* The supervisor starts a pipeline with what is configured then.
StreamStarts ==
  /\ pc = "ended"
  /\ \E c \in Ceilings :
       ceiling' = c /\ current' = c /\ encoderRate' = c /\ pacerRate' = c
  /\ tunable' \in BOOLEAN
  /\ pc' = "top" /\ lag' = 0
  /\ stable' = 0 /\ untilUpdate' = 0
  /\ untilRequest' = 0 /\ sinceRequest' = MinKey
  /\ cleanRun' = 0
  /\ UNCHANGED <<lossSeen, store, hasty, world>>

\* stop_rx at the top of the loop, or the end or an error on the bus.
StreamEnds ==
  /\ pc = "top" /\ ~settled
  /\ pc' = "ended" /\ lag' = 0
  /\ lossSeen' = FALSE
  /\ UNCHANGED <<controller, rates, requester, store, cleanRun, hasty, world>>

\* send_request.
SendRequest ==
  /\ untilRequest' = KeyInterval /\ sinceRequest' = 0
  /\ hasty' = (hasty \/ sinceRequest < MinKey)

\* request_if_due.
RequestIfDue ==
  /\ pc = "top" /\ pc' = "update" /\ lag' = 0
  /\ IF untilRequest = 0
       THEN SendRequest
       ELSE UNCHANGED <<requester, hasty>>
  /\ UNCHANGED <<controller, rates, lossSeen, store, cleanRun, world>>

UpdateNotDue ==
  /\ pc = "update" /\ untilUpdate > 0
  /\ pc' = "top"
  /\ UNCHANGED <<lag, controller, rates, requester, lossSeen, store, cleanRun,
                 hasty, world>>

\* Mutant of Lowered: bounded by the ceiling instead of the floor.
LoweredToCeiling(rate, c) == Higher(Percent(rate, 80), c)
Lowered(rate, c) == Higher(Percent(rate, 80), Floor(c))
\* Mutant of Raised: not bounded.
RaisedForever(rate, c) == Percent(rate, 105)
Raised(rate, c) == Lower(Percent(rate, 105), c)
\* Mutant of NextTarget: a window between the thresholds does not start anew.
TargetKeepsCount ==
  IF Fresh = {} THEN [rate |-> current, stable |-> 0]
  ELSE IF Congested THEN [rate |-> Lowered(current, ceiling), stable |-> 0]
  ELSE IF ~Healthy THEN [rate |-> current, stable |-> stable]
  ELSE IF stable + 1 >= 3 THEN [rate |-> Raised(current, ceiling), stable |-> 0]
  ELSE [rate |-> current, stable |-> stable + 1]

\* next_target: the rate asked for and stable_windows after it.
NextTarget ==
  IF Fresh = {} THEN [rate |-> current, stable |-> 0]
  ELSE IF Congested THEN [rate |-> Lowered(current, ceiling), stable |-> 0]
  ELSE IF ~Healthy THEN [rate |-> current, stable |-> 0]
  ELSE IF stable + 1 >= 3 THEN [rate |-> Raised(current, ceiling), stable |-> 0]
  ELSE [rate |-> current, stable |-> stable + 1]

\* History: what a window that counts towards a rise consists of.
AllClean == Fresh # {} /\ \A r \in Fresh : store[r].report = CleanReport

\* Mutant of Update: the pacer follows although the encoder refused.
UpdatesPacerAnyway ==
  /\ pc = "update" /\ untilUpdate = 0
  /\ untilUpdate' = Interval
  /\ LET target == NextTarget IN
       /\ stable' = target.stable
       /\ IF target.rate # current
            THEN /\ current' = target.rate
                 /\ encoderRate' = IF tunable THEN target.rate ELSE encoderRate
                 /\ pc' = "pacer"
            ELSE /\ pc' = "react"
                 /\ UNCHANGED <<current, encoderRate>>
  /\ lossSeen' = LossDetected
  /\ cleanRun' = IF AllClean /\ current' <= current THEN Lower(cleanRun + 1, 3) ELSE 0
  /\ UNCHANGED <<lag, ceiling, tunable, pacerRate, requester, store, hasty, world>>

\* AdaptiveBitrateController.update up to set_encoder_bitrate, which a fixed
\* encoder refuses; the pacer is adjusted afterwards, under its lock.
Update ==
  /\ pc = "update" /\ untilUpdate = 0
  /\ untilUpdate' = Interval
  /\ LET target == NextTarget IN
       /\ stable' = target.stable
       /\ IF target.rate # current /\ tunable
            THEN /\ current' = target.rate /\ encoderRate' = target.rate
                 /\ pc' = "pacer"
            ELSE /\ pc' = "react"
                 /\ UNCHANGED <<current, encoderRate>>
  /\ lossSeen' = LossDetected
  /\ cleanRun' = IF AllClean /\ current' <= current THEN Lower(cleanRun + 1, 3) ELSE 0
  /\ UNCHANGED <<lag, ceiling, tunable, pacerRate, requester, store, hasty, world>>

SetPacerRate ==
  /\ pc = "pacer" /\ pc' = "react"
  /\ pacerRate' = current
  /\ UNCHANGED <<lag, controller, tunable, encoderRate, requester, lossSeen, store,
                 cleanRun, hasty, world>>

\* Mutant of React: requests are not limited.
ReactAlways ==
  /\ pc = "react" /\ pc' = "top"
  /\ IF lossSeen
       THEN SendRequest
       ELSE UNCHANGED <<requester, hasty>>
  /\ lossSeen' = FALSE
  /\ UNCHANGED <<lag, controller, rates, store, cleanRun, world>>

\* request_immediate after a window with losses.
React ==
  /\ pc = "react" /\ pc' = "top"
  /\ IF lossSeen /\ sinceRequest >= MinKey
       THEN SendRequest
       ELSE UNCHANGED <<requester, hasty>>
  /\ lossSeen' = FALSE
  /\ UNCHANGED <<lag, controller, rates, store, cleanRun, world>>

Loop == RequestIfDue \/ UpdateNotDue \/ Update \/ SetPacerRate \/ React

-----------------------------------------------------------------------------
(* Time and the world.                                                     *)

Down(n) == IF n = 0 THEN 0 ELSE n - 1

\* Time passes while the loop waits on the bus (timed_pop), never longer than
\* MaxLag; once the world is settled the reports arrive before the last ones are
\* stale.
Tick ==
  /\ pc = "ended" \/ (pc = "top" /\ lag < MaxLag)
  /\ settled => \A r \in staying : r \in Fresh /\ store[r].age < StaleAfter
  /\ lag' = IF pc = "ended" THEN 0 ELSE lag + 1
  /\ untilUpdate' = Down(untilUpdate)
  /\ untilRequest' = Down(untilRequest)
  /\ sinceRequest' = Lower(sinceRequest + 1, KeyInterval + MaxLag + 1)
  /\ store' = [r \in DOMAIN store |->
                [store[r] EXCEPT !.age = Lower(@ + 1, StaleAfter + 1)]]
  /\ UNCHANGED <<pc, ceiling, current, stable, rates, lossSeen, cleanRun, hasty,
                 world>>

\* From now on the network is clean, or congested, for those who stay, and a
\* stream runs on an encoder that can be adjusted.
Settle ==
  /\ ~settled /\ pc # "ended" /\ tunable
  /\ settled' = TRUE
  /\ weather' \in {CleanReport, CongestedReport}
  /\ staying' \in SUBSET Receivers \ {{}}
  /\ UNCHANGED <<pc, lag, controller, rates, requester, lossSeen, store,
                 cleanRun, hasty>>

Init ==
  /\ pc = "ended" /\ lag = 0
  /\ ceiling \in Ceilings /\ current = ceiling /\ stable = 0 /\ untilUpdate = 0
  /\ tunable = TRUE /\ encoderRate = ceiling /\ pacerRate = ceiling
  /\ untilRequest = 0 /\ sinceRequest = MinKey
  /\ lossSeen = FALSE
  /\ store = [r \in {} |-> CleanReport]
  /\ cleanRun = 0 /\ hasty = FALSE
  /\ settled = FALSE /\ weather = CleanReport /\ staying = {}

Next ==
  \/ \E r \in Receivers : Report(r)
  \/ StreamStarts \/ StreamEnds \/ Loop
  \/ Tick \/ Settle

Fairness ==
  /\ WF_vars(Loop) /\ SF_vars(Tick)
  /\ \A r \in Receivers : WF_vars(settled /\ Report(r))

Spec == Init /\ [][Next]_vars /\ Fairness

-----------------------------------------------------------------------------
(* Properties.                                                             *)

TypeOK ==
  /\ pc \in {"ended", "top", "update", "pacer", "react"}
  /\ lag \in 0..MaxLag
  /\ ceiling \in Ceilings /\ {current, encoderRate, pacerRate} \subseteq Nat
  /\ stable \in 0..2 /\ untilUpdate \in 0..Interval /\ tunable \in BOOLEAN
  /\ untilRequest \in 0..KeyInterval /\ sinceRequest \in 0..(KeyInterval + MaxLag + 1)
  /\ lossSeen \in BOOLEAN /\ hasty \in BOOLEAN /\ cleanRun \in 0..3
  /\ DOMAIN store \subseteq Receivers /\ \A r \in DOMAIN store : store[r] \in Entries
  /\ settled \in BOOLEAN /\ weather \in {CleanReport, CongestedReport}
  /\ staying \subseteq Receivers

\* The rate of the controller, the encoder and the pacer alike stays between half
\* of what is configured, or 1000 kbit/s, and what is configured
\* (AdaptiveBitrateController, pipeline.rs), with the two exceptions the code
\* makes: when less than 1000 is configured, congestion raises the rate to 1000
\* (finding 13), and a rise that saturates leaves a hundredth of MaxU32.
RateWithinBounds ==
  \A rate \in {current, encoderRate, pacerRate} :
    /\ rate <= Higher(ceiling, 1000)
    /\ rate >= Lower(Lower(ceiling, Floor(ceiling)), MaxU32 \div 100)

\* The pacer sends at the rate the encoder produces, whichever of them refuses
\* a change; only while the loop is between the two may they differ
\* (update, pipeline.rs: "the encoder would keep producing at the higher rate").
PacerFollowsEncoder ==
  /\ encoderRate = current
  /\ pc # "pacer" => pacerRate = encoderRate

\* The rate rises at the third update in a row that saw reports, all of them
\* clean, and not again before three more (doc of AdaptiveBitrateController):
\* one receiver in trouble, of however many, starts the count anew. Only a rate
\* below the floor, where a stream of less than 1000 kbit/s starts, rises without
\* them: congestion then raises it to the floor (finding 13).
RisesAreEarned ==
  [][(current' > current /\ pc # "ended") =>
       \/ AllClean /\ cleanRun >= 2
       \/ Congested /\ current < Floor(ceiling) /\ current' = Floor(ceiling)]_vars

\* Whatever asks for them, the schedule or a loss, two key frame requests are at
\* least MIN_KEY_UNIT_REQUEST_INTERVAL apart and, while a stream runs, at most
\* FORCE_KEY_UNIT_INTERVAL and one wait of the loop: a refused request delays
\* the next one no further (KeyUnitSchedule, SenderKeyUnitRequester).
RequestsAreSpaced ==
  ~hasty /\ (pc # "ended" => sinceRequest <= KeyInterval + MaxLag)

Unsaturated == {c \in Ceilings : c * 105 <= MaxU32}

\* Once everyone who still reports has clean windows the rate returns to what is
\* configured, whatever those who left said last (FEEDBACK_STALE_AFTER), unless
\* that is so much that its rise saturates.
RateRecovers ==
  (settled /\ weather = CleanReport /\ ceiling \in Unsaturated) ~> current = ceiling

\* Once they report congestion the rate comes to the floor, whatever those who
\* left said last.
RateYields ==
  (settled /\ weather = CongestedReport) ~> current = Floor(ceiling)

=============================================================================
