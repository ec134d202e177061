-------------------------- MODULE SenderRateProofs --------------------------
(***************************************************************************)
(* Proofs about SenderRate: its bounds, its pacer, the spacing of the key  *)
(* frame requests and the rule for rises hold for every set of receivers,  *)
(* whatever they report, and for all limits. RateInv is inductive.         *)
(***************************************************************************)
EXTENDS SenderRate, TLAPS

LEMMA Limits ==
  /\ Interval \in Nat /\ KeyInterval \in Nat /\ MinKey \in Nat /\ MaxLag \in Nat
  /\ StaleAfter \in Nat /\ 0 < KeyInterval /\ MinKey <= KeyInterval
BY TimesAssumption

LEMMA SumIsLarger ==
  ASSUME NEW a \in Nat, NEW b \in Nat, NEW m \in Nat, b >= m
  PROVE  a + b >= m
OBVIOUS

LEMMA BoundWithLag ==
  ASSUME NEW s \in Nat, NEW k \in Nat, NEW l \in Nat, 0 + s <= k
  PROVE  s <= k + l
OBVIOUS

\* Requests and losses share one timer: how far away the next scheduled request
\* is and how long ago the last one was go together.
RequestTiming ==
  /\ pc \notin {"top", "ended"} => untilRequest > 0 /\ lag = 0
  /\ untilRequest + sinceRequest >= MinKey
  /\ pc # "ended" /\ untilRequest > 0 => untilRequest + sinceRequest <= KeyInterval
  /\ pc # "ended" /\ untilRequest = 0 => sinceRequest <= KeyInterval + lag
  /\ ~hasty

\* No window is counted as stable that was not clean.
StableIsClean == stable <= cleanRun

RateInv ==
  TypeOK /\ RateWithinBounds /\ PacerFollowsEncoder /\ RequestTiming /\ StableIsClean

-----------------------------------------------------------------------------
(* Rates.                                                                  *)

\* The bounds of RateWithinBounds.
Least(c) == Lower(Lower(c, Floor(c)), MaxU32 \div 100)
Most(c) == Higher(c, 1000)

LEMMA FloorFits ==
  ASSUME NEW c \in Ceilings
  PROVE  /\ c \in Nat /\ Floor(c) \in Nat /\ Least(c) \in Nat /\ Most(c) \in Nat
         /\ Least(c) <= c /\ c <= Most(c)
         /\ Least(c) <= Floor(c) /\ Floor(c) <= Most(c)
         /\ Least(c) <= MaxU32 \div 100
<1>1. c \in Nat /\ MaxU32 \in Nat BY CeilingsAssumption
<1>2. c \div 2 \in Nat /\ c \div 2 <= c /\ MaxU32 \div 100 \in Nat BY <1>1
<1>3. Floor(c) \in Nat /\ Floor(c) <= Most(c) /\ c <= Most(c) /\ Most(c) \in Nat
  BY <1>1, <1>2 DEF Floor, Higher, Most
<1> QED BY <1>1, <1>2, <1>3 DEF Least, Lower

\* A percentage below 100 lowers a rate; one above raises it or saturates.
LEMMA PercentFits ==
  ASSUME NEW rate \in Nat
  PROVE  /\ Percent(rate, 80) \in Nat /\ Percent(rate, 80) <= rate
         /\ Percent(rate, 105) \in Nat
         /\ rate <= Percent(rate, 105) \/ Percent(rate, 105) = MaxU32 \div 100
<1>1. MaxU32 \in Nat BY CeilingsAssumption
<1>2. (rate * 80) \div 100 \in Nat /\ (rate * 80) \div 100 <= rate
      /\ (rate * 105) \div 100 \in Nat /\ rate <= (rate * 105) \div 100
      /\ MaxU32 \div 100 \in Nat
  BY <1>1
<1>3. MaxU32 < rate * 80 => MaxU32 \div 100 <= rate BY <1>1
<1> QED BY <1>1, <1>2, <1>3 DEF Percent, Lower

\* Lowering stays within the bounds, and raises only what is below the floor.
LEMMA LoweredFits ==
  ASSUME NEW c \in Ceilings, NEW rate \in Nat, rate <= Most(c)
  PROVE  /\ Lowered(rate, c) \in Nat
         /\ Least(c) <= Lowered(rate, c) /\ Lowered(rate, c) <= Most(c)
         /\ Lowered(rate, c) > rate => rate < Floor(c) /\ Lowered(rate, c) = Floor(c)
BY FloorFits, PercentFits DEF Lowered, Higher

\* Raising stays within the bounds.
LEMMA RaisedFits ==
  ASSUME NEW c \in Ceilings, NEW rate \in Nat, Least(c) <= rate
  PROVE  /\ Raised(rate, c) \in Nat
         /\ Least(c) <= Raised(rate, c) /\ Raised(rate, c) <= Most(c)
BY FloorFits, PercentFits DEF Raised, Lower

\* What a rise is owed to.
Earned == Fresh # {} /\ Healthy /\ stable = 2
ToTheFloor(target) == Congested /\ current < Floor(ceiling) /\ target = Floor(ceiling)

LEMMA TargetFits ==
  ASSUME TypeOK, RateWithinBounds
  PROVE  /\ NextTarget.rate \in Nat /\ NextTarget.stable \in 0..2
         /\ Least(ceiling) <= NextTarget.rate /\ NextTarget.rate <= Most(ceiling)
         /\ NextTarget.rate > current => Earned \/ ToTheFloor(NextTarget.rate)
         /\ NextTarget.stable # 0 =>
              /\ Fresh # {} /\ Healthy /\ NextTarget.rate = current
              /\ NextTarget.stable = stable + 1
<1>1. current \in Nat /\ ceiling \in Ceilings /\ stable \in 0..2 BY DEF TypeOK
<1>2. Least(ceiling) <= current /\ current <= Most(ceiling)
  BY <1>1, FloorFits DEF RateWithinBounds, Least, Most
<1>3. /\ Lowered(current, ceiling) \in Nat
      /\ Least(ceiling) <= Lowered(current, ceiling)
      /\ Lowered(current, ceiling) <= Most(ceiling)
      /\ Lowered(current, ceiling) > current =>
           current < Floor(ceiling) /\ Lowered(current, ceiling) = Floor(ceiling)
  BY <1>1, <1>2, LoweredFits
<1>4. /\ Raised(current, ceiling) \in Nat
      /\ Least(ceiling) <= Raised(current, ceiling)
      /\ Raised(current, ceiling) <= Most(ceiling)
  BY <1>1, <1>2, RaisedFits
<1>6. CASE Fresh = {} BY <1>1, <1>2, <1>6 DEF NextTarget
<1>7. CASE Fresh # {} /\ Congested BY <1>1, <1>3, <1>7 DEF NextTarget, ToTheFloor
<1>8. CASE Fresh # {} /\ ~Congested /\ ~Healthy
  BY <1>1, <1>2, <1>8 DEF NextTarget
<1>9. CASE Fresh # {} /\ ~Congested /\ Healthy /\ stable = 2
  BY <1>1, <1>4, <1>9 DEF NextTarget, Earned
<1>10. CASE Fresh # {} /\ ~Congested /\ Healthy /\ stable # 2
  BY <1>1, <1>2, <1>10 DEF NextTarget
<1> QED BY <1>6, <1>7, <1>8, <1>9, <1>10

\* The worst of each figure is good only if every figure of everyone is.
LEMMA HealthyIsClean ==
  ASSUME TypeOK, Healthy
  PROVE  \A r \in Fresh : store[r].report = CleanReport
<1> SUFFICES ASSUME NEW r \in Fresh PROVE store[r].report = CleanReport
  OBVIOUS
<1>1. store[r] \in Entries BY DEF TypeOK, Fresh
<1>2. store[r].report \in [loss : Levels, late : Levels, jitter : Levels]
  BY <1>1, ReportsAssumption DEF Entries, CleanReport, CongestedReport, Levels
<1>3. \A f \in {"loss", "late", "jitter"} : ~(store[r].report[f] >= 1)
  BY DEF Healthy, Worst
<1>4. /\ ~(store[r].report.loss >= 1) /\ ~(store[r].report.late >= 1)
      /\ ~(store[r].report.jitter >= 1)
  BY <1>3
<1>5. /\ store[r].report.loss = 0 /\ store[r].report.late = 0
      /\ store[r].report.jitter = 0
  BY <1>2, <1>4 DEF Levels
<1> QED BY <1>2, <1>5 DEF CleanReport

-----------------------------------------------------------------------------
(* RateInv is an invariant: one lemma per action.                          *)

LEMMA InitInv == Init => RateInv
<1> SUFFICES ASSUME Init PROVE RateInv
  OBVIOUS
<1> USE Limits DEF Init
<1>1. TypeOK
  <2>1. ceiling \in Nat BY FloorFits
  <2>2. lag \in 0..MaxLag /\ untilUpdate \in 0..Interval /\ untilRequest \in 0..KeyInterval
        /\ sinceRequest \in 0..(KeyInterval + MaxLag + 1)
    BY Limits
  <2>3. DOMAIN store = {} OBVIOUS
  <2>4. {current, encoderRate, pacerRate} \subseteq Nat BY <2>1
  <2>5. DOMAIN store \subseteq Receivers /\ \A r \in DOMAIN store : store[r] \in Entries
    BY <2>3
  <2>6. /\ pc \in {"ended", "top", "update", "pacer", "react"}
        /\ ceiling \in Ceilings /\ stable \in 0..2 /\ cleanRun \in 0..3
    OBVIOUS
  <2>7. /\ tunable \in BOOLEAN /\ lossSeen \in BOOLEAN /\ hasty \in BOOLEAN
        /\ settled \in BOOLEAN /\ weather \in {CleanReport, CongestedReport}
        /\ staying \subseteq Receivers
    OBVIOUS
  <2> HIDE DEF Init
  <2> QED BY <2>2, <2>4, <2>5, <2>6, <2>7 DEF TypeOK
<1>2. RateWithinBounds BY FloorFits DEF RateWithinBounds, Least, Most
<1>3. PacerFollowsEncoder /\ StableIsClean BY DEF PacerFollowsEncoder, StableIsClean
<1>4. RequestTiming BY DEF RequestTiming
<1> QED BY <1>1, <1>2, <1>3, <1>4 DEF RateInv

LEMMA ReportInv ==
  ASSUME RateInv, NEW r \in Receivers, Report(r)
  PROVE  RateInv'
<1> USE DEF RateInv
<1>1. PICK p \in Reports \cup {CleanReport, CongestedReport} :
        store' = [x \in DOMAIN store \cup {r} |->
                   IF x = r THEN [report |-> p, age |-> 0] ELSE store[x]]
  BY DEF Report
<1>2. [report |-> p, age |-> 0] \in Entries BY Limits DEF Entries
<1>3. DOMAIN store' \subseteq Receivers /\ \A x \in DOMAIN store' : store'[x] \in Entries
  BY <1>1, <1>2 DEF TypeOK
<1>4. TypeOK'
  BY <1>3 DEF TypeOK, Report, controller, rates, requester, world
<1> QED
  BY <1>4 DEF Report, controller, rates, requester, world, RateWithinBounds,
              PacerFollowsEncoder, RequestTiming, StableIsClean

LEMMA StreamInv ==
  ASSUME RateInv, StreamStarts \/ StreamEnds
  PROVE  RateInv'
<1> USE DEF RateInv
<1>1. CASE StreamStarts
  <2>1. PICK c \in Ceilings :
          ceiling' = c /\ current' = c /\ encoderRate' = c /\ pacerRate' = c
    BY <1>1 DEF StreamStarts
  <2>2. c \in Nat /\ Least(c) <= c /\ c <= Most(c) BY FloorFits
  <2>3. TypeOK' BY <1>1, <2>1, <2>2, Limits DEF TypeOK, StreamStarts, world
  <2>4. RateWithinBounds' /\ PacerFollowsEncoder'
    BY <2>1, <2>2 DEF RateWithinBounds, PacerFollowsEncoder, Least, Most
  <2>5. RequestTiming' BY <1>1, Limits DEF RequestTiming, StreamStarts
  <2>6. StableIsClean' BY <1>1 DEF StableIsClean, StreamStarts
  <2> QED BY <2>3, <2>4, <2>5, <2>6
<1>2. CASE StreamEnds
  <2>1. /\ pc' = "ended" /\ lag' \in 0..MaxLag /\ lossSeen' \in BOOLEAN
        /\ UNCHANGED <<ceiling, current, stable, untilUpdate, tunable, encoderRate, pacerRate,
                       untilRequest, sinceRequest, store, cleanRun, hasty, settled, weather,
                       staying>>
    <3>1. 0 \in 0..MaxLag BY Limits
    <3> QED BY <1>2, <3>1 DEF StreamEnds, controller, rates, requester, world
  <2>4. TypeOK' BY <2>1 DEF TypeOK
  <2>2. RequestTiming' BY <1>2 DEF RequestTiming, StreamEnds, requester
  <2>3. RateWithinBounds' /\ PacerFollowsEncoder' /\ StableIsClean'
    BY <1>2 DEF StreamEnds, controller, rates, RateWithinBounds, PacerFollowsEncoder,
                StableIsClean
  <2> QED BY <2>2, <2>3, <2>4
<1> QED BY <1>1, <1>2

\* Whoever asks, a request is sent only when the last one is long enough ago.
LEMMA RequestInv ==
  ASSUME RateInv, RequestIfDue \/ React
  PROVE  RateInv'
<1> USE DEF RateInv
<1>1. /\ pc' = IF pc = "top" THEN "update" ELSE "top"
      /\ pc \in {"top", "react"}
      /\ UNCHANGED <<controller, rates, store, cleanRun, world>>
  BY DEF RequestIfDue, React
<1>2. RateWithinBounds' /\ PacerFollowsEncoder' /\ StableIsClean'
  BY <1>1 DEF controller, rates, RateWithinBounds, PacerFollowsEncoder, StableIsClean
<1>3. /\ untilRequest \in 0..KeyInterval
      /\ sinceRequest \in 0..(KeyInterval + MaxLag + 1)
      /\ lag \in 0..MaxLag
  BY DEF TypeOK
<1>4. lag' = 0 /\ lossSeen' \in BOOLEAN
  BY DEF RequestIfDue, React, RequestTiming, TypeOK
<1>5. /\ untilRequest' \in 0..KeyInterval
      /\ sinceRequest' \in 0..(KeyInterval + MaxLag + 1)
      /\ hasty' \in BOOLEAN /\ RequestTiming'
  <2>1. \/ SendRequest /\ sinceRequest >= MinKey
        \/ UNCHANGED <<requester, hasty>> /\ untilRequest > 0
    <3>1. CASE pc = "top" /\ untilRequest = 0
      <4>1. SendRequest BY <3>1 DEF RequestIfDue, React
      <4>2. untilRequest + sinceRequest >= MinKey BY DEF RequestTiming
      <4> QED BY <1>3, <3>1, <4>1, <4>2, Limits
    <3>2. CASE pc = "top" /\ untilRequest # 0
      BY <1>3, <3>2 DEF RequestIfDue, React
    <3>3. CASE pc = "react"
      BY <3>3 DEF RequestIfDue, React, RequestTiming
    <3> QED BY <1>1, <3>1, <3>2, <3>3
  <2>2. CASE SendRequest /\ sinceRequest >= MinKey
    <3>1. untilRequest' = KeyInterval /\ sinceRequest' = 0 BY <2>2 DEF SendRequest
    <3>2. ~hasty'
      <4>1. ~(sinceRequest < MinKey) BY <1>3, <2>2, Limits
      <4> QED BY <2>2, <4>1 DEF SendRequest, RequestTiming
    <3>3. hasty' \in BOOLEAN BY <2>2 DEF SendRequest
    <3>4. KeyInterval \in 0..KeyInterval /\ 0 \in 0..(KeyInterval + MaxLag + 1) BY Limits
    <3>5. RequestTiming'
      BY <1>1, <1>4, <3>1, <3>2, Limits DEF RequestTiming
    <3> QED BY <3>1, <3>3, <3>4, <3>5
  <2>3. CASE UNCHANGED <<requester, hasty>> /\ untilRequest > 0
    <3>1. untilRequest' = untilRequest /\ sinceRequest' = sinceRequest /\ hasty' = hasty
      BY <2>3 DEF requester
    <3>2. untilRequest + sinceRequest <= KeyInterval BY <1>1, <2>3 DEF RequestTiming
    <3>3. hasty' \in BOOLEAN BY <3>1 DEF TypeOK
    <3>4. ~hasty' /\ untilRequest' + sinceRequest' >= MinKey BY <3>1 DEF RequestTiming
    <3>5. RequestTiming'
      BY <1>1, <1>3, <1>4, <2>3, <3>1, <3>2, <3>4, Limits DEF RequestTiming
    <3> QED BY <1>3, <3>1, <3>3, <3>5
  <2> QED BY <2>1, <2>2, <2>3
<1>6. TypeOK'
  BY <1>1, <1>4, <1>5, Limits DEF TypeOK, controller, rates, world
<1> QED BY <1>2, <1>5, <1>6

LEMMA UpdateInv ==
  ASSUME RateInv, Update
  PROVE  RateInv'
<1> USE DEF RateInv
<1>1. /\ NextTarget.rate \in Nat /\ NextTarget.stable \in 0..2
      /\ Least(ceiling) <= NextTarget.rate /\ NextTarget.rate <= Most(ceiling)
  BY TargetFits
<1>2. /\ stable' = NextTarget.stable /\ untilUpdate' = Interval
      /\ UNCHANGED <<lag, ceiling, tunable, pacerRate, requester, store, hasty, world>>
      /\ pc = "update"
  BY DEF Update
<1>3. \/ /\ NextTarget.rate # current /\ current' = NextTarget.rate
         /\ encoderRate' = NextTarget.rate /\ pc' = "pacer"
      \/ current' = current /\ encoderRate' = encoderRate /\ pc' = "react"
  BY DEF Update
<1>4. current' \in Nat /\ encoderRate' \in Nat /\ pc' \in {"pacer", "react"}
  BY <1>1, <1>3 DEF TypeOK
<1>5. cleanRun' \in 0..3 /\ lossSeen' \in BOOLEAN
  <2>1. cleanRun' = IF AllClean /\ current' <= current THEN Lower(cleanRun + 1, 3) ELSE 0
    BY DEF Update
  <2>2. cleanRun \in 0..3 BY DEF TypeOK
  <2>3. lossSeen' = LossDetected BY DEF Update
  <2> QED BY <2>1, <2>2, <2>3 DEF Lower, LossDetected, Worst
<1>6. TypeOK'
  <2>1. Interval \in 0..Interval BY Limits
  <2> QED BY <1>1, <1>2, <1>4, <1>5, <2>1 DEF TypeOK, requester, world
<1>7. RateWithinBounds'
  BY <1>1, <1>2, <1>3 DEF RateWithinBounds, Least, Most
<1>8. PacerFollowsEncoder'
  BY <1>2, <1>3 DEF PacerFollowsEncoder
<1>9. RequestTiming'
  BY <1>2, <1>4 DEF RequestTiming, requester
<1>10. StableIsClean'
  <2>1. CASE stable' = 0 BY <1>5, <2>1 DEF StableIsClean
  <2>2. CASE stable' # 0
    <3>1. Fresh # {} /\ Healthy /\ NextTarget.rate = current /\ stable' = stable + 1
      BY <1>2, <2>2, TargetFits
    <3>2. current' <= current BY <1>3, <3>1 DEF TypeOK
    <3>3. AllClean BY <3>1, HealthyIsClean DEF AllClean
    <3>4. cleanRun' = Lower(cleanRun + 1, 3) BY <3>2, <3>3 DEF Update
    <3>5. stable' \in 0..2 /\ stable \in 0..2 /\ cleanRun \in 0..3
      BY <1>1, <1>2 DEF TypeOK
    <3> QED BY <3>1, <3>4, <3>5 DEF StableIsClean, Lower
  <2> QED BY <2>1, <2>2
<1> QED BY <1>6, <1>7, <1>8, <1>9, <1>10

LEMMA StepInv ==
  ASSUME RateInv, UpdateNotDue \/ SetPacerRate \/ Settle
  PROVE  RateInv'
<1> USE DEF RateInv
<1>1. CASE UpdateNotDue
  BY <1>1 DEF UpdateNotDue, TypeOK, RateWithinBounds, PacerFollowsEncoder, RequestTiming,
              StableIsClean, controller, rates, requester, world
<1>2. CASE SetPacerRate
  <2>1. /\ pacerRate' = current
        /\ UNCHANGED <<lag, controller, tunable, encoderRate, requester, lossSeen, store,
                       cleanRun, hasty, world>>
        /\ pc = "pacer" /\ pc' = "react"
    BY <1>2 DEF SetPacerRate
  <2>2. TypeOK' BY <2>1 DEF TypeOK, controller, requester, world
  <2>3. RateWithinBounds' /\ PacerFollowsEncoder'
    BY <2>1 DEF RateWithinBounds, PacerFollowsEncoder, controller
  <2> QED BY <2>1, <2>2, <2>3 DEF RequestTiming, StableIsClean, controller, requester
<1>3. CASE Settle
  BY <1>3 DEF Settle, TypeOK, RateWithinBounds, PacerFollowsEncoder, RequestTiming,
              StableIsClean, controller, rates, requester
<1> QED BY <1>1, <1>2, <1>3

LEMMA TickInv ==
  ASSUME RateInv, Tick
  PROVE  RateInv'
<1> USE DEF RateInv
<1>1. /\ untilRequest \in 0..KeyInterval /\ untilUpdate \in 0..Interval
      /\ sinceRequest \in 0..(KeyInterval + MaxLag + 1)
      /\ lag \in 0..MaxLag
  BY DEF TypeOK
<1>2. /\ pc = "ended" \/ (pc = "top" /\ lag < MaxLag)
      /\ lag' = IF pc = "ended" THEN 0 ELSE lag + 1
      /\ untilUpdate' = Down(untilUpdate) /\ untilRequest' = Down(untilRequest)
      /\ sinceRequest' = Lower(sinceRequest + 1, KeyInterval + MaxLag + 1)
      /\ store' = [r \in DOMAIN store |->
                    [store[r] EXCEPT !.age = Lower(@ + 1, StaleAfter + 1)]]
      /\ UNCHANGED <<pc, ceiling, current, stable, rates, lossSeen, cleanRun, hasty, world>>
  BY DEF Tick
<1>3. DOMAIN store' \subseteq Receivers /\ \A r \in DOMAIN store' : store'[r] \in Entries
  <2>1. DOMAIN store' = DOMAIN store /\ DOMAIN store \subseteq Receivers
    BY <1>2 DEF TypeOK
  <2>2. ASSUME NEW r \in DOMAIN store PROVE store'[r] \in Entries
    <3>1. store[r] \in Entries BY DEF TypeOK
    <3>2. store[r].age \in 0..(StaleAfter + 1) BY <3>1 DEF Entries
    <3>3. Lower(store[r].age + 1, StaleAfter + 1) \in 0..(StaleAfter + 1)
      BY <3>2, Limits DEF Lower
    <3>4. store'[r] = [store[r] EXCEPT !.age = Lower(store[r].age + 1, StaleAfter + 1)]
      BY <1>2
    <3> QED BY <3>1, <3>3, <3>4 DEF Entries
  <2> QED BY <2>1, <2>2
<1>4. /\ lag' \in 0..MaxLag /\ untilUpdate' \in 0..Interval /\ untilRequest' \in 0..KeyInterval
      /\ sinceRequest' \in 0..(KeyInterval + MaxLag + 1)
  BY <1>1, <1>2, Limits DEF Down, Lower
<1>5. TypeOK' BY <1>2, <1>3, <1>4 DEF TypeOK, rates, world
<1>6. RateWithinBounds' /\ PacerFollowsEncoder' /\ StableIsClean'
  BY <1>2 DEF rates, RateWithinBounds, PacerFollowsEncoder, StableIsClean
<1>7. RequestTiming'
  <2>1. CASE untilRequest = 0
    <3>1. untilRequest' = 0 BY <1>2, <2>1 DEF Down
    <3>2. pc # "ended" => sinceRequest' = sinceRequest + 1 /\ lag' = lag + 1
      BY <1>1, <1>2, <2>1, Limits DEF Lower, RequestTiming
    <3>3. sinceRequest' >= MinKey
      BY <1>1, <1>2, <2>1, Limits DEF Lower, RequestTiming
    <3> QED BY <1>1, <1>2, <1>4, <2>1, <3>1, <3>2, <3>3, Limits DEF RequestTiming
  <2>2. CASE untilRequest > 0
    <3>1. untilRequest' = untilRequest - 1 BY <1>1, <1>2, <2>2 DEF Down
    <3>2. sinceRequest' = sinceRequest + 1 \/ sinceRequest' >= KeyInterval + MaxLag + 1
      BY <1>1, <1>2, Limits DEF Lower
    <3>3. untilRequest' + sinceRequest' >= MinKey
      <4>1. untilRequest + sinceRequest >= MinKey BY DEF RequestTiming
      <4>2. untilRequest \in Nat /\ sinceRequest \in Nat /\ sinceRequest' \in Nat
        BY <1>1, <1>4, Limits
      <4>3. CASE sinceRequest' = sinceRequest + 1 BY <2>2, <3>1, <4>1, <4>2, <4>3, Limits
      <4>4. CASE sinceRequest' >= KeyInterval + MaxLag + 1
        <5>1. untilRequest' \in Nat BY <2>2, <3>1, <4>2
        <5>2. sinceRequest' >= MinKey BY <4>2, <4>4, Limits
        <5> QED BY <4>2, <5>1, <5>2, Limits, SumIsLarger
      <4> QED BY <3>2, <4>3, <4>4
    <3>4. pc # "ended" => sinceRequest' = sinceRequest + 1 /\ lag' \in Nat
      BY <1>1, <1>2, <2>2, Limits DEF Lower, RequestTiming
    <3>5. ~hasty' /\ pc' = pc /\ pc \in {"top", "ended"} BY <1>2 DEF RequestTiming
    <3>6. pc # "ended" => untilRequest' + sinceRequest' <= KeyInterval
      BY <1>1, <2>2, <3>1, <3>4, Limits DEF RequestTiming
    <3>7. pc # "ended" /\ untilRequest' = 0 => sinceRequest' <= KeyInterval + lag'
      <4>1. sinceRequest' \in Nat /\ lag' \in Nat BY <1>4, Limits
      <4>2. ASSUME pc # "ended", untilRequest' = 0
            PROVE  sinceRequest' <= KeyInterval + lag'
        <5>1. 0 + sinceRequest' <= KeyInterval BY <3>6, <4>2
        <5> QED BY <4>1, <5>1, Limits, BoundWithLag
      <4> QED BY <4>2
    <3> QED BY <3>3, <3>5, <3>6, <3>7 DEF RequestTiming
  <2> QED BY <1>1, <2>1, <2>2
<1> QED BY <1>5, <1>6, <1>7

\* Controller, encoder, pacer and the request timer agree in every state
\* (run_pipeline_until_stop_with_pacer).
THEOREM RateInvariant == Spec => []RateInv
<1>1. RateInv /\ [Next]_vars => RateInv'
  <2> SUFFICES ASSUME RateInv, [Next]_vars PROVE RateInv'
    OBVIOUS
  <2>1. ASSUME NEW r \in Receivers, Report(r) PROVE RateInv' BY <2>1, ReportInv
  <2>2. CASE StreamStarts \/ StreamEnds BY <2>2, StreamInv
  <2>3. CASE RequestIfDue \/ React BY <2>3, RequestInv
  <2>4. CASE Update BY <2>4, UpdateInv
  <2>5. CASE UpdateNotDue \/ SetPacerRate \/ Settle BY <2>5, StepInv
  <2>6. CASE Tick BY <2>6, TickInv
  <2>7. CASE UNCHANGED vars
    BY <2>7 DEF vars, RateInv, TypeOK, RateWithinBounds, PacerFollowsEncoder, RequestTiming,
                StableIsClean, controller, rates, requester, world
  <2> QED BY <2>1, <2>2, <2>3, <2>4, <2>5, <2>6, <2>7 DEF Next, Loop
<1> QED BY InitInv, <1>1, PTL DEF Spec

\* For every configured bitrate the rate stays at or below it, or 1000 kbit/s,
\* and at or above its half, or 1000, itself when it is less, or what saturation
\* leaves: the code bounds the rate on both sides, but 1000 is above a smaller
\* ceiling.
THEOREM RateStaysWithinBounds == Spec => []RateWithinBounds
<1>1. RateInv => RateWithinBounds BY DEF RateInv
<1> QED BY RateInvariant, <1>1, PTL

\* Encoder, controller and pacer never drift apart, tunable encoder or not.
THEOREM PacerKeepsUp == Spec => []PacerFollowsEncoder
<1>1. RateInv => PacerFollowsEncoder BY DEF RateInv
<1> QED BY RateInvariant, <1>1, PTL

\* Key frame requests are neither hasty nor overdue, for every interval, minimum
\* and lag of the loop.
THEOREM RequestsKeepTheirDistance == Spec => []RequestsAreSpaced
<1>1. RateInv => RequestsAreSpaced
  <2> SUFFICES ASSUME RateInv PROVE RequestsAreSpaced
    OBVIOUS
  <2>1. /\ untilRequest \in 0..KeyInterval /\ lag \in 0..MaxLag
        /\ sinceRequest \in 0..(KeyInterval + MaxLag + 1)
    BY DEF RateInv, TypeOK
  <2> QED BY <2>1, Limits DEF RateInv, RequestTiming, RequestsAreSpaced
<1> QED BY RateInvariant, <1>1, PTL

\* The rate rises only after three windows that were clean for every receiver,
\* except from below the floor, to which congestion raises it.
THEOREM RisesFollowCleanWindows == Spec => RisesAreEarned
<1> DEFINE Owed == (current' > current /\ pc # "ended") =>
                     \/ AllClean /\ cleanRun >= 2
                     \/ Congested /\ current < Floor(ceiling) /\ current' = Floor(ceiling)
<1>1. RateInv /\ [Next]_vars => [Owed]_vars
  <2> SUFFICES ASSUME RateInv, Next, current' > current, pc # "ended"
               PROVE  \/ AllClean /\ cleanRun >= 2
                      \/ Congested /\ current < Floor(ceiling) /\ current' = Floor(ceiling)
    OBVIOUS
  <2>1. current \in Nat BY DEF RateInv, TypeOK
  <2>2. Update
    <3>1. current' # current BY <2>1
    <3> QED
      BY <3>1 DEF Next, Loop, Report, StreamStarts, StreamEnds, RequestIfDue, UpdateNotDue,
                  SetPacerRate, React, Tick, Settle, controller
  <2>3. current' = NextTarget.rate BY <2>1, <2>2 DEF Update
  <2>4. Earned \/ ToTheFloor(current') BY <2>3, TargetFits DEF RateInv
  <2>5. CASE Earned
    <3>1. AllClean BY <2>5, HealthyIsClean DEF RateInv, AllClean, Earned
    <3>2. cleanRun >= 2 BY <2>5 DEF RateInv, StableIsClean, Earned
    <3> QED BY <3>1, <3>2
  <2>6. CASE ToTheFloor(current') BY <2>6 DEF ToTheFloor
  <2> QED BY <2>4, <2>5, <2>6
<1> QED BY RateInvariant, <1>1, PTL DEF Spec, RisesAreEarned

=============================================================================
