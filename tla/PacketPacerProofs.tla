------------------------- MODULE PacketPacerProofs -------------------------
(***************************************************************************)
(* Proofs about PacketPacer for every set of rates, sizes and peer counts. *)
(***************************************************************************)
EXTENDS PacketPacer, TLAPS

\* What wait_for_packet would find in the bucket now.
Credit == Lower(tokens + rate * idle, MaxTokens(rate))

Typing ==
  /\ rate \in Rates /\ peers \in Peers
  /\ tokens \in Int /\ idle \in Nat
  /\ ahead \in Nat /\ large \in BOOLEAN

\* RateIsKept is not inductive: what may still be sent depends on the bucket.
\* The bucket never holds more than the rate allows beyond what was sent.
PacerInv ==
  /\ Typing
  /\ RateIsKept
  /\ ~large => ahead <= MaxTokens(rate) - Credit

-----------------------------------------------------------------------------
(* Arithmetic.                                                             *)

\* Waiting in whole ticks is enough for the deficit (wait_secs, rounded up).
LEMMA RoundingUp ==
  ASSUME NEW r \in Nat \ {0}, NEW d \in Nat
  PROVE  /\ (d + r - 1) \div r \in Nat
         /\ r * ((d + r - 1) \div r) \in Nat
         /\ r * ((d + r - 1) \div r) >= d
<1> DEFINE n == d + r - 1
<1>1. n \in Nat OBVIOUS
<1>2. n \div r \in Nat BY <1>1
<1>3. n < r * (n \div r) + r
  <2> HIDE DEF n
  <2> QED BY <1>1
<1>4. r * (n \div r) \in Nat BY <1>2
<1> QED BY <1>1, <1>2, <1>3, <1>4

\* The allowance is a number of bytes (compute_max_burst_bytes).
LEMMA MaxTokensType == \A r \in Rates : MaxTokens(r) \in Nat
<1> SUFFICES ASSUME NEW r \in Rates PROVE MaxTokens(r) \in Nat
  OBVIOUS
<1>1. r * BurstTime \in Nat BY RatesAssumption, TimesAssumption
<1> QED BY <1>1, TimesAssumption DEF MaxTokens, Lower, Higher

\* What the rate carries during the waits of the pacer: a millisecond is not
\* more than the cap.
LEMMA Products ==
  ASSUME NEW r \in Rates, NEW t \in Nat
  PROVE  /\ r * t \in Nat
         /\ r * (t + 1) = r * t + r
         /\ r * MinSleep \in Nat /\ r * MaxDelay \in Nat
         /\ r * MinSleep <= r * MaxDelay
<1>1. r \in Nat \ {0} BY RatesAssumption
<1>2. MinSleep \in Nat /\ MaxDelay \in Nat /\ MinSleep <= MaxDelay BY TimesAssumption
<1>3. PICK k \in Nat : MaxDelay = MinSleep + k
  <2> MaxDelay - MinSleep \in Nat BY <1>2
  <2> QED BY <1>2
<1>4. r * MaxDelay = r * MinSleep + r * k /\ r * k \in Nat BY <1>1, <1>2, <1>3
<1> QED BY <1>1, <1>2, <1>4

-----------------------------------------------------------------------------
(* The invariant.                                                          *)

LEMMA InitInv == Init => PacerInv
<1> SUFFICES ASSUME Init PROVE PacerInv
  OBVIOUS
<1>1. rate \in Nat \ {0} /\ MaxTokens(rate) \in Nat
  BY RatesAssumption, MaxTokensType DEF Init
<1>2. rate * idle = 0 /\ rate * MinSleep \in Nat
  BY <1>1, Products DEF Init
<1>3. tokens = MaxTokens(rate) /\ idle = 0 /\ ahead = 0 /\ large = FALSE
      /\ rate \in Rates /\ peers \in Peers
  BY DEF Init
<1>4. Credit = MaxTokens(rate) BY <1>1, <1>2, <1>3 DEF Credit, Lower
<1>5. Typing
  <2>1. tokens \in Int /\ idle \in Nat /\ ahead \in Nat BY <1>1, <1>3
  <2>2. large \in BOOLEAN BY <1>3
  <2> QED BY <1>3, <2>1, <2>2 DEF Typing
<1>6. RateIsKept BY <1>1, <1>2, <1>3 DEF RateIsKept
<1>7. ahead <= MaxTokens(rate) - Credit BY <1>1, <1>3, <1>4
<1> QED BY <1>5, <1>6, <1>7 DEF PacerInv

\* A packet: the bucket step with what the sleep carries.
LEMMA PacketInv ==
  ASSUME PacerInv, NEW size \in Sizes, Packet(size)
  PROVE  PacerInv'
<1> DEFINE cost == size * peers
           balance == Refilled - cost
           wait == IF balance < 0 THEN SleepFor(-balance) ELSE 0
           M == MaxTokens(rate)
           short == rate * MinSleep
           cap == rate * MaxDelay
<1>1. rate \in Nat \ {0} /\ M \in Nat
  BY RatesAssumption, MaxTokensType DEF PacerInv, Typing
<1>2. short \in Nat /\ cap \in Nat /\ short <= cap /\ rate * idle \in Nat
  BY Products DEF PacerInv, Typing
<1>3. cost \in Nat
  <2>1. size \in Nat /\ peers \in Nat BY SizesAssumption DEF PacerInv, Typing
  <2> QED BY <2>1
<1>4. Refilled = Credit BY DEF Refilled, Credit
<1>5. Credit \in Int /\ Credit <= M
  BY <1>1, <1>2 DEF Credit, Lower, PacerInv, Typing
<1>6. balance \in Int BY <1>3, <1>4, <1>5
<1>7. /\ wait \in Nat /\ rate * wait \in Nat
      /\ \/ balance >= 0 /\ rate * wait = 0
         \/ balance < 0 /\ -balance < short /\ rate * wait = 0
         \/ balance < 0 /\ -balance <= cap /\ rate * wait >= -balance
         \/ -balance > cap /\ rate * wait = cap
  <2> HIDE DEF balance
  <2>1. rate * 0 = 0 BY <1>1
  <2>2. CASE balance >= 0 BY <1>6, <2>1, <2>2
  <2>3. CASE balance < 0 /\ -balance > cap
    <3>1. wait = MaxDelay BY <2>3 DEF SleepFor
    <3> QED BY <1>2, <2>3, <3>1, TimesAssumption
  <2>4. CASE balance < 0 /\ -balance <= cap /\ -balance >= short
    <3>1. wait = Ticks(-balance) BY <1>2, <1>6, <2>4 DEF SleepFor
    <3>2. -balance \in Nat BY <1>6, <2>4
    <3>3. wait \in Nat /\ rate * wait \in Nat /\ rate * wait >= -balance
      BY <1>1, <3>1, <3>2, RoundingUp DEF Ticks
    <3> QED BY <2>4, <3>3
  <2>5. CASE balance < 0 /\ -balance < short
    <3>1. wait = 0 BY <1>2, <1>6, <2>5 DEF SleepFor
    <3> QED BY <2>1, <2>5, <3>1
  <2> QED BY <1>2, <1>6, <2>2, <2>3, <2>4, <2>5
<1>8. /\ tokens' = Higher(balance, -cap) /\ tokens' \in Int
      /\ idle' = 0 /\ rate' = rate /\ peers' = peers
      /\ large' = (large \/ cost > Lower(M, cap))
      /\ ahead' = IF large' THEN 0 ELSE Higher(ahead - rate * wait, 0) + cost
  <2>1. -cap \in Int BY <1>2
  <2> QED BY <1>6, <2>1 DEF Packet, Remaining, Higher
<1>9. MaxTokens(rate)' = M BY <1>8 DEF MaxTokens
<1>10. rate * 0 = 0 BY <1>1
<1>11. CASE large'
  BY <1>8, <1>11, <1>10 DEF PacerInv, Typing, RateIsKept
<1>12. CASE ~large'
  <2>1. ~large /\ cost <= M /\ cost <= cap
    <3>1. ~large /\ ~(cost > Lower(M, cap)) BY <1>8, <1>12
    <3>2. Lower(M, cap) \in Nat /\ Lower(M, cap) <= M /\ Lower(M, cap) <= cap
      BY <1>1, <1>2 DEF Lower
    <3> HIDE DEF cost, M, cap
    <3> QED BY <1>1, <1>2, <1>3, <3>1, <3>2
  <2>2. ahead \in Nat /\ ahead <= M + short /\ ahead <= M - Credit
    BY <2>1 DEF PacerInv, Typing, RateIsKept
  <2> DEFINE carried == rate * wait
             left == Higher(balance, -cap)
             now == Higher(ahead - carried, 0) + cost
  <2>3. carried \in Nat BY <1>7
  <2>4. left = Higher(Credit - cost, -cap) /\ left \in Int
    BY <1>4, <1>8
  <2>5. \/ Credit - cost >= 0 /\ carried = 0
        \/ Credit - cost < 0 /\ cost - Credit < short /\ carried = 0
        \/ Credit - cost < 0 /\ cost - Credit <= cap /\ carried >= cost - Credit
        \/ cost - Credit > cap /\ carried = cap
    <3>1. balance = Credit - cost /\ -balance = cost - Credit
      BY <1>3, <1>4, <1>5
    <3> HIDE DEF balance, cost, wait, carried, short, cap
    <3>2. carried = rate * wait BY DEF carried
    <3> QED BY <1>7, <3>1, <3>2
  \* The cases of wait_for_packet: enough credit, a deficit not worth a sleep,
  \* a deficit slept for, and the cap.
  <2>6. now \in Nat /\ now <= M + short /\ now <= M - left
    <3> HIDE DEF cost, M, short, cap, carried, left, balance
    <3> USE <1>1, <1>2, <1>3, <1>5, <2>1, <2>2, <2>3, <2>4
    <3>1. CASE ahead - carried <= 0
      <4>1. now = cost BY <3>1 DEF now, Higher
      <4>2. left <= Higher(Credit - cost, -cap) BY DEF Higher
      <4> QED BY <4>1, <4>2 DEF Higher
    <3>2. CASE ahead - carried > 0
      <4>1. now = ahead - carried + cost BY <3>2 DEF now, Higher
      <4> HIDE DEF now
      <4>2. CASE Credit - cost >= 0 /\ carried = 0
        BY <3>2, <4>1, <4>2 DEF Higher
      <4>3. CASE Credit - cost < 0 /\ cost - Credit < short /\ carried = 0
        BY <3>2, <4>1, <4>3 DEF Higher
      <4>4. CASE Credit - cost < 0 /\ cost - Credit <= cap /\ carried >= cost - Credit
        BY <3>2, <4>1, <4>4 DEF Higher
      <4>5. CASE cost - Credit > cap /\ carried = cap
        BY <3>2, <4>1, <4>5 DEF Higher
      <4> QED BY <2>5, <4>2, <4>3, <4>4, <4>5
    <3> QED BY <3>1, <3>2
  <2>7. ahead' = now /\ tokens' = left BY <1>8, <1>12
  <2>8. Credit' = Lower(left, M)
    <3>1. Credit' = Lower(tokens' + rate' * idle', MaxTokens(rate)') BY DEF Credit
    <3> HIDE DEF left, M
    <3> QED BY <1>8, <1>9, <1>10, <2>4, <2>7, <3>1
  <2>9. ahead' <= M - Credit'
    <3> HIDE DEF now, left, M
    <3> QED BY <1>1, <2>4, <2>6, <2>7, <2>8 DEF Lower
  <2>10. Typing'
    BY <1>8, <2>6, <2>7, <1>12 DEF PacerInv, Typing
  <2>11. RateIsKept'
    <3>1. ahead' <= M + short BY <2>6, <2>7
    <3> QED BY <1>8, <1>9, <3>1 DEF RateIsKept
  <2> QED BY <1>9, <2>9, <2>10, <2>11 DEF PacerInv
<1>13. large' \in BOOLEAN BY <1>8 DEF PacerInv, Typing
<1> QED BY <1>11, <1>12, <1>13

\* A new rate starts a new account; the bucket is cut to the new allowance.
LEMMA SetBitrateInv ==
  ASSUME PacerInv, NEW r \in Rates, SetBitrate(r)
  PROVE  PacerInv'
<1>1. MaxTokens(r) \in Nat /\ r * idle \in Nat /\ r * MinSleep \in Nat
  BY MaxTokensType, Products DEF PacerInv, Typing
<1>2. rate' = r /\ peers' = peers /\ idle' = idle /\ ahead' = 0 /\ large' = FALSE
  BY DEF SetBitrate
<1>3. tokens' \in Int
  BY <1>1 DEF SetBitrate, Lower, PacerInv, Typing
<1>4. MaxTokens(rate)' = MaxTokens(r) BY <1>2 DEF MaxTokens
<1>5. Credit' <= MaxTokens(r) /\ Credit' \in Int
  <2>1. Credit' = Lower(tokens' + r * idle, MaxTokens(r)) BY <1>2, <1>4 DEF Credit
  <2> QED BY <1>1, <1>3, <2>1 DEF Lower
<1>6. Typing' BY <1>2, <1>3 DEF PacerInv, Typing
<1>7. RateIsKept' BY <1>1, <1>2, <1>4 DEF RateIsKept
<1>8. ahead' <= MaxTokens(rate)' - Credit' BY <1>1, <1>2, <1>4, <1>5
<1> QED BY <1>6, <1>7, <1>8 DEF PacerInv

\* In a tick the bucket gains what the account loses.
LEMMA TickInv ==
  ASSUME PacerInv, Tick
  PROVE  PacerInv'
<1> DEFINE M == MaxTokens(rate)
           filled == tokens + rate * idle
<1>1. rate \in Nat \ {0} /\ M \in Nat /\ tokens \in Int /\ idle \in Nat /\ ahead \in Nat
  BY RatesAssumption, MaxTokensType DEF PacerInv, Typing
<1>2. rate * (idle + 1) = rate * idle + rate /\ rate * idle \in Nat /\ rate * MinSleep \in Nat
  BY Products DEF PacerInv, Typing
<1>3. /\ idle' = idle + 1 /\ ahead' = Higher(ahead - rate, 0)
      /\ rate' = rate /\ peers' = peers /\ tokens' = tokens /\ large' = large
  BY DEF Tick
<1>4. MaxTokens(rate)' = M BY <1>3 DEF MaxTokens
<1>5. Credit = Lower(filled, M) /\ Credit' = Lower(filled + rate, M)
  <2>1. Credit' = Lower(tokens' + rate' * idle', MaxTokens(rate)') BY DEF Credit
  <2>2. tokens' + rate' * idle' = filled + rate
    <3>1. rate' * idle' = rate * idle + rate BY <1>2, <1>3
    <3> QED BY <1>1, <1>2, <1>3, <3>1
  <2> QED BY <1>4, <2>1, <2>2 DEF Credit
<1>6. ahead' \in Nat /\ ahead' <= ahead BY <1>1, <1>3 DEF Higher
<1>7. filled \in Int BY <1>1, <1>2
<1>8. Typing' BY <1>3, <1>6 DEF PacerInv, Typing
<1>9. RateIsKept'
  <2>1. ASSUME ~large PROVE ahead' <= M + rate * MinSleep
    BY <1>1, <1>2, <1>6, <2>1 DEF PacerInv, RateIsKept
  <2> QED BY <1>3, <1>4, <2>1 DEF RateIsKept
<1>10. ASSUME ~large PROVE ahead' <= M - Credit'
  <2>1. ahead <= M - Lower(filled, M) BY <1>5, <1>10 DEF PacerInv
  <2> HIDE DEF filled, M
  <2> QED BY <1>1, <1>3, <1>5, <1>7, <2>1 DEF Lower, Higher
<1> QED BY <1>3, <1>4, <1>8, <1>9, <1>10 DEF PacerInv

\* The bucket and the account never disagree (wait_for_packet, set_bitrate).
THEOREM PacerInvariant == Spec => []PacerInv
<1>1. PacerInv /\ [Next]_vars => PacerInv'
  <2> SUFFICES ASSUME PacerInv, [Next]_vars PROVE PacerInv'
    OBVIOUS
  <2>1. ASSUME NEW size \in Sizes, Packet(size) PROVE PacerInv'
    BY <2>1, PacketInv
  <2>2. ASSUME NEW r \in Rates, SetBitrate(r) PROVE PacerInv'
    BY <2>2, SetBitrateInv
  <2>3. CASE Tick BY <2>3, TickInv
  <2>4. CASE UNCHANGED vars
    BY <2>4 DEF vars, history, PacerInv, Typing, RateIsKept, Credit, MaxTokens
  <2> QED BY <2>1, <2>2, <2>3, <2>4 DEF Next
<1> QED BY InitInv, <1>1, PTL DEF Spec

\* The network never gets more than one burst and a millisecond ahead of the
\* paced rate, at every rate and with every number of peers.
THEOREM PacerKeepsTheRate == Spec => []RateIsKept
<1>1. PacerInv => RateIsKept BY DEF PacerInv
<1> QED BY PacerInvariant, <1>1, PTL

-----------------------------------------------------------------------------
(* A rested link is not delayed.                                           *)

\* No debt is deeper than the cap at some rate, and the bucket holds the whole
\* allowance less what was sent since the rest.
RestInv ==
  /\ tokens <= MaxTokens(rate)
  /\ \E s \in Rates : tokens >= -(s * MaxDelay)
  /\ burst \in Int
  /\ burst # Nothing => burst >= 0
  /\ burst # Nothing /\ burst <= MaxTokens(rate) => tokens >= MaxTokens(rate) - burst

LEMMA RestInit == Init => RestInv
<1> SUFFICES ASSUME Init PROVE RestInv
  OBVIOUS
<1>1. rate \in Rates /\ tokens = MaxTokens(rate) /\ burst = 0 BY DEF Init
<1>2. MaxTokens(rate) \in Nat /\ rate * MaxDelay \in Nat
  BY <1>1, MaxTokensType, Products
<1> QED BY <1>1, <1>2 DEF RestInv, Nothing

LEMMA AtLeastTransitive ==
  ASSUME NEW x \in Int, NEW y \in Int, NEW m \in Int, NEW b \in Int, x >= y, y >= m - b
  PROVE  x >= m - b
OBVIOUS

\* A packet within the allowance since the rest finds its tokens.
LEMMA RestPacket ==
  ASSUME Typing, RestInv, NEW size \in Sizes, Packet(size)
  PROVE  /\ RestInv'
         /\ burst' # Nothing /\ burst' <= MaxTokens(rate) => slept' = 0
<1> DEFINE cost == size * peers
           balance == Refilled - cost
           M == MaxTokens(rate)
           cap == rate * MaxDelay
<1>1. rate \in Nat \ {0} /\ M \in Nat /\ M <= MaxBurst /\ MaxBurst \in Nat
  <2>1. M <= MaxBurst
    <3>1. rate * BurstTime \in Nat BY RatesAssumption, TimesAssumption DEF Typing
    <3> QED BY <3>1, TimesAssumption DEF MaxTokens, Lower, Higher
  <2> QED BY <2>1, RatesAssumption, TimesAssumption, MaxTokensType DEF Typing
<1>2. cap \in Nat /\ rate * idle \in Nat BY Products DEF Typing
<1>3. cost \in Nat
  <2>1. size \in Nat /\ peers \in Nat BY SizesAssumption DEF Typing
  <2> QED BY <2>1
<1>4. tokens \in Int /\ tokens <= M /\ burst \in Int BY DEF Typing, RestInv
<1>5. Refilled \in Int /\ Refilled >= tokens /\ Refilled <= M
  BY <1>1, <1>2, <1>4 DEF Refilled, Lower
<1>6. Rested(rate, idle) => Refilled = M
  <2> SUFFICES ASSUME Rested(rate, idle) PROVE Refilled = M
    OBVIOUS
  <2>1. PICK s \in Rates : tokens >= -(s * MaxDelay) BY DEF RestInv
  <2>2. s * MaxDelay \in Nat BY Products DEF Typing
  <2>3. rate * idle >= M + s * MaxDelay BY DEF Rested
  <2> HIDE DEF M
  <2>4. tokens + rate * idle >= M BY <1>1, <1>2, <1>4, <2>1, <2>2, <2>3
  <2> QED BY <1>1, <1>2, <1>4, <2>4 DEF Refilled, Lower, M
<1>7. /\ tokens' = Higher(balance, -cap)
      /\ rate' = rate
      /\ burst' = IF Rested(rate, idle) THEN cost
                  ELSE IF burst = Nothing THEN Nothing ELSE Lower(burst + cost, MaxBurst + 1)
      /\ slept' = IF balance < 0 THEN SleepFor(-balance) ELSE 0
  BY DEF Packet, Remaining
<1>8. MaxTokens(rate)' = M BY <1>7 DEF MaxTokens
<1>9. balance \in Int /\ balance <= M /\ tokens' \in Int /\ tokens' <= M
      /\ tokens' >= -cap /\ tokens' >= balance
  <2> HIDE DEF cost, M, cap
  <2> QED BY <1>1, <1>2, <1>3, <1>5, <1>7 DEF Higher
<1>10. burst' \in Int /\ (burst' # Nothing => burst' >= 0)
  <2> HIDE DEF cost
  <2> QED BY <1>1, <1>3, <1>4, <1>7 DEF RestInv, Nothing, Lower
<1>11. burst' # Nothing /\ burst' <= M => balance >= M - burst'
  <2> SUFFICES ASSUME burst' # Nothing, burst' <= M PROVE balance >= M - burst'
    OBVIOUS
  <2>1. CASE Rested(rate, idle)
    BY <1>1, <1>3, <1>6, <1>7, <2>1
  <2>2. CASE ~Rested(rate, idle)
    <3>1. burst # Nothing /\ burst >= 0 BY <1>7, <2>2 DEF RestInv
    <3>2. burst' = Lower(burst + cost, MaxBurst + 1) BY <1>7, <2>2, <3>1
    <3>3. burst' = burst + cost
      <4> HIDE DEF cost, M
      <4> QED BY <1>1, <1>3, <1>4, <3>2 DEF Lower
    <3>4. burst <= M
      <4> HIDE DEF cost, M
      <4> QED BY <1>1, <1>3, <1>4, <3>3
    <3>5. tokens >= M - burst BY <3>1, <3>4 DEF RestInv
    <3> HIDE DEF cost, M
    <3> QED BY <1>1, <1>3, <1>4, <1>5, <3>3, <3>5 DEF balance
  <2> QED BY <2>1, <2>2
<1>12. burst' # Nothing /\ burst' <= M => slept' = 0
  <2> HIDE DEF balance, M
  <2> QED BY <1>1, <1>7, <1>9, <1>10, <1>11
<1>13. RestInv'
  <2>1. \E s \in Rates : tokens' >= -(s * MaxDelay) BY <1>9 DEF Typing
  <2>2. burst' # Nothing /\ burst' <= M => tokens' >= M - burst'
    <3> SUFFICES ASSUME burst' # Nothing, burst' <= M PROVE tokens' >= M - burst'
      OBVIOUS
    <3>1. balance \in Int /\ tokens' \in Int /\ M \in Int /\ burst' \in Int
      BY <1>1, <1>9, <1>10
    <3>2. tokens' >= balance BY <1>9
    <3>3. balance >= M - burst' BY <1>11
    <3> HIDE DEF balance, M
    <3> QED BY <3>1, <3>2, <3>3, AtLeastTransitive
  <2>3. burst' # Nothing /\ burst' <= MaxTokens(rate)' => tokens' >= MaxTokens(rate)' - burst'
    BY <1>8, <2>2
  <2>4. tokens' <= MaxTokens(rate)' BY <1>8, <1>9
  <2> QED BY <1>10, <2>1, <2>3, <2>4 DEF RestInv, Nothing
<1> QED BY <1>12, <1>13

LEMMA RestSetBitrate ==
  ASSUME Typing, RestInv, NEW r \in Rates, SetBitrate(r)
  PROVE  RestInv'
<1>1. MaxTokens(r) \in Nat BY MaxTokensType
<1>2. rate' = r /\ tokens' = Lower(tokens, MaxTokens(r)) /\ burst' = Nothing
  BY DEF SetBitrate
<1>3. MaxTokens(rate)' = MaxTokens(r) BY <1>2 DEF MaxTokens
<1>4. tokens' <= MaxTokens(rate)' BY <1>1, <1>2, <1>3 DEF Lower, Typing
<1>5. PICK s \in Rates : tokens >= -(s * MaxDelay) BY DEF RestInv
<1>6. s * MaxDelay \in Nat BY Products DEF Typing
<1>7. tokens' >= -(s * MaxDelay) BY <1>1, <1>2, <1>5, <1>6 DEF Lower, Typing
<1> QED BY <1>2, <1>4, <1>7 DEF RestInv, Nothing

\* A packet, a new rate and a pause keep RestInv, and no packet that the bucket
\* covers since the rest is held.
LEMMA RestStep ==
  ASSUME Typing, RestInv, [Next]_vars
  PROVE  /\ RestInv'
         /\ \/ idle' = 0 /\ burst' # Nothing /\ burst' <= MaxTokens(rate) => slept' = 0
            \/ UNCHANGED vars
<1> DEFINE Free == idle' = 0 /\ burst' # Nothing /\ burst' <= MaxTokens(rate) => slept' = 0
<1>1. ASSUME NEW size \in Sizes, Packet(size) PROVE RestInv' /\ Free
  BY <1>1, RestPacket
<1>2. ASSUME NEW r \in Rates, SetBitrate(r) PROVE RestInv' /\ Free
  BY <1>2, RestSetBitrate DEF SetBitrate
<1>3. CASE Tick
  <2>1. idle' # 0 BY <1>3 DEF Tick, Typing
  <2>2. RestInv' BY <1>3 DEF Tick, RestInv, MaxTokens
  <2> QED BY <2>1, <2>2
<1>4. CASE UNCHANGED vars
  BY <1>4 DEF vars, history, RestInv, MaxTokens
<1> QED BY <1>1, <1>2, <1>3, <1>4 DEF Next

\* After a rest the bucket covers what the allowance still grants.
THEOREM RestInvariant == Spec => []RestInv
<1>1. PacerInv => Typing BY DEF PacerInv
<1>2. Typing /\ RestInv /\ [Next]_vars => RestInv' BY RestStep
<1> QED BY PacerInvariant, RestInit, <1>1, <1>2, PTL DEF Spec

\* After a rest that pays off the deepest debt, a burst within the allowance
\* is never delayed, at every rate and with every number of peers.
THEOREM RestedLinkIsFree == Spec => RestedLinkIsNotDelayed
<1> DEFINE Free == idle' = 0 /\ burst' # Nothing /\ burst' <= MaxTokens(rate) => slept' = 0
<1>1. PacerInv => Typing BY DEF PacerInv
<1>2. Typing /\ RestInv /\ [Next]_vars => [Free]_vars BY RestStep
<1> QED BY PacerInvariant, RestInvariant, <1>1, <1>2, PTL DEF Spec, RestedLinkIsNotDelayed

-----------------------------------------------------------------------------
(* Types.                                                                  *)

\* A deficit up to the cap takes no more ticks than the cap.
LEMMA RoundingUpIsCapped ==
  ASSUME NEW r \in Nat \ {0}, NEW d \in Nat, NEW m \in Nat, d <= r * m
  PROVE  (d + r - 1) \div r <= m
<1> DEFINE n == d + r - 1
           q == n \div r
<1>1. n \in Nat /\ q \in Nat OBVIOUS
<1>2. r * q <= n
  <2> HIDE DEF n
  <2> QED BY <1>1
<1>3. SUFFICES ASSUME q > m PROVE FALSE
  BY <1>1
<1>4. PICK k \in Nat : q = m + 1 + k
  <2> HIDE DEF q
  <2>1. q - (m + 1) \in Nat BY <1>1, <1>3
  <2> QED BY <1>1, <2>1
<1>5. r * q = r * m + r + r * k /\ r * k \in Nat /\ r * m \in Nat
  <2> HIDE DEF q
  <2> QED BY <1>4
<1> HIDE DEF q
<1> QED BY <1>2, <1>5

\* What PacerInv and RestInv leave out: no sleep is longer than MAX_PACING_DELAY.
DelayInv == idle \in 0..MaxIdle /\ slept \in 0..MaxDelay

LEMMA DelayPacket ==
  ASSUME PacerInv, NEW size \in Sizes, Packet(size)
  PROVE  DelayInv'
<1> DEFINE balance == Refilled - size * peers
<1>1. rate \in Nat \ {0} /\ MaxTokens(rate) \in Nat /\ rate * idle \in Nat
      /\ rate * MaxDelay \in Nat
  BY RatesAssumption, MaxTokensType, Products DEF PacerInv, Typing
<1>2. size * peers \in Nat
  <2>1. size \in Nat /\ peers \in Nat BY SizesAssumption DEF PacerInv, Typing
  <2> QED BY <2>1
<1>3. balance \in Int
  <2>1. Refilled \in Int BY <1>1 DEF Refilled, Lower, PacerInv, Typing
  <2> QED BY <1>2, <2>1
<1>4. idle' = 0 /\ slept' = IF balance < 0 THEN SleepFor(-balance) ELSE 0
  BY DEF Packet
<1>5. MaxDelay \in Nat /\ MaxIdle \in Nat BY TimesAssumption
<1> HIDE DEF balance
<1>6. CASE balance >= 0 \/ slept' = 0
  BY <1>3, <1>4, <1>5, <1>6 DEF DelayInv
<1>7. CASE balance < 0 /\ slept' # 0
  <2>1. -balance \in Nat BY <1>3, <1>7
  <2>2. slept' = SleepFor(-balance) BY <1>4, <1>7
  <2>3. CASE -balance > rate * MaxDelay
    BY <1>4, <1>5, <2>2, <2>3 DEF SleepFor, DelayInv
  <2>4. CASE -balance <= rate * MaxDelay
    <3>1. ~(-balance > rate * MaxDelay) BY <1>1, <2>1, <2>4
    <3>2. slept' = Ticks(-balance) BY <1>7, <2>2, <3>1 DEF SleepFor
    <3>3. Ticks(-balance) \in Nat BY <1>1, <2>1, RoundingUp DEF Ticks
    <3>4. Ticks(-balance) <= MaxDelay
      BY <1>1, <1>5, <2>1, <2>4, RoundingUpIsCapped DEF Ticks
    <3> QED BY <1>4, <1>5, <3>2, <3>3, <3>4 DEF DelayInv
  <2> QED BY <1>1, <2>1, <2>3, <2>4
<1> QED BY <1>3, <1>6, <1>7

\* Every variable keeps its type; above all no packet is held for longer than
\* MAX_PACING_DELAY, however far the bucket is overdrawn.
THEOREM PacerTypeCorrect == Spec => []TypeOK
<1>1. Init => DelayInv BY TimesAssumption DEF Init, DelayInv
<1>2. PacerInv /\ DelayInv /\ [Next]_vars => DelayInv'
  <2> SUFFICES ASSUME PacerInv, DelayInv, [Next]_vars PROVE DelayInv'
    OBVIOUS
  <2>1. ASSUME NEW size \in Sizes, Packet(size) PROVE DelayInv'
    BY <2>1, DelayPacket
  <2>2. ASSUME NEW r \in Rates, SetBitrate(r) PROVE DelayInv'
    BY <2>2, TimesAssumption DEF SetBitrate, DelayInv
  <2>3. CASE Tick
    BY <2>3, TimesAssumption DEF Tick, DelayInv
  <2>4. CASE UNCHANGED vars
    BY <2>4 DEF vars, history, DelayInv
  <2> QED BY <2>1, <2>2, <2>3, <2>4 DEF Next
<1>3. PacerInv /\ RestInv /\ DelayInv => TypeOK
  BY DEF PacerInv, Typing, RestInv, DelayInv, TypeOK, Nothing
<1> QED BY PacerInvariant, RestInvariant, <1>1, <1>2, <1>3, PTL DEF Spec

=============================================================================
