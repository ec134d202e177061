---------------------------- MODULE PacketPacer ----------------------------
(***************************************************************************)
(* SenderPacketPacer (pipeline.rs): the token bucket in front of the       *)
(* sender's UDP sink. The pad probe holds the pacer's lock while it        *)
(* sleeps, so a packet is one step; the adaptive bitrate changes the rate  *)
(* between packets. Tokens are bytes, time is in ticks that are no longer  *)
(* than the shortest sleep. A sleep lasts until the tick after its end.    *)
(***************************************************************************)
EXTENDS Integers

CONSTANTS
  Rates,      \* paced rates, bytes per tick (paced_bytes_per_second)
  Sizes,      \* sizes of packets and of buffer lists
  Peers,      \* peer counts
  MinSleep,   \* one millisecond
  MaxDelay,   \* MAX_PACING_DELAY
  BurstTime,  \* 20 ms worth of tokens
  MinBurst, MaxBurst,  \* ... between 16 KiB and 256 KiB
  MaxIdle     \* bound: longest time between two packets that is told apart

ASSUME RatesAssumption == Rates \subseteq Nat \ {0}
ASSUME SizesAssumption == Sizes \subseteq Nat \ {0} /\ Peers \subseteq Nat \ {0}
ASSUME TimesAssumption ==
  /\ MinSleep \in Nat \ {0} /\ MaxDelay \in Nat /\ MinSleep <= MaxDelay
  /\ BurstTime \in Nat /\ MinBurst \in Nat /\ MaxBurst \in Nat /\ MinBurst <= MaxBurst
  /\ MaxIdle \in Nat

VARIABLES
  rate,    \* bytes_per_second
  peers,   \* peer_count
  tokens,
  idle,    \* time since last_update
  \* History.
  slept,   \* how long the last packet was held
  large,   \* since the last rate change a packet cost more than it may wait for
  ahead,   \* bytes sent since then beyond what the rate allows (while not large)
  burst    \* bytes since the link was last at rest; Nothing: it has not been

history == <<slept, large, ahead, burst>>
vars == <<rate, peers, tokens, idle, history>>

Lower(a, b) == IF a < b THEN a ELSE b
Higher(a, b) == IF a > b THEN a ELSE b

\* compute_max_burst_bytes
MaxTokens(r) == Lower(Higher(r * BurstTime, MinBurst), MaxBurst)

\* A rest after which no debt can be left: the deepest one, at any rate, and
\* the bucket.
Rested(r, time) == \A s \in Rates : r * time >= MaxTokens(r) + s * MaxDelay
Nothing == -1

-----------------------------------------------------------------------------
(* wait_for_packet.                                                        *)

\* Mutant of Refilled: tokens are collected without limit.
RefilledUnbounded == tokens + rate * idle
Refilled == Lower(tokens + rate * idle, MaxTokens(rate))

\* The ticks in which the rate carries a deficit, rounded up.
Ticks(deficit) == (deficit + rate - 1) \div rate

SleepFor(deficit) ==
  IF deficit > rate * MaxDelay THEN MaxDelay
  ELSE IF deficit >= rate * MinSleep THEN Ticks(deficit)
  ELSE 0

\* Mutant of Remaining: a deficit beyond the cap is kept.
RemainingInFull(balance) == balance
Remaining(balance) == Higher(balance, -(rate * MaxDelay))

Packet(size) ==
  LET cost == size * peers
      balance == Refilled - cost
      wait == IF balance < 0 THEN SleepFor(-balance) ELSE 0
  IN /\ tokens' = Remaining(balance)
     /\ idle' = 0
     /\ slept' = wait
     /\ large' = (large \/ cost > Lower(MaxTokens(rate), rate * MaxDelay))
     /\ ahead' = IF large' THEN 0 ELSE Higher(ahead - rate * wait, 0) + cost
     /\ burst' = IF Rested(rate, idle) THEN cost
                 ELSE IF burst = Nothing THEN Nothing
                 ELSE Lower(burst + cost, MaxBurst + 1)
     /\ UNCHANGED <<rate, peers>>

\* set_bitrate, called by AdaptiveBitrateController.update.
SetBitrate(r) ==
  /\ r # rate
  /\ rate' = r
  /\ tokens' = Lower(tokens, MaxTokens(r))
  /\ slept' = 0 /\ ahead' = 0 /\ large' = FALSE /\ burst' = Nothing
  /\ UNCHANGED <<peers, idle>>

\* Time passes outside of the probe.
Tick ==
  /\ idle < MaxIdle
  /\ idle' = idle + 1
  /\ ahead' = Higher(ahead - rate, 0)
  /\ UNCHANGED <<rate, peers, tokens, slept, large, burst>>

Init ==
  /\ rate \in Rates /\ peers \in Peers
  /\ tokens = MaxTokens(rate) /\ idle = 0
  /\ slept = 0 /\ ahead = 0 /\ large = FALSE /\ burst = 0

Next ==
  \/ \E size \in Sizes : Packet(size)
  \/ \E r \in Rates : SetBitrate(r)
  \/ Tick

Spec == Init /\ [][Next]_vars

-----------------------------------------------------------------------------
(* Properties.                                                             *)

TypeOK ==
  /\ rate \in Rates /\ peers \in Peers
  /\ tokens \in Int /\ tokens <= MaxTokens(rate)
  /\ idle \in 0..MaxIdle
  /\ slept \in 0..MaxDelay
  /\ ahead \in Nat /\ large \in BOOLEAN /\ burst \in Nat \cup {Nothing}

\* The network never gets more than one burst, and one millisecond that is not
\* worth sleeping for, ahead of the paced rate, over any stretch of time at one
\* rate: unless a packet is so large that its wait is cut off
\* (doc of SENDER_PACING_RATE_MULTIPLIER and of MAX_PACING_DELAY, pipeline.rs).
RateIsKept == ~large => ahead <= MaxTokens(rate) + rate * MinSleep

\* After a rest that pays off the deepest debt a burst within the allowance is
\* not delayed, whatever was sent before (pacer_replenishes_tokens_over_time).
RestedLinkIsNotDelayed ==
  [][idle' = 0 /\ burst' # Nothing /\ burst' <= MaxTokens(rate) => slept' = 0]_vars

=============================================================================
