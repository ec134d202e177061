---------------------------- MODULE DiscoveryProofs ----------------------------
(***************************************************************************)
(* Proofs about Discovery: whatever receivers there are, in whatever order *)
(* their packets arrive, the list a pass gives to the supervisor is        *)
(* determined by who was heard; and whatever subnets there are, a receiver *)
(* that can answer is probed as long as there is room.                     *)
(***************************************************************************)
EXTENDS Discovery, FiniteSetTheorems, WellFoundedInduction, TLAPS

(***************************************************************************)
(* Putting a finite set in order.                                          *)
(***************************************************************************)
(* R says of any two elements of S which comes first. *)
Orders(R, S) ==
  /\ \A x \in S : << x, x >> \notin R
  /\ \A x, y \in S : x # y => << x, y >> \in R \/ << y, x >> \in R
  /\ \A x, y, z \in S : << x, y >> \in R /\ << y, z >> \in R => << x, z >> \in R

Below(S, R, x) == {y \in S : << y, x >> \in R}

LEMMA RankGrows ==
  ASSUME NEW S, IsFiniteSet(S), NEW R, Orders(R, S)
  PROVE  /\ \A x \in S : /\ Cardinality(Below(S, R, x)) \in Nat
                        /\ Cardinality(Below(S, R, x)) < Cardinality(S)
         /\ \A x, y \in S : << x, y >> \in R =>
              Cardinality(Below(S, R, x)) < Cardinality(Below(S, R, y))
<1>1. Cardinality(S) \in Nat
  BY FS_CardinalityType
<1>2. ASSUME NEW x \in S
      PROVE  /\ Cardinality(Below(S, R, x)) \in Nat
             /\ Cardinality(Below(S, R, x)) < Cardinality(S)
  <2>1. Below(S, R, x) \subseteq S /\ x \notin Below(S, R, x)
    BY DEF Orders, Below
  <2>2. Below(S, R, x) # S /\ IsFiniteSet(Below(S, R, x))
    BY <2>1, FS_Subset
  <2> QED BY <1>1, <2>1, <2>2, FS_Subset, FS_CardinalityType
<1>3. ASSUME NEW x \in S, NEW y \in S, << x, y >> \in R
      PROVE  Cardinality(Below(S, R, x)) < Cardinality(Below(S, R, y))
  <2>1. /\ Below(S, R, x) \subseteq Below(S, R, y)
        /\ x \in Below(S, R, y) /\ x \notin Below(S, R, x)
    BY <1>3 DEF Orders, Below
  <2>2. Below(S, R, y) \subseteq S
    BY DEF Below
  <2>3. IsFiniteSet(Below(S, R, y)) /\ Below(S, R, x) # Below(S, R, y)
    BY <2>1, <2>2, FS_Subset
  <2> QED BY <2>1, <2>3, FS_Subset, FS_CardinalityType
<1> QED BY <1>2, <1>3

(* The ranks are different numbers below the size of the set, so each of    *)
(* them is somebody's.                                                      *)
LEMMA Ranks ==
  ASSUME NEW S, IsFiniteSet(S), NEW R, Orders(R, S), NEW k \in 1..Cardinality(S)
  PROVE  \E x \in S : Cardinality(Below(S, R, x)) = k - 1
<1> DEFINE n == Cardinality(S)
           rank == [x \in S |-> Cardinality(Below(S, R, x)) + 1]
<1>1. n \in Nat
  BY FS_CardinalityType
<1>2. rank \in Injection(S, 1..n)
  <2>1. rank \in [S -> 1..n]
    BY <1>1, RankGrows
  <2>2. ASSUME NEW x \in S, NEW y \in S, x # y PROVE rank[x] # rank[y]
    <3>1. << x, y >> \in R \/ << y, x >> \in R
      BY <2>2 DEF Orders
    <3> QED BY <3>1, RankGrows
  <2> HIDE DEF rank
  <2> QED BY <2>1, <2>2 DEF Injection, IsInjective
<1>3. rank \in Surjection(S, 1..n)
  <2>1. IsFiniteSet(1..n) /\ Cardinality(1..n) = n
    BY <1>1, FS_Interval
  <2> HIDE DEF rank
  <2> QED BY <1>2, <2>1, FS_Injection
<1>4. PICK x \in S : rank[x] = k
  <2> HIDE DEF rank
  <2> QED BY <1>3 DEF Surjection
<1>5. Cardinality(Below(S, R, x)) + 1 = k
  BY <1>4
<1> QED BY <1>5, RankGrows

(* f puts each element at its rank; it holds all of S, in order. *)
RankedBy(f, S, R) ==
  /\ f \in [1..Cardinality(S) -> S]
  /\ \A k \in 1..Cardinality(S) : Cardinality(Below(S, R, f[k])) = k - 1

Enumerates(f, S, R) ==
  /\ \A i, j \in 1..Cardinality(S) : i < j => << f[i], f[j] >> \in R
  /\ \A x \in S : \E i \in 1..Cardinality(S) : f[i] = x

LEMMA InOrderIsSorted ==
  ASSUME NEW S, IsFiniteSet(S), NEW R, Orders(R, S), NEW f, RankedBy(f, S, R)
  PROVE  Enumerates(f, S, R)
<1> DEFINE n == Cardinality(S)
<1>1. n \in Nat
  BY FS_CardinalityType
<1>4. /\ f \in [1..n -> S]
      /\ \A k \in 1..n : f[k] \in S /\ Cardinality(Below(S, R, f[k])) = k - 1
  BY DEF RankedBy
<1>5. ASSUME NEW i \in 1..n, NEW j \in 1..n, i < j PROVE << f[i], f[j] >> \in R
  <2>0. i - 1 # j - 1 /\ ~(j - 1 < i - 1)
    BY <1>5
  <2>1. f[i] # f[j]
    BY <1>4, <2>0
  <2>2. << f[j], f[i] >> \notin R
    <3>1. /\ f[i] \in S /\ f[j] \in S
          /\ Cardinality(Below(S, R, f[i])) = i - 1 /\ Cardinality(Below(S, R, f[j])) = j - 1
      BY <1>4
    <3>2. << f[j], f[i] >> \in R =>
            Cardinality(Below(S, R, f[j])) < Cardinality(Below(S, R, f[i]))
      BY <3>1, RankGrows
    <3> QED BY <2>0, <3>1, <3>2
  <2> QED BY <1>4, <2>1, <2>2 DEF Orders
<1>6. \A x \in S : \E i \in 1..n : f[i] = x
  <2>1. f \in Injection(1..n, S)
    <3>1. ASSUME NEW i \in 1..n, NEW j \in 1..n, i # j PROVE f[i] # f[j]
      <4>1. i - 1 # j - 1
        BY <3>1
      <4> QED BY <1>4, <4>1
    <3> QED BY <1>4, <3>1 DEF Injection, IsInjective
  <2>2. Cardinality(1..n) = n
    BY <1>1, FS_Interval
  <2>3. f \in Surjection(1..n, S)
    BY <2>1, <2>2, FS_Injection
  <2> QED BY <2>3 DEF Surjection
<1> QED BY <1>5, <1>6 DEF Enumerates

(***************************************************************************)
(* The list of a pass.                                                     *)
(***************************************************************************)
Distinct(list) ==
  \A i, j \in DOMAIN list : SameInstance(list[i], list[j]) => i = j

LEMMA BeforeOrders ==
  ASSUME NEW p \in Packet, NEW q \in Packet, NEW r \in Packet
  PROVE  /\ ~Before(p, p)
         /\ Before(p, q) => ~Before(q, p)
         /\ Before(p, q) /\ Before(q, r) => Before(p, r)
         /\ Before(p, q) \/ Before(q, p) \/ SameInstance(p, q)
         /\ SameInstance(p, q) /\ ~Before(p, r) => ~Before(q, r)
         /\ SameInstance(p, q) /\ Before(r, p) => Before(r, q)
         /\ ~Before(p, q) /\ Before(r, q) => Before(r, p)
<1>1. /\ p.from \in Nat /\ q.from \in Nat /\ r.from \in Nat
      /\ p.pid \in Nat /\ q.pid \in Nat /\ r.pid \in Nat
  BY ReceiversAssumption, NumbersAssumption DEF Packet
<1> QED BY <1>1 DEF Before, SameInstance

LEMMA SortedSorts ==
  ASSUME NEW list \in Seq(Packet), Distinct(list)
  PROVE  /\ Sorted(list) \in Seq(Packet)
         /\ \A i, j \in DOMAIN Sorted(list) : i < j => Before(Sorted(list)[i], Sorted(list)[j])
         /\ ToSet(Sorted(list)) = ToSet(list)
<1> DEFINE D == DOMAIN list
           n == Len(list)
           Prec(x) == {y \in D : Before(list[y], list[x]) \/ (~Before(list[x], list[y]) /\ y < x)}
           R == {e \in D \X D : Before(list[e[1]], list[e[2]])}
           order == [k \in 1..Cardinality(D) |-> CHOOSE x \in D : Cardinality(Prec(x)) = k - 1]
           sorted == [k \in D |-> list[order[k]]]
<1>1. D = 1..n /\ n \in Nat /\ IsFiniteSet(D) /\ Cardinality(D) = n
  <2>1. D = 1..n /\ n \in Nat
    OBVIOUS
  <2>2. IsFiniteSet(1..n) /\ Cardinality(1..n) = n
    BY <2>1, FS_Interval
  <2> HIDE DEF D, n
  <2> QED BY <2>1, <2>2
<1>2. \A i \in D : list[i] \in Packet
  OBVIOUS
<1>3. \A x, y \in D : << x, y >> \in R <=> Before(list[x], list[y])
  OBVIOUS
<1>4. Orders(R, D)
  <2>1. \A x, y \in D : x # y => Before(list[x], list[y]) \/ Before(list[y], list[x])
    BY <1>2, BeforeOrders DEF Distinct
  <2> HIDE DEF R, D
  <2> QED BY <1>2, <1>3, <2>1, BeforeOrders DEF Orders
<1>5. \A x \in D : Prec(x) = Below(D, R, x)
  <2> SUFFICES ASSUME NEW x \in D PROVE Prec(x) = Below(D, R, x)
    OBVIOUS
  <2>1. \A y \in D : y # x => Before(list[x], list[y]) \/ Before(list[y], list[x])
    BY <1>2, BeforeOrders DEF Distinct
  <2>2. \A y \in D : y < x => y # x
    BY <1>1
  <2>3. \A y \in D : y \in Prec(x) <=> Before(list[y], list[x])
    BY <2>1, <2>2
  <2>4. \A y \in D : y \in Below(D, R, x) <=> Before(list[y], list[x])
    BY <1>3 DEF Below
  <2>5. Prec(x) \subseteq D /\ Below(D, R, x) \subseteq D
    BY DEF Below
  <2> HIDE DEF Prec, R, D
  <2> QED BY <2>3, <2>4, <2>5
<1>6. \A k \in 1..n : order[k] \in D /\ Cardinality(Below(D, R, order[k])) = k - 1
  <2> SUFFICES ASSUME NEW k \in 1..n
               PROVE  order[k] \in D /\ Cardinality(Below(D, R, order[k])) = k - 1
    OBVIOUS
  <2>1. \E x \in D : Cardinality(Below(D, R, x)) = k - 1
    <3> HIDE DEF D, R
    <3> QED BY <1>1, <1>4, Ranks
  <2>2. \E x \in D : Cardinality(Prec(x)) = k - 1
    <3> HIDE DEF Prec, D, R
    <3> QED BY <1>5, <2>1
  <2>3. order[k] = CHOOSE x \in D : Cardinality(Prec(x)) = k - 1
    BY <1>1
  <2> HIDE DEF Prec, order, R, D
  <2> QED BY <1>5, <2>2, <2>3
<1>7. order \in [1..Cardinality(D) -> D]
  <2>1. \A k \in 1..Cardinality(D) : (CHOOSE x \in D : Cardinality(Prec(x)) = k - 1) \in D
    BY <1>1, <1>6
  <2> HIDE DEF Prec, R, D
  <2> QED BY <2>1
<1>8. /\ \A i, j \in 1..n : i < j => << order[i], order[j] >> \in R
      /\ \A x \in D : \E i \in 1..n : order[i] = x
  <2>1. \A k \in 1..Cardinality(D) : Cardinality(Below(D, R, order[k])) = k - 1
    BY <1>1, <1>6
  <2>3. IsFiniteSet(D)
    BY <1>1
  <2> HIDE DEF D, R, order
  <2>4. RankedBy(order, D, R)
    BY <1>7, <2>1 DEF RankedBy
  <2>2. Enumerates(order, D, R)
    BY <1>4, <2>3, <2>4, InOrderIsSorted
  <2> QED BY <1>1, <2>2 DEF Enumerates
<1>9. Sorted(list) = sorted
  BY DEF Sorted, InOrder
<1> HIDE DEF order, R
<1>10. \A i \in D : sorted[i] \in Packet /\ sorted[i] = list[order[i]] /\ order[i] \in D
  BY <1>1, <1>2, <1>7
<1>11. sorted \in Seq(Packet) /\ DOMAIN sorted = D
  BY <1>1, <1>10
<1>12. \A i, j \in D : i < j => Before(sorted[i], sorted[j])
  BY <1>1, <1>3, <1>8, <1>10
<1>13. ToSet(sorted) = ToSet(list)
  BY <1>1, <1>8, <1>10 DEF ToSet
<1> QED BY <1>9, <1>11, <1>12, <1>13

FirstOf(list) == {i \in DOMAIN list : \A j \in 1..i - 1 : list[j].address # list[i].address}

(* retain keeps the first of those with one address, in their order.        *)
LEMMA UniqueRetains ==
  ASSUME NEW list \in Seq(Packet)
  PROVE  \E m \in Nat : \E kept \in [1..m -> FirstOf(list)] :
           /\ Unique(list) = [k \in 1..m |-> list[kept[k]]]
           /\ \A i, j \in 1..m : i < j => kept[i] < kept[j]
           /\ \A x \in FirstOf(list) : \E i \in 1..m : kept[i] = x
<1> DEFINE S == FirstOf(list)
           m == Cardinality(S)
           Prec(x) == {y \in S : y < x}
           R == {e \in S \X S : e[1] < e[2]}
           kept == [k \in 1..m |-> CHOOSE x \in S : Cardinality(Prec(x)) = k - 1]
<1>1. S \subseteq Nat /\ IsFiniteSet(S) /\ m \in Nat
  <2>1. S \subseteq 1..Len(list) /\ IsFiniteSet(1..Len(list))
    BY FS_Interval DEF FirstOf
  <2>2. IsFiniteSet(S)
    BY <2>1, FS_Subset
  <2> HIDE DEF S
  <2> QED BY <2>1, <2>2, FS_CardinalityType
<1> HIDE DEF S
<1>2. \A x, y \in S : << x, y >> \in R <=> x < y
  OBVIOUS
<1> HIDE DEF R
<1>3. Orders(R, S)
  BY <1>1, <1>2 DEF Orders
<1>4. \A x \in S : Prec(x) = Below(S, R, x)
  BY <1>2 DEF Below
<1>5. \A k \in 1..m : \E x \in S : Cardinality(Prec(x)) = k - 1
  <2>1. \A k \in 1..m : \E x \in S : Cardinality(Below(S, R, x)) = k - 1
    BY <1>1, <1>3, Ranks
  <2> HIDE DEF Prec, m
  <2> QED BY <1>4, <2>1
<1>6. \A k \in 1..m : kept[k] \in S /\ Cardinality(Below(S, R, kept[k])) = k - 1
  <2> SUFFICES ASSUME NEW k \in 1..m
               PROVE  kept[k] \in S /\ Cardinality(Below(S, R, kept[k])) = k - 1
    OBVIOUS
  <2>1. kept[k] = CHOOSE x \in S : Cardinality(Prec(x)) = k - 1
    OBVIOUS
  <2> HIDE DEF Prec, kept, m
  <2> QED BY <1>4, <1>5, <2>1
<1>7. kept \in [1..m -> S]
  <2>1. \A k \in 1..m : (CHOOSE x \in S : Cardinality(Prec(x)) = k - 1) \in S
    BY <1>6
  <2> HIDE DEF Prec, m
  <2> QED BY <2>1
<1>8. Unique(list) = [k \in 1..m |-> list[kept[k]]]
  <2>1. DOMAIN kept = 1..m
    OBVIOUS
  <2>2. Unique(list) = [k \in DOMAIN kept |-> list[kept[k]]]
    BY DEF Unique, InOrder, FirstOf, S
  <2> HIDE DEF kept
  <2> QED BY <2>1, <2>2
<1> HIDE DEF kept
<1>9. RankedBy(kept, S, R)
  BY <1>6, <1>7 DEF RankedBy
<1>10. Enumerates(kept, S, R)
  BY <1>1, <1>3, <1>9, InOrderIsSorted
<1>11. \A i, j \in 1..m : i < j => kept[i] < kept[j]
  BY <1>2, <1>6, <1>10 DEF Enumerates
<1>12. \A x \in S : \E i \in 1..m : kept[i] = x
  BY <1>10 DEF Enumerates
<1> HIDE DEF m
<1> QED BY <1>1, <1>7, <1>8, <1>11, <1>12 DEF S

(* Of those known under one address, the least instance. *)
Entries(known) ==
  {p \in ToSet(known) : \A i \in DOMAIN known :
     known[i].address = p.address => ~Before(known[i], p)}

Increasing(list) == \A i, j \in DOMAIN list : i < j => Before(list[i], list[j])

LEMMA StableUniqueIsOrdered ==
  ASSUME NEW known \in Seq(Packet), Distinct(known)
  PROVE  /\ StableUnique(known) \in Seq(Packet)
         /\ Increasing(StableUnique(known))
         /\ ToSet(StableUnique(known)) = Entries(known)
<1> DEFINE sorted == Sorted(known)
           F == FirstOf(sorted)
<1>1. /\ sorted \in Seq(Packet) /\ ToSet(sorted) = ToSet(known)
      /\ \A i, j \in DOMAIN sorted : i < j => Before(sorted[i], sorted[j])
  BY SortedSorts
<1>2. StableUnique(known) = Unique(sorted)
  BY DEF StableUnique
<1> HIDE DEF sorted
<1>3. F \subseteq DOMAIN sorted /\ DOMAIN sorted = 1..Len(sorted) /\ Len(sorted) \in Nat
  BY <1>1 DEF FirstOf
<1>4. PICK m \in Nat : \E f \in [1..m -> F] :
        /\ Unique(sorted) = [k \in 1..m |-> sorted[f[k]]]
        /\ \A i, j \in 1..m : i < j => f[i] < f[j]
        /\ \A x \in F : \E i \in 1..m : f[i] = x
  BY <1>1, UniqueRetains
<1>5. PICK kept \in [1..m -> F] :
        /\ Unique(sorted) = [k \in 1..m |-> sorted[kept[k]]]
        /\ \A i, j \in 1..m : i < j => kept[i] < kept[j]
        /\ \A x \in F : \E i \in 1..m : kept[i] = x
  BY <1>4
<1> DEFINE list == [k \in 1..m |-> sorted[kept[k]]]
<1>6. \A k \in 1..m : /\ kept[k] \in F /\ kept[k] \in DOMAIN sorted
                     /\ list[k] = sorted[kept[k]] /\ list[k] \in Packet
  BY <1>1, <1>3, <1>5
<1>7. list \in Seq(Packet) /\ DOMAIN list = 1..m
  BY <1>6
<1>8. Increasing(list)
  <2>1. ASSUME NEW i \in 1..m, NEW j \in 1..m, i < j PROVE Before(list[i], list[j])
    <3>1. kept[i] < kept[j]
      BY <1>5, <2>1
    <3> HIDE DEF list, F
    <3> QED BY <1>1, <1>6, <3>1
  <2> HIDE DEF list
  <2> QED BY <1>7, <2>1 DEF Increasing
<1>9. \A x \in DOMAIN sorted : x \in F <=> sorted[x] \in Entries(known)
  <2> SUFFICES ASSUME NEW x \in DOMAIN sorted
               PROVE  x \in F <=> sorted[x] \in Entries(known)
    OBVIOUS
  <2>1. \A y \in DOMAIN sorted : y \in 1..x - 1 <=> y < x
    BY <1>3
  <2>2. 1..x - 1 \subseteq DOMAIN sorted
    BY <1>3
  <2>3. \A y \in DOMAIN sorted : Before(sorted[y], sorted[x]) <=> y < x
    <3> SUFFICES ASSUME NEW y \in DOMAIN sorted
                 PROVE  Before(sorted[y], sorted[x]) <=> y < x
      OBVIOUS
    <3>1. y < x \/ y = x \/ x < y
      BY <1>3
    <3>2. sorted[x] \in Packet /\ sorted[y] \in Packet
      BY <1>1
    <3>3. CASE y < x
      BY <1>1, <3>3
    <3>4. CASE y = x
      <4>1. ~(y < x)
        BY <1>3, <3>4
      <4> QED BY <3>2, <3>4, <4>1, BeforeOrders
    <3>5. CASE x < y
      <4>1. ~(y < x) /\ Before(sorted[x], sorted[y])
        BY <1>1, <1>3, <3>5
      <4> QED BY <3>2, <4>1, BeforeOrders
    <3> QED BY <3>1, <3>3, <3>4, <3>5
  <2>4. sorted[x] \in ToSet(known)
    BY <1>1 DEF ToSet
  <2>5. (\A i \in DOMAIN known : known[i].address = sorted[x].address => ~Before(known[i], sorted[x]))
          <=> \A y \in DOMAIN sorted : sorted[y].address = sorted[x].address => ~Before(sorted[y], sorted[x])
    <3>1. \A i \in DOMAIN known : \E y \in DOMAIN sorted : sorted[y] = known[i]
      BY <1>1 DEF ToSet
    <3>2. \A y \in DOMAIN sorted : \E i \in DOMAIN known : sorted[y] = known[i]
      BY <1>1 DEF ToSet
    <3> QED BY <3>1, <3>2
  <2>6. x \in F <=> \A y \in DOMAIN sorted : y < x => sorted[y].address # sorted[x].address
    BY <2>1, <2>2 DEF FirstOf
  <2> QED BY <2>3, <2>4, <2>5, <2>6 DEF Entries
<1>10. ToSet(list) = Entries(known)
  <2>1. \A p \in ToSet(list) : p \in Entries(known)
    BY <1>6, <1>7, <1>9 DEF ToSet
  <2>2. ASSUME NEW p \in Entries(known) PROVE p \in ToSet(list)
    <3>1. PICK x \in DOMAIN sorted : sorted[x] = p
      BY <1>1 DEF Entries, ToSet
    <3>2. x \in F
      BY <1>9, <3>1
    <3>3. PICK k \in 1..m : kept[k] = x
      BY <1>5, <3>2
    <3> QED BY <1>6, <1>7, <3>1, <3>3 DEF ToSet
  <2> QED BY <2>1, <2>2
<1>11. StableUnique(known) = list
  BY <1>2, <1>5
<1> HIDE DEF list
<1> QED BY <1>7, <1>8, <1>10, <1>11

LEMMA Prefix ==
  ASSUME NEW S, NEW s \in Seq(S), NEW m \in 0..Len(s)
  PROVE  /\ SubSeq(s, 1, m) \in Seq(S) /\ Len(SubSeq(s, 1, m)) = m
         /\ \A i \in 1..m : SubSeq(s, 1, m)[i] = s[i]
<1>1. SubSeq(s, 1, m) \in Seq(S)
  OBVIOUS
<1>2. Len(SubSeq(s, 1, m)) = m
  OBVIOUS
<1>3. \A i \in 1..m : SubSeq(s, 1, m)[i] = s[i]
  OBVIOUS
<1> QED BY <1>1, <1>2, <1>3

LEMMA LeastNatural ==
  ASSUME NEW T, T \subseteq Nat, T # {}
  PROVE  \E m \in T : \A k \in T : m <= k
<1> DEFINE R == OpToRel(<, Nat)
<1>1. PICK m \in T : \A k \in T : ~(<< k, m >> \in R)
  BY WFMin, NatLessThanWellFounded
<1>2. \A k \in T : ~(k < m)
  <2> SUFFICES ASSUME NEW k \in T, k < m PROVE FALSE
    OBVIOUS
  <2>1. k \in Nat /\ m \in Nat
    OBVIOUS
  <2>2. << k, m >> \in R
    BY <2>1 DEF OpToRel
  <2> HIDE DEF R
  <2> QED BY <1>1, <2>2
<1>3. m \in Nat /\ \A k \in T : k \in Nat
  OBVIOUS
<1> HIDE DEF R
<1>4. \A k \in T : m <= k
  BY <1>2, <1>3
<1> QED BY <1>4

(* The first of these entries in order, as many as there is room for.      *)
Lists(entries, list) ==
  /\ list \in Seq(Packet) /\ ToSet(list) \subseteq entries
  /\ Len(list) <= Limit /\ Increasing(list)
  /\ \A p \in entries \ ToSet(list) :
       Len(list) = Limit /\ \A i \in DOMAIN list : Before(list[i], p)

(* However many a sender takes, the list is cut to that number.             *)
LEMMA CutIsInOrder ==
  ASSUME NEW known \in Seq(Packet), Distinct(known), NEW list,
         list = LET found == StableUnique(known)
                IN SubSeq(found, 1, IF Len(found) < Limit THEN Len(found) ELSE Limit)
  PROVE  Lists(Entries(known), list)
<1> DEFINE found == StableUnique(known)
           m == IF Len(found) < Limit THEN Len(found) ELSE Limit
<1>1. found \in Seq(Packet) /\ Increasing(found) /\ ToSet(found) = Entries(known)
  BY StableUniqueIsOrdered
<1>2. list = SubSeq(found, 1, m)
  OBVIOUS
<1> HIDE DEF found
<1>3. m \in 0..Len(found) /\ m <= Limit /\ m \in Nat
  BY <1>1, NumbersAssumption
<1>4. m < Len(found) => m = Limit
  BY <1>1, NumbersAssumption
<1> HIDE DEF m
<1>5. /\ list \in Seq(Packet) /\ Len(list) = m /\ DOMAIN list = 1..m
      /\ \A i \in 1..m : list[i] = found[i] /\ i \in DOMAIN found
  <2>1. /\ list \in Seq(Packet) /\ Len(list) = m
        /\ \A i \in 1..m : list[i] = found[i]
    BY <1>1, <1>2, <1>3, Prefix
  <2>2. DOMAIN list = 1..m
    BY <2>1
  <2>5. \A i \in 1..m : i \in DOMAIN found
    BY <1>1, <1>3
  <2> QED BY <2>1, <2>2, <2>5
<1>6. ToSet(list) \subseteq Entries(known)
  BY <1>1, <1>5 DEF ToSet
<1>7. \A i, j \in DOMAIN list : i < j => Before(list[i], list[j])
  BY <1>1, <1>5 DEF Increasing
<1>8. ASSUME NEW p \in Entries(known) \ ToSet(list)
      PROVE  Len(list) = Limit /\ \A i \in DOMAIN list : Before(list[i], p)
  <2>1. PICK k \in DOMAIN found : found[k] = p
    BY <1>1 DEF ToSet
  <2>2. k \notin 1..m
    BY <1>5, <2>1 DEF ToSet
  <2>3. k \in 1..Len(found) /\ Len(found) \in Nat
    BY <1>1, <2>1
  <2>4. m < k /\ m < Len(found)
    BY <1>3, <2>2, <2>3
  <2>5. \A i \in 1..m : i \in DOMAIN found /\ i < k
    BY <1>3, <1>5, <2>3, <2>4
  <2> QED BY <1>1, <1>4, <1>5, <2>1, <2>4, <2>5 DEF Increasing
<1> QED BY <1>3, <1>5, <1>6, <1>7, <1>8 DEF Lists, Increasing

(* Of those known under an address there is a first in order.               *)
LEMMA FirstAtAddress ==
  ASSUME NEW known \in Seq(Packet), Distinct(known), NEW m \in ToSet(known)
  PROVE  \E e \in Entries(known) : e.address = m.address /\ ~Before(m, e)
<1> DEFINE sorted == Sorted(known)
           T == {i \in DOMAIN sorted : sorted[i].address = m.address}
<1>1. /\ sorted \in Seq(Packet) /\ ToSet(sorted) = ToSet(known)
      /\ \A i, j \in DOMAIN sorted : i < j => Before(sorted[i], sorted[j])
  BY SortedSorts
<1> HIDE DEF sorted
<1>2. PICK k \in DOMAIN sorted : sorted[k] = m
  BY <1>1 DEF ToSet
<1>3. T \subseteq Nat /\ T # {} /\ DOMAIN sorted \subseteq Nat
  BY <1>1, <1>2
<1>4. PICK x \in T : \A y \in T : x <= y
  <2> HIDE DEF T
  <2> QED BY <1>3, LeastNatural
<1>5. \A y \in DOMAIN sorted : sorted[y] \in Packet
  BY <1>1
<1>6. ASSUME NEW y \in DOMAIN sorted, sorted[y].address = m.address
      PROVE  ~Before(sorted[y], sorted[x])
  <2>1. x = y \/ x < y
    BY <1>3, <1>4, <1>6
  <2> QED BY <1>1, <1>5, <2>1, BeforeOrders
<1>7. \A i \in DOMAIN known : \E y \in DOMAIN sorted : known[i] = sorted[y]
  BY <1>1 DEF ToSet
<1>8. sorted[x] \in ToSet(known) /\ sorted[x].address = m.address
  BY <1>1 DEF ToSet
<1> HIDE DEF T
<1>9. sorted[x] \in Entries(known)
  BY <1>6, <1>7, <1>8 DEF Entries
<1> QED BY <1>2, <1>6, <1>8, <1>9

(* What a pass knows of what it has heard: every instance once.             *)
Knows(known, all) ==
  /\ known \in Seq(Packet) /\ Distinct(known) /\ all \subseteq Packet
  /\ ToSet(known) \subseteq all
  /\ \A p \in all : \E m \in ToSet(known) : SameInstance(m, p)

LEMMA ListIsCanonical ==
  ASSUME NEW known, NEW all, Knows(known, all), NEW list, Lists(Entries(known), list)
  PROVE  Canonical(all, list)
<1>1. /\ known \in Seq(Packet) /\ Distinct(known) /\ ToSet(known) \subseteq all
      /\ list \in Seq(Packet) /\ ToSet(list) \subseteq Entries(known) /\ Increasing(list)
      /\ all \subseteq Packet
  BY DEF Knows, Lists
<1>2. Entries(known) \subseteq ToSet(known) /\ ToSet(list) \subseteq all
  BY <1>1 DEF Entries
<1>3. \A i \in DOMAIN list : /\ list[i] \in Packet /\ list[i] \in ToSet(list)
                             /\ list[i] \in Entries(known)
  BY <1>1 DEF ToSet
<1>4. ASSUME NEW i \in DOMAIN list, NEW j \in DOMAIN list, i < j
      PROVE  Before(list[i], list[j]) /\ list[i].address # list[j].address
  <2>1. Before(list[i], list[j])
    BY <1>1, <1>4 DEF Increasing
  <2>2. list[i] \in ToSet(known) /\ list[j] \in Entries(known)
    BY <1>2, <1>3
  <2> QED BY <2>1, <2>2 DEF Entries, ToSet
<1>5. ASSUME NEW p \in all
      PROVE  \/ \E q \in ToSet(list), m \in all :
                  SameInstance(m, p) /\ m.address = q.address /\ ~Before(p, q)
             \/ Len(list) = Limit /\ \A i \in DOMAIN list : Before(list[i], p)
  <2>1. PICK m \in ToSet(known) : SameInstance(m, p)
    BY DEF Knows
  <2>2. PICK e \in Entries(known) : e.address = m.address /\ ~Before(m, e)
    BY <1>1, FirstAtAddress
  <2>3. m \in all /\ m \in Packet /\ p \in Packet /\ e \in Packet
    BY <1>1, <1>2
  <2>4. ~Before(p, e)
    BY <2>1, <2>2, <2>3, BeforeOrders
  <2>5. CASE e \in ToSet(list)
    BY <2>1, <2>2, <2>3, <2>4, <2>5
  <2>6. CASE e \notin ToSet(list)
    <3>1. Len(list) = Limit /\ \A i \in DOMAIN list : Before(list[i], e)
      BY <2>6 DEF Lists
    <3> QED BY <1>3, <2>3, <2>4, <3>1, BeforeOrders
  <2> QED BY <2>5, <2>6
<1>6. \A i \in DOMAIN list : list[i].from \notin Foreign
  BY <1>3 DEF Packet
<1>7. Len(list) <= Limit
  BY DEF Lists
<1> QED BY <1>2, <1>4, <1>5, <1>6, <1>7 DEF Canonical

(***************************************************************************)
(* One list for one set of receivers.                                      *)
(***************************************************************************)
(* Where two such lists agree up to an index, the one has no element there  *)
(* that goes before the other's, or that the other has no place for.        *)
LEMMA NoEarlierEntry ==
  ASSUME NEW entries \in SUBSET Packet, NEW a, NEW b, Lists(entries, a), Lists(entries, b),
         NEW k \in DOMAIN a, \A j \in DOMAIN a : j < k => j \in DOMAIN b /\ b[j] = a[j]
  PROVE  k \in DOMAIN b /\ ~Before(a[k], b[k])
<1>1. /\ a \in Seq(Packet) /\ b \in Seq(Packet) /\ Increasing(a) /\ Increasing(b)
      /\ Len(a) <= Limit /\ Limit \in Nat
  BY NumbersAssumption DEF Lists
<1>2. /\ DOMAIN a = 1..Len(a) /\ DOMAIN b = 1..Len(b) /\ Len(a) \in Nat /\ Len(b) \in Nat
      /\ k \in Nat /\ k >= 1 /\ k <= Len(a)
      /\ \A i \in DOMAIN a : a[i] \in Packet
      /\ \A i \in DOMAIN b : b[i] \in Packet
  BY <1>1
<1> SUFFICES ASSUME k \notin DOMAIN b \/ Before(a[k], b[k]) PROVE FALSE
  OBVIOUS
<1>3. a[k] \in entries
  BY DEF Lists, ToSet
<1>4. ASSUME NEW i \in DOMAIN b PROVE b[i] # a[k]
  <2>1. i < k \/ (i >= k /\ k \in DOMAIN b)
    BY <1>2
  <2>2. CASE i < k
    <3>1. i \in DOMAIN a /\ b[i] = a[i]
      BY <1>2, <2>2
    <3>2. Before(b[i], a[k])
      BY <1>1, <2>2, <3>1 DEF Increasing
    <3> QED BY <1>2, <3>2, BeforeOrders
  <2>3. CASE i >= k /\ k \in DOMAIN b
    <3>1. Before(a[k], b[k])
      BY <2>3
    <3>2. i = k \/ Before(b[k], b[i])
      BY <1>1, <1>2, <2>3 DEF Increasing
    <3>3. Before(a[k], b[i])
      BY <1>2, <2>3, <3>1, <3>2, BeforeOrders
    <3> QED BY <1>2, <3>3, BeforeOrders
  <2> QED BY <2>1, <2>2, <2>3
<1>5. a[k] \in entries \ ToSet(b)
  BY <1>3, <1>4 DEF ToSet
<1>6. Len(b) = Limit /\ \A i \in DOMAIN b : Before(b[i], a[k])
  BY <1>5 DEF Lists
<1>7. k \in DOMAIN b
  BY <1>1, <1>2, <1>6
<1> QED BY <1>2, <1>6, <1>7, BeforeOrders

LEMMA OneListOnly ==
  ASSUME NEW entries \in SUBSET Packet, NEW a, NEW b, Lists(entries, a), Lists(entries, b),
         \A p, q \in entries : SameInstance(p, q) => p = q
  PROVE  a = b
<1>1. a \in Seq(Packet) /\ b \in Seq(Packet)
  BY DEF Lists
<1> DEFINE Agree(k) == k \in DOMAIN a /\ k \in DOMAIN b /\ a[k] = b[k]
           T == {k \in DOMAIN a \cup DOMAIN b : ~Agree(k)}
<1>2. DOMAIN a \subseteq Nat /\ DOMAIN b \subseteq Nat /\ T \subseteq Nat
  BY <1>1
<1>3. T = {}
  <2> SUFFICES ASSUME T # {} PROVE FALSE
    OBVIOUS
  <2>1. PICK k \in T : \A j \in T : k <= j
    BY <1>2, LeastNatural
  <2>2. \A j \in DOMAIN a \cup DOMAIN b : j < k => Agree(j)
    <3> SUFFICES ASSUME NEW j \in DOMAIN a \cup DOMAIN b, j < k, ~Agree(j) PROVE FALSE
      OBVIOUS
    <3>1. j \in T
      OBVIOUS
    <3>2. j \in Nat /\ k \in Nat /\ k <= j
      BY <1>2, <2>1, <3>1
    <3> QED BY <3>2
  <2>3. k \in DOMAIN a => k \in DOMAIN b /\ ~Before(a[k], b[k])
    BY <2>2, NoEarlierEntry
  <2>4. k \in DOMAIN b => k \in DOMAIN a /\ ~Before(b[k], a[k])
    BY <2>2, NoEarlierEntry
  <2>5. k \in DOMAIN a /\ k \in DOMAIN b /\ ~Before(a[k], b[k]) /\ ~Before(b[k], a[k])
    BY <2>1, <2>3, <2>4
  <2>6. a[k] \in entries /\ b[k] \in entries /\ a[k] \in Packet /\ b[k] \in Packet
    BY <2>5 DEF Lists, ToSet
  <2>7. a[k] = b[k]
    BY <2>5, <2>6, BeforeOrders
  <2> QED BY <2>1, <2>5, <2>7
<1>4. DOMAIN a = DOMAIN b /\ \A k \in DOMAIN a : a[k] = b[k]
  BY <1>3
<1> HIDE DEF T, Agree
<1> QED BY <1>1, <1>4

(* Of receivers heard from one address each there is one canonical list:    *)
(* two passes that heard the same of them, in whatever orders and however   *)
(* often, give the supervisor the same.                                     *)
THEOREM SameHeardSameList ==
  ASSUME NEW all \in SUBSET Packet, \A p, q \in all : SameInstance(p, q) => p = q,
         NEW one \in Seq(Packet), NEW other \in Seq(Packet),
         Canonical(all, one), Canonical(all, other)
  PROVE  one = other
<1> DEFINE entries == {p \in all : \A q \in all : q.address = p.address => ~Before(q, p)}
<1>1. ASSUME NEW list \in Seq(Packet), Canonical(all, list)
      PROVE  Lists(entries, list)
  <2>1. /\ ToSet(list) \subseteq all /\ Len(list) <= Limit /\ Increasing(list)
        /\ \A i \in DOMAIN list : list[i] \in ToSet(list) /\ list[i] \in all
    BY <1>1 DEF Canonical, Increasing, ToSet
  <2>2. ASSUME NEW q \in all
        PROVE  \/ \E e \in ToSet(list) : q.address = e.address /\ ~Before(q, e)
               \/ Len(list) = Limit /\ \A i \in DOMAIN list : Before(list[i], q)
    BY <1>1 DEF Canonical
  <2>3. ASSUME NEW p \in ToSet(list), NEW q \in all, q.address = p.address, Before(q, p)
        PROVE  FALSE
    <3>1. PICK j \in DOMAIN list : list[j] = p
      BY DEF ToSet
    <3>2. CASE \E e \in ToSet(list) : q.address = e.address /\ ~Before(q, e)
      <4>1. PICK i \in DOMAIN list : q.address = list[i].address /\ ~Before(q, list[i])
        BY <3>2 DEF ToSet
      <4>2. i < j \/ i = j \/ j < i
        BY <1>1
      <4>3. i = j
        BY <1>1, <2>3, <3>1, <4>1, <4>2 DEF Canonical
      <4> QED BY <2>3, <3>1, <4>1, <4>3
    <3>3. CASE \A i \in DOMAIN list : Before(list[i], q)
      BY <2>1, <2>3, <3>1, <3>3, BeforeOrders
    <3> QED BY <2>2, <3>2, <3>3
  <2>4. ToSet(list) \subseteq entries
    BY <2>1, <2>3
  <2>5. ASSUME NEW p \in entries \ ToSet(list)
        PROVE  Len(list) = Limit /\ \A i \in DOMAIN list : Before(list[i], p)
    <3>1. ASSUME NEW e \in ToSet(list), p.address = e.address, ~Before(p, e) PROVE FALSE
      <4>1. e \in all /\ ~Before(e, p)
        BY <2>1, <2>5, <3>1
      <4>2. SameInstance(e, p)
        BY <2>5, <3>1, <4>1, BeforeOrders
      <4> QED BY <2>5, <3>1, <4>1, <4>2
    <3> QED BY <2>2, <2>5, <3>1
  <2> HIDE DEF entries
  <2> QED BY <1>1, <2>1, <2>4, <2>5 DEF Lists
<1>2. entries \in SUBSET Packet /\ \A p, q \in entries : SameInstance(p, q) => p = q
  OBVIOUS
<1>3. Lists(entries, one) /\ Lists(entries, other)
  BY <1>1
<1> HIDE DEF entries
<1> QED BY <1>2, <1>3, OneListOnly

(***************************************************************************)
(* What is probed.                                                         *)
(***************************************************************************)
(* The first elements of a set of numbers, as many as there is room for: all *)
(* of them, or exactly as many as that.                                      *)
LEMMA FirstHosts ==
  ASSUME NEW new \in SUBSET Nat, IsFiniteSet(new), NEW room \in Nat,
         NEW cut, cut = {h \in new : Cardinality(new \cap (0..h)) <= room}
  PROVE  /\ cut \subseteq new /\ IsFiniteSet(cut)
         /\ Cardinality(cut) <= room
         /\ cut = new \/ Cardinality(cut) = room
<1> DEFINE R == {e \in new \X new : e[1] < e[2]}
           rank(x) == Cardinality(Below(new, R, x))
           n == Cardinality(new)
<1>1. n \in Nat /\ cut \subseteq new /\ IsFiniteSet(cut)
  <2>1. cut \subseteq new
    OBVIOUS
  <2> QED BY <2>1, FS_CardinalityType, FS_Subset
<1>2. \A x, y \in new : << x, y >> \in R <=> x < y
  OBVIOUS
<1> HIDE DEF R
<1>3. Orders(R, new)
  BY <1>2 DEF Orders
<1>4. \A x \in new : rank(x) \in Nat /\ rank(x) < n
  BY <1>3, RankGrows
<1>5. \A x \in new : Cardinality(new \cap (0..x)) = rank(x) + 1
  <2> SUFFICES ASSUME NEW x \in new PROVE Cardinality(new \cap (0..x)) = rank(x) + 1
    OBVIOUS
  <2>1. new \cap (0..x) = Below(new, R, x) \cup {x}
    <3>1. \A y \in new : y \in 0..x <=> y < x \/ y = x
      OBVIOUS
    <3>2. \A y \in new : y \in Below(new, R, x) <=> y < x
      BY <1>2 DEF Below
    <3>3. Below(new, R, x) \subseteq new
      BY DEF Below
    <3> QED BY <3>1, <3>2, <3>3
  <2>2. x \notin Below(new, R, x) /\ IsFiniteSet(Below(new, R, x))
    <3>1. Below(new, R, x) \subseteq new
      BY DEF Below
    <3>2. ~(x < x)
      OBVIOUS
    <3> QED BY <1>2, <3>1, <3>2, FS_Subset DEF Below
  <2> QED BY <2>1, <2>2, FS_AddElement
<1>6. \A x \in new : x \in cut <=> rank(x) + 1 <= room
  BY <1>5
<1>7. CASE n <= room
  <2>1. \A x \in new : x \in cut
    BY <1>1, <1>4, <1>6, <1>7
  <2>2. cut = new
    BY <1>1, <2>1
  <2> QED BY <1>1, <1>7, <2>2
<1>8. CASE n > room
  <2> DEFINE place == [x \in cut |-> rank(x) + 1]
  <2>1. place \in [cut -> 1..room]
    <3>1. \A x \in cut : rank(x) + 1 \in 1..room
      BY <1>1, <1>4, <1>6
    <3> HIDE DEF rank
    <3> QED BY <3>1
  <2>2. ASSUME NEW x \in cut, NEW y \in cut, x # y PROVE place[x] # place[y]
    <3>1. << x, y >> \in R \/ << y, x >> \in R
      BY <1>1, <1>3, <2>2 DEF Orders
    <3>2. rank(x) # rank(y)
      BY <1>1, <1>3, <1>4, <3>1, RankGrows
    <3> QED BY <1>1, <1>4, <3>2
  <2>3. ASSUME NEW k \in 1..room PROVE \E x \in cut : place[x] = k
    <3>1. k \in 1..n
      BY <1>1, <1>8
    <3>2. PICK x \in new : rank(x) = k - 1
      BY <1>3, <3>1, Ranks
    <3>3. x \in cut
      BY <1>6, <3>2
    <3> QED BY <3>2, <3>3
  <2> HIDE DEF place
  <2>4. place \in Bijection(cut, 1..room)
    BY <2>1, <2>2, <2>3 DEF Bijection, Injection, IsInjective, Surjection
  <2>5. IsFiniteSet(1..room) /\ Cardinality(1..room) = room
    BY FS_Interval
  <2>6. Cardinality(cut) = Cardinality(1..room)
    BY <1>1, <2>4, FS_Bijection DEF ExistsBijection
  <2> QED BY <1>1, <2>5, <2>6
<1> QED BY <1>1, <1>7, <1>8

LEMMA Multiples ==
  ASSUME NEW x \in Nat, NEW s \in Nat, s # 0
  PROVE  /\ (x \div s) * s \in Nat
         /\ (x \div s) * s <= x
         /\ x < (x \div s) * s + s
BY Z3

Interface == [ip: Nat, bits: 0..32, link: STRING, up: BOOLEAN]

ScannedSize(o) == 2^ScannedBits(o)

LEMMA SizeIsANumber ==
  ASSUME NEW o \in Interface
  PROVE  ScannedSize(o) \in Nat /\ ScannedSize(o) # 0
<1>1. ScannedBits(o) \in 0..ScanBits
  BY NumbersAssumption DEF Interface, ScannedBits
<1> QED BY <1>1, PowersAssumption DEF ScannedSize

(* The hosts of an interface's subnet are finitely many addresses, every    *)
(* one of them but the interface's own.                                     *)
LEMMA SubnetIsHosts ==
  ASSUME NEW o \in Interface
  PROVE  /\ ProbeSubnet(o) \in SUBSET Nat /\ IsFiniteSet(ProbeSubnet(o))
         /\ \A x \in Nat :
              /\ Network(x, ScannedBits(o)) = Network(o.ip, ScannedBits(o)) /\ x # o.ip
              /\ x \notin {Network(o.ip, ScannedBits(o)), LastOf(o.ip, ScannedBits(o))}
              => x \in ProbeSubnet(o)
<1> DEFINE s == ScannedSize(o)
           first == Network(o.ip, ScannedBits(o))
           last == LastOf(o.ip, ScannedBits(o))
<1>1. s \in Nat /\ s # 0 /\ o.ip \in Nat
  BY SizeIsANumber DEF Interface
<1>2. ProbeSubnet(o) = IF last <= first + 1 THEN {} ELSE (first + 1 .. last - 1) \ {o.ip}
  BY DEF ProbeSubnet
<1>3. last = first + s - 1
  BY DEF LastOf, ScannedSize
<1>4. \A x \in Nat : Network(x, ScannedBits(o)) = (x \div s) * s
  BY DEF Network, ScannedSize
<1> HIDE DEF s
<1>5. \A x \in Nat : /\ Network(x, ScannedBits(o)) \in Nat
                    /\ Network(x, ScannedBits(o)) <= x /\ x < Network(x, ScannedBits(o)) + s
  BY <1>1, <1>4, Multiples
<1>6. first \in Nat /\ last \in Int
  BY <1>1, <1>3, <1>5
<1> HIDE DEF first, last
<1>7. (first + 1 .. last - 1) \in SUBSET Nat /\ IsFiniteSet(first + 1 .. last - 1)
  <2>1. first + 1 \in Nat /\ last - 1 \in Int
    BY <1>6
  <2>2. IsFiniteSet(first + 1 .. last - 1)
    BY <2>1, FS_Interval
  <2> QED BY <2>1, <2>2
<1>8. ProbeSubnet(o) \in SUBSET Nat /\ IsFiniteSet(ProbeSubnet(o))
  <2>1. ProbeSubnet(o) \subseteq (first + 1 .. last - 1)
    BY <1>2
  <2> QED BY <1>7, <2>1, FS_Subset
<1>9. ASSUME NEW x \in Nat, Network(x, ScannedBits(o)) = first, x # o.ip, x \notin {first, last}
      PROVE  x \in ProbeSubnet(o)
  <2>1. first <= x /\ x < first + s
    BY <1>5, <1>9
  <2>2. x \in first + 1 .. last - 1 /\ ~(last <= first + 1)
    BY <1>1, <1>3, <1>6, <1>9, <2>1
  <2> QED BY <1>2, <1>9, <2>2
<1> QED BY <1>8, <1>9 DEF first, last

(* One more interface: what was found stays, and its hosts are added, as    *)
(* long as there is room.                                                   *)
Fits(targets) ==
  targets \in SUBSET Nat /\ IsFiniteSet(targets) /\ Cardinality(targets) <= MaxProbes

Full(targets) == Cardinality(targets) = MaxProbes

LEMMA ProbedStep ==
  ASSUME NEW targets, Fits(targets), NEW o \in Interface
  PROVE  /\ Fits(Probed(targets, o)) /\ targets \subseteq Probed(targets, o)
         /\ Full(targets) => Full(Probed(targets, o))
         /\ o.ip \in Lan => ProbeSubnet(o) \subseteq Probed(targets, o) \/ Full(Probed(targets, o))
<1> DEFINE new == ProbeSubnet(o) \ targets
           room == MaxProbes - Cardinality(targets)
           cut == {h \in new : Cardinality(new \cap (0..h)) <= room}
<1>1. Probed(targets, o) = IF o.ip \notin Lan THEN targets ELSE targets \cup cut
  BY DEF Probed
<1>2. CASE o.ip \notin Lan
  BY <1>1, <1>2
<1>3. CASE o.ip \in Lan
  <2>1. /\ targets \in SUBSET Nat /\ IsFiniteSet(targets)
        /\ Cardinality(targets) \in Nat /\ room \in Nat /\ MaxProbes \in Nat
    BY NumbersAssumption, FS_CardinalityType DEF Fits
  <2>2. new \in SUBSET Nat /\ IsFiniteSet(new)
    BY SubnetIsHosts, FS_Difference
  <2>3. /\ cut \subseteq new /\ IsFiniteSet(cut) /\ Cardinality(cut) <= room
        /\ cut = new \/ Cardinality(cut) = room
    <3> DEFINE taken == cut
    <3>1. taken = {h \in new : Cardinality(new \cap (0..h)) <= room}
      OBVIOUS
    <3> HIDE DEF taken, new, room
    <3>2. /\ taken \subseteq new /\ IsFiniteSet(taken) /\ Cardinality(taken) <= room
          /\ taken = new \/ Cardinality(taken) = room
      BY <2>1, <2>2, <3>1, FirstHosts
    <3> QED BY <3>2 DEF taken
  <2>4. new \cap targets = {} /\ targets \cup new = targets \cup ProbeSubnet(o)
    OBVIOUS
  <2> HIDE DEF cut, new
  <2>5. IsFiniteSet(targets \cup cut) /\ Cardinality(targets \cup cut) = Cardinality(targets) + Cardinality(cut)
    <3>1. targets \cap cut = {}
      BY <2>3, <2>4
    <3>2. Cardinality(targets \cap cut) = 0
      BY <3>1, FS_EmptySet
    <3>3. Cardinality(cut) \in Nat
      BY <2>3, FS_CardinalityType
    <3> QED BY <2>1, <2>3, <3>2, <3>3, FS_Union
  <2>6. Cardinality(cut) \in Nat
    BY <2>3, FS_CardinalityType
  <2>7. Cardinality(targets \cup cut) <= MaxProbes
    BY <2>1, <2>3, <2>5, <2>6
  <2>8. Full(targets) => Full(targets \cup cut)
    BY <2>1, <2>3, <2>5, <2>6 DEF Full
  <2>9. ProbeSubnet(o) \subseteq targets \cup cut \/ Full(targets \cup cut)
    BY <2>1, <2>3, <2>4, <2>5 DEF Full
  <2>10. Fits(targets \cup cut)
    BY <2>1, <2>2, <2>3, <2>5, <2>7 DEF Fits
  <2>11. Probed(targets, o) = targets \cup cut
    BY <1>1, <1>3
  <2> QED BY <2>8, <2>9, <2>10, <2>11
<1> QED BY <1>2, <1>3

(* The recursion of ProbeTargets has a value for each of its steps.         *)
Steps(f, interfaces, n) ==
  f = [k \in 0..n |-> IF k = 0 THEN {} ELSE Probed(f[k - 1], interfaces[k])]

LEMMA StepsExist ==
  ASSUME NEW interfaces, NEW n \in Nat
  PROVE  \E f : Steps(f, interfaces, n)
<1> DEFINE T == {k \in Nat : ~\E f : Steps(f, interfaces, k)}
<1> SUFFICES ASSUME T # {} PROVE FALSE
  OBVIOUS
<1>1. PICK m \in T : \A k \in T : m <= k
  <2>1. T \subseteq Nat
    OBVIOUS
  <2> HIDE DEF T
  <2> QED BY <2>1, LeastNatural
<1>2. m \in Nat /\ ~\E f : Steps(f, interfaces, m)
  OBVIOUS
<1>3. CASE m = 0
  <2> DEFINE f == [k \in 0..m |-> {}]
  <2>1. Steps(f, interfaces, m)
    BY <1>3 DEF Steps
  <2> QED BY <1>2, <2>1
<1>4. CASE m # 0
  <2>1. m - 1 \in Nat /\ m - 1 \notin T
    BY <1>1, <1>2, <1>4
  <2>2. PICK f : Steps(f, interfaces, m - 1)
    BY <2>1
  <2> DEFINE e(k) == IF k = m THEN Probed(f[m - 1], interfaces[m]) ELSE f[k]
             g == [k \in 0..m |-> e(k)]
             h == [k \in 0..m |-> IF k = 0 THEN {} ELSE Probed(g[k - 1], interfaces[k])]
  <2>3. ASSUME NEW k \in 0..m
        PROVE  e(k) = IF k = 0 THEN {} ELSE Probed(g[k - 1], interfaces[k])
    <3>1. CASE k = 0
      <4>1. e(k) = f[0] /\ 0 \in 0..m - 1
        BY <1>2, <1>4, <3>1
      <4>2. f[0] = {}
        BY <2>2, <4>1 DEF Steps
      <4> QED BY <3>1, <4>1, <4>2
    <3>2. CASE k # 0
      <4>1. k - 1 \in 0..m /\ k - 1 # m /\ k - 1 \in 0..m - 1
        BY <1>2, <3>2
      <4>2. g[k - 1] = f[k - 1]
        BY <4>1
      <4>3. CASE k = m
        BY <3>2, <4>2, <4>3
      <4>4. CASE k # m
        <5>1. k \in 0..m - 1
          BY <1>2, <4>4
        <5>2. f[k] = Probed(f[k - 1], interfaces[k])
          BY <2>2, <3>2, <5>1 DEF Steps
        <5> QED BY <3>2, <4>2, <4>4, <5>2
      <4> QED BY <4>3, <4>4
    <3> QED BY <3>1, <3>2
  <2>4. g = h
    <3> HIDE DEF e
    <3>1. \A k \in 0..m : g[k] = e(k)
      OBVIOUS
    <3>2. \A k \in 0..m : h[k] = IF k = 0 THEN {} ELSE Probed(g[k - 1], interfaces[k])
      OBVIOUS
    <3>3. \A k \in 0..m : g[k] = h[k]
      BY <2>3, <3>1, <3>2
    <3> QED BY <3>3
  <2>5. Steps(g, interfaces, m)
    BY <2>4 DEF Steps
  <2> QED BY <1>2, <2>5
<1> QED BY <1>3, <1>4

(* Interface by interface: what each asked for is there, or there is no room.*)
Served(targets, interfaces, k) ==
  \A j \in 1..k : interfaces[j].ip \in Lan => ProbeSubnet(interfaces[j]) \subseteq targets \/ Full(targets)

LEMMA StepsServe ==
  ASSUME NEW interfaces \in Seq(Interface), NEW f, Steps(f, interfaces, Len(interfaces)),
         NEW n \in 0..Len(interfaces)
  PROVE  Fits(f[n]) /\ Served(f[n], interfaces, n)
<1> DEFINE Good(k) == Fits(f[k]) /\ Served(f[k], interfaces, k)
           T == {k \in 0..Len(interfaces) : ~Good(k)}
<1> SUFFICES ASSUME T # {} PROVE FALSE
  BY DEF T
<1>0. Len(interfaces) \in Nat
  OBVIOUS
<1>1. PICK m \in T : \A k \in T : m <= k
  <2>1. T \subseteq Nat
    OBVIOUS
  <2> HIDE DEF T
  <2> QED BY <2>1, LeastNatural
<1>2. m \in 0..Len(interfaces) /\ ~Good(m)
  OBVIOUS
<1>3. CASE m = 0
  <2>1. f[0] = {}
    BY <1>2, <1>3 DEF Steps
  <2>2. Fits({})
    BY NumbersAssumption, FS_EmptySet DEF Fits
  <2> QED BY <1>2, <1>3, <2>1, <2>2 DEF Served
<1>4. CASE m # 0
  <2>1. m - 1 \in 0..Len(interfaces) /\ m - 1 \notin T
    BY <1>0, <1>1, <1>2, <1>4
  <2>2. Good(m - 1)
    BY <2>1
  <2>3. f[m] = Probed(f[m - 1], interfaces[m])
    BY <1>2, <1>4 DEF Steps
  <2>4. m \in 1..Len(interfaces) /\ interfaces[m] \in Interface
    BY <1>0, <1>2, <1>4
  <2>5. /\ Fits(f[m]) /\ f[m - 1] \subseteq f[m]
        /\ Full(f[m - 1]) => Full(f[m])
        /\ interfaces[m].ip \in Lan => ProbeSubnet(interfaces[m]) \subseteq f[m] \/ Full(f[m])
    BY <2>2, <2>3, <2>4, ProbedStep
  <2>6. \A j \in 1..m : j \in 1..m - 1 \/ j = m
    BY <1>0, <1>2
  <2>7. Served(f[m], interfaces, m)
    <3> SUFFICES ASSUME NEW j \in 1..m, interfaces[j].ip \in Lan
                 PROVE  ProbeSubnet(interfaces[j]) \subseteq f[m] \/ Full(f[m])
      BY DEF Served
    <3>1. CASE j = m
      BY <2>5, <3>1
    <3>2. CASE j \in 1..m - 1
      <4>1. ProbeSubnet(interfaces[j]) \subseteq f[m - 1] \/ Full(f[m - 1])
        BY <2>2, <3>2 DEF Served
      <4> QED BY <2>5, <4>1
    <3> QED BY <2>6, <3>1, <3>2
  <2>8. Good(m)
    BY <2>5, <2>7
  <2> QED BY <1>2, <2>8
<1> QED BY <1>3, <1>4

(* However many interfaces there are and however large their subnets, no    *)
(* more than MaxProbes addresses are probed, and every host of a scanned    *)
(* subnet is among them unless there is no room left.                       *)
LEMMA ProbesServe ==
  ASSUME NEW interfaces \in Offices
  PROVE  /\ Fits(ProbeTargets[interfaces])
         /\ Served(ProbeTargets[interfaces], interfaces, Len(interfaces))
<1> DEFINE upto == CHOOSE f : Steps(f, interfaces, Len(interfaces))
<1>1. interfaces \in Seq(Interface)
  BY InterfacesAssumption DEF Interface
<1>2. Len(interfaces) \in Nat
  BY <1>1
<1>3. Steps(upto, interfaces, Len(interfaces))
  BY <1>2, StepsExist
<1>4. ProbeTargets[interfaces] = upto[Len(interfaces)]
  BY DEF ProbeTargets, Steps
<1> HIDE DEF upto
<1>5. Len(interfaces) \in 0..Len(interfaces)
  BY <1>2
<1> QED BY <1>1, <1>3, <1>4, <1>5, StepsServe

(***************************************************************************)
(* Every pass.                                                             *)
(***************************************************************************)
PassInv == TypeOK /\ Knows(peers, heard)

LEMMA DeadlineList ==
  ASSUME TypeOK, Deadline
  PROVE  Lists(Entries(peers), result') /\ result' \in Seq(Packet)
<1>1. peers \in Seq(Packet) /\ Distinct(peers)
  BY DEF TypeOK, Distinct
<1>2. result' = LET found == StableUnique(peers)
                IN SubSeq(found, 1, IF Len(found) < Limit THEN Len(found) ELSE Limit)
  BY DEF Deadline
<1> QED BY <1>1, <1>2, CutIsInOrder DEF Lists

LEMMA ArrivingPackets ==
  ASSUME TypeOK, NEW r \in Receivers, pid[r] # None, r \notin Foreign, NEW packet \in Arriving(r)
  PROVE  packet \in Packet
<1>1. PICK addresses : /\ addresses \in {HeardFrom[office][r], ProbedAt[office][r], {}}
                       /\ packet \in Packets(r, addresses)
  BY DEF Arriving
<1>2. PICK a \in addresses : packet = [from |-> r, pid |-> pid[r], address |-> a]
  BY <1>1 DEF Packets
<1>3. \E i \in Homes[r] : a = i.ip
  <2>1. office \in Offices
    BY DEF TypeOK
  <2>2. ASSUME a \in HeardFrom[office][r] PROVE \E i \in Homes[r] : a = i.ip
    BY <2>1, <2>2 DEF HeardFrom
  <2>3. ASSUME a \in ProbedAt[office][r] PROVE \E i \in Homes[r] : a = i.ip
    BY <2>1, <2>3 DEF ProbedAt
  <2> QED BY <1>1, <1>2, <2>2, <2>3
<1>4. a \in Nat
  BY <1>3, InterfacesAssumption
<1>5. pid[r] \in Pids
  BY DEF TypeOK
<1> QED BY <1>2, <1>4, <1>5 DEF Packet

(* An announcement that arrives: known instances stay known, once.          *)
LEMMA TakenKnows ==
  ASSUME Knows(peers, heard), NEW packet \in Packet
  PROVE  Knows(Taken(packet), heard \cup {packet})
<1>1. /\ peers \in Seq(Packet) /\ Distinct(peers) /\ heard \subseteq Packet
      /\ ToSet(peers) \subseteq heard
      /\ \A p \in heard : \E m \in ToSet(peers) : SameInstance(m, p)
  BY DEF Knows
<1>2. CASE \E i \in DOMAIN peers : SameInstance(peers[i], packet)
  <2>1. Taken(packet) = peers
    BY <1>2 DEF Taken
  <2>2. \E m \in ToSet(peers) : SameInstance(m, packet)
    BY <1>2 DEF ToSet
  <2> QED BY <1>1, <2>1, <2>2 DEF Knows
<1>3. CASE ~\E i \in DOMAIN peers : SameInstance(peers[i], packet)
  <2> DEFINE known == Append(peers, packet)
  <2>1. Taken(packet) = known
    BY <1>3 DEF Taken
  <2>2. /\ known \in Seq(Packet) /\ Len(known) = Len(peers) + 1
        /\ DOMAIN known = 1..Len(peers) + 1 /\ DOMAIN peers = 1..Len(peers)
        /\ \A i \in DOMAIN peers : known[i] = peers[i]
        /\ known[Len(peers) + 1] = packet /\ Len(peers) \in Nat
    BY <1>1
  <2> HIDE DEF known
  <2>3. ASSUME NEW i \in DOMAIN known, NEW j \in DOMAIN known, SameInstance(known[i], known[j])
        PROVE  i = j
    <3>1. (i \in DOMAIN peers \/ i = Len(peers) + 1) /\ (j \in DOMAIN peers \/ j = Len(peers) + 1)
      BY <2>2
    <3>2. \A k \in DOMAIN peers : ~SameInstance(packet, peers[k])
      BY <1>3 DEF SameInstance
    <3> QED BY <1>1, <1>3, <2>2, <2>3, <3>1, <3>2 DEF Distinct
  <2>4. ToSet(known) = ToSet(peers) \cup {packet}
    <3>1. Len(peers) + 1 \in DOMAIN known /\ DOMAIN peers \subseteq DOMAIN known
      BY <2>2
    <3>2. \A i \in DOMAIN known : i \in DOMAIN peers \/ i = Len(peers) + 1
      BY <2>2
    <3> QED BY <2>2, <3>1, <3>2 DEF ToSet
  <2>5. SameInstance(packet, packet)
    BY DEF SameInstance
  <2> QED BY <1>1, <2>1, <2>2, <2>3, <2>4, <2>5 DEF Knows, Distinct
<1> QED BY <1>2, <1>3

LEMMA PassStep == ASSUME PassInv, [Next]_vars PROVE PassInv'
<1> USE NumbersAssumption DEF PassInv, TypeOK
<1>1. ASSUME NEW r \in Receivers, Start(r) PROVE PassInv'
  <2>1. PICK p \in Pids, free \in BOOLEAN :
          pid' = [pid EXCEPT ![r] = p] /\ answers' = [answers EXCEPT ![r] = free]
    BY <1>1 DEF Start
  <2>2. pid' \in [Receivers -> Pids \cup {None}]
    BY <2>1
  <2>3. answers' \in [Receivers -> BOOLEAN]
    BY <2>1
  <2>4. restarts' \in 0..MaxRestarts
    BY <1>1 DEF Start
  <2> QED BY <1>1, <2>2, <2>3, <2>4 DEF Start
<1>2. ASSUME NEW r \in Receivers, Ends(r) PROVE PassInv'
  <2>1. restarts' \in 0..MaxRestarts
    BY <1>2 DEF Ends
  <2>2. answers' \in [Receivers -> BOOLEAN] /\ pid' \in [Receivers -> Pids \cup {None}]
    BY <1>2 DEF Ends
  <2> QED BY <1>2, <2>1, <2>2 DEF Ends
<1>3. ASSUME NEW r \in Receivers, Hears(r) PROVE PassInv'
  <2>1. PICK packet \in Arriving(r) : peers' = Taken(packet) /\ heard' = heard \cup {packet}
    BY <1>3 DEF Hears
  <2>2. packet \in Packet
    BY <1>3, <2>1, ArrivingPackets DEF Hears
  <2>3. Knows(peers', heard')
    BY <2>1, <2>2, TakenKnows
  <2>4. /\ peers' \in Seq(Packet) /\ heard' \subseteq Packet
        /\ \A i, j \in DOMAIN peers' : SameInstance(peers'[i], peers'[j]) => i = j
    BY <2>3 DEF Knows, Distinct
  <2> QED BY <1>3, <2>3, <2>4 DEF Hears
<1>0. Knows(<< >>, {}) /\ << >> \in Seq(Packet) /\ DOMAIN << >> = {}
  BY DEF Knows, Distinct, ToSet
<1>4. CASE BeginPass
  BY <1>0, <1>4 DEF BeginPass
<1>5. CASE Deadline
  <2>1. result' \in Seq(Packet)
    BY <1>5, DeadlineList
  <2>2. passing' \in BOOLEAN
    BY <1>5 DEF Deadline
  <2>3. peers' \in Seq(Packet) /\ DOMAIN peers' = {} /\ Knows(peers', heard')
    BY <1>0, <1>5 DEF Deadline
  <2> QED BY <1>5, <2>1, <2>2, <2>3 DEF Deadline
<1>6. CASE PassFails
  <2>1. errors' \in 0..MaxErrors
    BY <1>6 DEF PassFails
  <2>2. passing' \in BOOLEAN
    BY <1>6 DEF PassFails
  <2>3. peers' \in Seq(Packet) /\ DOMAIN peers' = {} /\ Knows(peers', heard')
    BY <1>0, <1>6 DEF PassFails
  <2> QED BY <1>6, <2>1, <2>2, <2>3 DEF PassFails
<1>7. CASE UNCHANGED vars
  BY <1>7 DEF vars
<1> QED BY <1>1, <1>2, <1>3, <1>4, <1>5, <1>6, <1>7 DEF Next

(* A pass knows every instance it has heard, once, and nobody else.         *)
THEOREM PassInvariant == Spec => []PassInv
<1>1. Init => PassInv
  <2> SUFFICES ASSUME Init PROVE PassInv
    OBVIOUS
  <2>1. listening \in BOOLEAN /\ passing \in BOOLEAN
    BY DEF Init
  <2>2. peers \in Seq(Packet) /\ result \in Seq(Packet) /\ DOMAIN peers = {}
    BY DEF Init
  <2>3. restarts \in 0..MaxRestarts /\ errors \in 0..MaxErrors
    BY NumbersAssumption DEF Init
  <2>4. heard \subseteq Packet /\ Knows(peers, heard)
    BY <2>2 DEF Init, Knows, Distinct, ToSet
  <2> QED BY <2>1, <2>2, <2>3, <2>4 DEF Init, TypeOK, PassInv
<1>2. PassInv /\ [Next]_vars => PassInv'
  BY PassStep
<1> QED BY <1>1, <1>2, PTL DEF Spec

(* Every variable keeps its type, and a pass that is under way has heard no *)
(* instance twice and nobody of another role or PIN.                        *)
THEOREM DiscoveryTypeCorrect == Spec => []TypeOK
<1>1. PassInv => TypeOK
  BY DEF PassInv
<1> QED BY <1>1, PassInvariant, PTL

(* Whatever arrives, in whatever order, how often and from how many of a    *)
(* receiver's addresses, the list the streams are built from is canonical   *)
(* (receive_announcements, stable_unique_receivers).                        *)
THEOREM ResultAlwaysCanonical == Spec => ResultIsCanonical
<1>1. PassInv /\ Deadline => Canonical(heard, result')
  BY DeadlineList, ListIsCanonical DEF PassInv
<1>2. PassInv /\ [Next]_vars => [Deadline => Canonical(heard, result')]_vars
  BY <1>1
<1> QED BY <1>2, PassInvariant, PTL DEF Spec, ResultIsCanonical

(* A receiver that can answer is probed, and the sender probes no more than *)
(* MaxProbes addresses (unicast_probe_addresses).                           *)
ReachableIsProbed ==
  /\ Cardinality(ProbeTargets[office]) <= MaxProbes
  /\ \A r \in Receivers : CanAnswer(r) => ProbedAt[office][r] # {}

(* Whatever the networks, this is so in every state.                        *)
THEOREM ReachableIsAlwaysProbed == Spec => []ReachableIsProbed
<1>1. TypeOK => ReachableIsProbed
  <2> SUFFICES ASSUME TypeOK PROVE ReachableIsProbed
    OBVIOUS
  <2>1. office \in Offices /\ office \in Seq(Interface)
    BY InterfacesAssumption DEF TypeOK, Interface
  <2>2. Fits(ProbeTargets[office]) /\ Served(ProbeTargets[office], office, Len(office))
    BY <2>1, ProbesServe
  <2>3. ASSUME NEW r \in Receivers, CanAnswer(r)
        PROVE  ProbedAt[office][r] # {}
    <3>1. PICK h \in Homes[r], o \in ToSet(office) : InScannedSubnet(h, o)
      BY <2>1, <2>3 DEF CanAnswer, HasScannedHome
    <3>2. PICK j \in 1..Len(office) : office[j] = o
      BY <2>1 DEF ToSet
    <3>3. o \in Interface /\ h.ip \in Nat
      <4>1. \A i \in 1..Len(office) : office[i] \in Interface
        BY <2>1
      <4>2. h.ip \in Nat
        BY InterfacesAssumption
      <4> QED BY <3>2, <4>1, <4>2
    <3>4. o.ip \in Lan /\ SameLink(h, o)
      BY <3>1 DEF InScannedSubnet
    <3>5. h.ip \in ProbeSubnet(o)
      BY <3>1, <3>3, SubnetIsHosts DEF InScannedSubnet
    <3>6. ~Full(ProbeTargets[office])
      <4>1. Cardinality(ProbeTargets[office]) < MaxProbes
        BY <2>3 DEF CanAnswer
      <4>2. Cardinality(ProbeTargets[office]) \in Nat /\ MaxProbes \in Nat
        BY <2>2, NumbersAssumption, FS_CardinalityType DEF Fits
      <4> QED BY <4>1, <4>2 DEF Full
    <3>7. h.ip \in ProbeTargets[office]
      BY <2>2, <3>2, <3>4, <3>5, <3>6 DEF Served
    <3>8. h.ip \in ProbedAt[office][r]
      BY <2>1, <3>1, <3>4, <3>7 DEF ProbedAt
    <3> QED BY <3>8
  <2> QED BY <2>2, <2>3 DEF ReachableIsProbed, Fits
<1> QED BY <1>1, DiscoveryTypeCorrect, PTL
=============================================================================
