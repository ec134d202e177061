----------------------------- MODULE Discovery -----------------------------
(***************************************************************************)
(* Finding the receivers of a PIN on the network (crates/sm-core/src/      *)
(* discovery.rs, the Announcer and discover_sender_args of apps/desktop/   *)
(* src/lan.rs): each receiver broadcasts itself once a second and answers  *)
(* probes; a sender listens for five seconds while it probes its subnets,  *)
(* and turns what it heard into the list its streams are built from.       *)
(*                                                                         *)
(* An address is a number below 2^32, an interface a record: its address,  *)
(* the host bits of its mask, and whether it carries packets at all.       *)
(* Packets may be reordered, or lost: a packet nobody has received when the *)
(* pass ends is gone.  A receiver may restart, as another instance.        *)
(***************************************************************************)
EXTENDS Naturals, Sequences, FiniteSets, SequencesExt

CONSTANTS
  Receivers,    \* the machines that announce themselves
  Homes,        \* the interfaces of each of them
  Foreign,      \* those of another role or PIN
  Offices,      \* the interfaces the sender may have, a sequence for each case
  Multicast,    \* the addresses of classes D and E
  Skipped,      \* loopback, and the addresses that begin with 169
  Lan,          \* the private addresses
  ScanBits,     \* host bits of the largest subnet that is probed: 8
  MaxProbes,    \* most addresses probed: 2048
  Pids,         \* process ids
  MaxRestarts,  \* bound: processes that start or end
  MaxErrors,    \* bound: passes a socket error ends
  Limit,        \* receivers a sender takes
  None

ASSUME ReceiversAssumption == Receivers \subseteq Nat /\ Foreign \subseteq Receivers
ASSUME InterfacesAssumption ==
  LET Interfaces == [ip: Nat, bits: 0..32, link: STRING, up: BOOLEAN]
  IN /\ \A r \in Receivers : Homes[r] \subseteq Interfaces
     /\ Offices \subseteq Seq(Interfaces)
ASSUME NumbersAssumption == /\ Pids \subseteq Nat /\ ScanBits \in Nat
                            /\ MaxProbes \in Nat /\ Limit \in Nat
                            /\ MaxRestarts \in Nat /\ MaxErrors \in Nat
\* The size of a subnet is a number, which the provers do not know of a power.
ASSUME PowersAssumption == \A b \in 0..ScanBits : 2^b \in Nat \ {0}

VARIABLES
  office,     \* the sender's interfaces
  listening,  \* its discovery port was free when this pass began
  pid,        \* the process on each machine, None: not running
  answers,    \* it runs, and its probe port was free when it started
  passing,    \* a pass is under way
  peers,      \* the receivers the pass knows of, in order of arrival
  heard,      \* history: every announcement of the role and PIN that arrived
  result,     \* the receivers it gave to the supervisor, until the next one
  restarts, errors

vars == << office, listening, pid, answers, passing, peers, heard, result,
           restarts, errors >>

(***************************************************************************)
(* Addresses.                                                              *)
(***************************************************************************)
Network(ip, bits) == (ip \div 2^bits) * 2^bits
LastOf(ip, bits) == Network(ip, bits) + 2^bits - 1

\* Host bits of the subnet that is probed: its last ScanBits when it is larger.
ScannedBits(i) == IF i.bits > ScanBits THEN ScanBits ELSE i.bits

\* subnet_broadcast: None for an address no broadcast follows from.
SubnetBroadcast(i) ==
  IF \/ i.ip \in Multicast \/ i.bits < 2
     \/ LastOf(i.ip, i.bits) \in Multicast
  THEN None ELSE LastOf(i.ip, i.bits)

\* broadcast_addresses; where there is none, 255.255.255.255 goes out instead.
Directed(i) == IF i.ip \in Skipped THEN None ELSE SubnetBroadcast(i)
BroadcastAddresses(interfaces) == {Directed(i) : i \in interfaces} \ {None}

\* Mutant: the last host is taken for the broadcast address.
ProbesAllButLast(i) ==
  LET first == Network(i.ip, ScannedBits(i))
      last == LastOf(i.ip, ScannedBits(i))
  IN IF last <= first + 1 THEN {} ELSE (first + 1 .. last - 2) \ {i.ip}

\* append_probe_subnet: the hosts of the subnet.
ProbeSubnet(i) ==
  LET first == Network(i.ip, ScannedBits(i))
      last == LastOf(i.ip, ScannedBits(i))
  IN IF last <= first + 1 THEN {} ELSE (first + 1 .. last - 1) \ {i.ip}

\* unicast_probe_addresses: the subnets of the interfaces in order, until there
\* are enough; the first hosts of the last one fill the room that is left.
Probed(targets, i) ==
  LET new == ProbeSubnet(i) \ targets
      room == MaxProbes - Cardinality(targets)
  IN IF i.ip \notin Lan THEN targets
     ELSE targets \cup {h \in new : Cardinality(new \cap (0..h)) <= room}

ProbeTargets ==
  [interfaces \in Offices |->
     LET upto[k \in 0..Len(interfaces)] ==
           IF k = 0 THEN {} ELSE Probed(upto[k - 1], interfaces[k])
     IN upto[Len(interfaces)]]

(***************************************************************************)
(* What reaches whom.  An interface that is not up refuses every packet;   *)
(* broadcast goes on with the others.                                      *)
(***************************************************************************)
SameLink(i, j) == i.up /\ j.up /\ i.link = j.link

\* A machine with these interfaces broadcasts, and j takes the packet that leaves
\* by i: it is for the subnet of both, or for everybody on the link.
Reaches(interfaces, i, j) ==
  /\ SameLink(i, j)
  /\ \/ BroadcastAddresses(interfaces) = {}
     \/ Directed(i) # None /\ Directed(i) = SubnetBroadcast(j)

\* Addresses under which a receiver's broadcasts may arrive.
HeardFrom ==
  [interfaces \in Offices |-> [r \in Receivers |->
     {i.ip : i \in {h \in Homes[r] : \E o \in ToSet(interfaces) : Reaches(Homes[r], h, o)}}]]

\* Addresses under which it may answer the sender's probes.
ProbedAt ==
  [interfaces \in Offices |-> [r \in Receivers |->
     {i.ip : i \in {h \in Homes[r] :
        \E o \in ToSet(interfaces) :
          \/ SameLink(h, o) /\ h.ip \in ProbeTargets[interfaces]
          \/ Reaches(ToSet(interfaces), o, h)}}]]

Packets(r, addresses) == {[from |-> r, pid |-> pid[r], address |-> a] : a \in addresses}

(***************************************************************************)
(* The machines.                                                           *)
(***************************************************************************)
\* Announcer::start: a taken probe port is only logged.
Start(r) ==
  /\ pid[r] = None /\ restarts < MaxRestarts
  /\ \E p \in Pids, free \in BOOLEAN :
       /\ pid' = [pid EXCEPT ![r] = p]
       /\ answers' = [answers EXCEPT ![r] = free]
  /\ restarts' = restarts + 1
  /\ UNCHANGED << office, listening, passing, peers, heard, result, errors >>

Ends(r) ==
  /\ pid[r] # None /\ restarts < MaxRestarts
  /\ pid' = [pid EXCEPT ![r] = None]
  /\ answers' = [answers EXCEPT ![r] = FALSE]
  /\ restarts' = restarts + 1
  /\ UNCHANGED << office, listening, passing, peers, heard, result, errors >>

(***************************************************************************)
(* The sender: one pass of discover_with_pin.                              *)
(***************************************************************************)
BeginPass ==
  /\ ~passing
  /\ passing' = TRUE /\ listening' \in BOOLEAN
  /\ peers' = << >> /\ heard' = {} /\ result' = << >>
  /\ UNCHANGED << office, pid, answers, restarts, errors >>

\* What may arrive of receiver r in a second of the announcer's loop and of the
\* pass: r broadcasts itself and answers the probe it got.  What the pass does not
\* take before its end is lost.
Arriving(r) ==
  Packets(r, IF listening THEN HeardFrom[office][r] ELSE {})
  \cup IF answers[r] /\ r \notin Foreign THEN Packets(r, ProbedAt[office][r]) ELSE {}

SameInstance(p, q) == p.from = q.from /\ p.pid = q.pid

\* Mutant: only the same announcement from the same address is a duplicate.
TakenFromEachAddress(packet) ==
  IF packet \in ToSet(peers) THEN peers ELSE Append(peers, packet)

\* The first address an instance is heard from counts.
Taken(packet) ==
  IF \E i \in DOMAIN peers : SameInstance(peers[i], packet) THEN peers
  ELSE Append(peers, packet)

\* receive_announcements.
Hears(r) ==
  /\ passing /\ pid[r] # None /\ r \notin Foreign
  /\ \E packet \in Arriving(r) : peers' = Taken(packet) /\ heard' = heard \cup {packet}
  /\ UNCHANGED << office, listening, pid, answers, passing, result, restarts, errors >>

\* stable_unique_receivers.  Instances are ordered by name, then process id;
\* receivers of one network use one port.
Before(p, q) ==
  \/ p.from < q.from
  \/ p.from = q.from /\ p.pid < q.pid

\* S as a sequence: at k is the element that k - 1 others precede.
InOrder(S, Precedes(_, _)) ==
  [k \in 1..Cardinality(S) |->
     CHOOSE x \in S : Cardinality({y \in S : Precedes(y, x)}) = k - 1]

\* sort_by, which keeps the order of what it cannot tell apart.
Sorted(list) ==
  LET precedes(i, j) == Before(list[i], list[j]) \/ (~Before(list[j], list[i]) /\ i < j)
      order == InOrder(DOMAIN list, precedes)
  IN [k \in DOMAIN list |-> list[order[k]]]

\* retain: the first of those with one address.
Unique(list) ==
  LET first == {i \in DOMAIN list : \A j \in 1..i - 1 : list[j].address # list[i].address}
      kept == InOrder(first, <)
  IN [k \in DOMAIN kept |-> list[kept[k]]]

StableUnique(list) == Unique(Sorted(list))

Deadline ==
  LET found == StableUnique(peers)
  IN /\ passing
     /\ passing' = FALSE
     /\ result' = SubSeq(found, 1, IF Len(found) < Limit THEN Len(found) ELSE Limit)
     /\ peers' = << >> /\ heard' = {}
     /\ UNCHANGED << office, listening, pid, answers, restarts, errors >>

\* A socket error that is no reset ends the pass without a result.
PassFails ==
  /\ passing /\ errors < MaxErrors
  /\ passing' = FALSE /\ errors' = errors + 1
  /\ peers' = << >> /\ heard' = {}
  /\ UNCHANGED << office, listening, pid, answers, result, restarts >>

Init ==
  /\ office \in Offices
  /\ pid \in [Receivers -> Pids \cup {None}]
  /\ answers \in [Receivers -> BOOLEAN]
  /\ \A r \in Receivers : answers[r] => pid[r] # None
  /\ listening = FALSE /\ passing = FALSE
  /\ peers = << >> /\ heard = {} /\ result = << >>
  /\ restarts = 0 /\ errors = 0

Next ==
  \/ \E r \in Receivers : Start(r) \/ Ends(r) \/ Hears(r)
  \/ BeginPass \/ Deadline \/ PassFails

\* The sender's loop is never blocked: a pass begins, and ends at its deadline or
\* with an error, of which there are few.  An announcer speaks five times in a pass,
\* so the network, which may lose any of its packets, does not lose all of them
\* in every pass.
Fairness ==
  /\ WF_vars(BeginPass) /\ WF_passing(passing /\ passing' = FALSE)
  /\ \A r \in Receivers \ Foreign : SF_vars(Hears(r))

Spec == Init /\ [][Next]_vars /\ Fairness

\* What the variables hold: a pass hears an instance once, and nobody Foreign.
Packet == [from: Receivers \ Foreign, pid: Pids, address: Nat]

TypeOK ==
  /\ office \in Offices /\ listening \in BOOLEAN /\ passing \in BOOLEAN
  /\ pid \in [Receivers -> Pids \cup {None}] /\ answers \in [Receivers -> BOOLEAN]
  /\ peers \in Seq(Packet) /\ heard \subseteq Packet /\ result \in Seq(Packet)
  /\ \A i, j \in DOMAIN peers : SameInstance(peers[i], peers[j]) => i = j
  /\ restarts \in 0..MaxRestarts /\ errors \in 0..MaxErrors

(***************************************************************************)
(* Properties.                                                             *)
(***************************************************************************)
\* The list the streams are built from has one stream for each receiver and each
\* endpoint, ordered by instance, whatever arrived twice, late or from several
\* addresses, and nobody of another role or PIN. An instance that was heard is left
\* out only for one before it at an address it was heard from too, or because the
\* list is full with instances before it. So the order of arrival decides nothing
\* but under which of its addresses a receiver counts (finding 12): of receivers
\* heard from one address each there is one such list alone (SameHeardSameList).
Canonical(all, list) ==
  /\ ToSet(list) \subseteq all /\ Len(list) <= Limit
  /\ \A i \in DOMAIN list : list[i].from \notin Foreign
  /\ \A i, j \in DOMAIN list :
       i < j => Before(list[i], list[j]) /\ list[i].address # list[j].address
  /\ \A p \in all :
       \/ \E q \in ToSet(list), m \in all :
            SameInstance(m, p) /\ m.address = q.address /\ ~Before(p, q)
       \/ Len(list) = Limit /\ \A i \in DOMAIN list : Before(list[i], p)

ResultIsCanonical == [][Deadline => Canonical(heard, result')]_vars

\* The receivers the reachability of the next property is about: they stay up,
\* share a working link with the sender, packets between the two take no other
\* way, and one of the two ways to be found works: the sender's listening port is
\* free and a directed broadcast leaves for its subnet, or the receiver's probe
\* port is free and it is a host of a subnet the sender scans to the end.
OnlyWay(interfaces, i, address) ==
  {j \in interfaces : Network(address, j.bits) = Network(j.ip, j.bits)} = {i}

InScannedSubnet(h, o) ==
  LET bits == ScannedBits(o)
  IN /\ o.ip \in Lan /\ SameLink(h, o)
     /\ Network(h.ip, bits) = Network(o.ip, bits) /\ h.ip # o.ip
     /\ h.ip \notin {Network(o.ip, bits), LastOf(o.ip, bits)}

HasScannedHome ==
  [interfaces \in Offices |->
     {r \in Receivers : \E h \in Homes[r], o \in ToSet(interfaces) :
        /\ InScannedSubnet(h, o)
        /\ OnlyWay(ToSet(interfaces), o, h.ip) /\ OnlyWay(Homes[r], h, o.ip)}]

CanAnswer(r) ==
  /\ pid[r] # None /\ answers[r]
  /\ r \in HasScannedHome[office] /\ Cardinality(ProbeTargets[office]) < MaxProbes

SharesSubnet ==
  [interfaces \in Offices |->
     {r \in Receivers : \E h \in Homes[r], o \in ToSet(interfaces) :
        /\ SameLink(h, o) /\ Directed(h) # None /\ Directed(h) = SubnetBroadcast(o)
        /\ OnlyWay(Homes[r], h, Directed(h))}]

CanBroadcast(r) ==
  pid[r] # None /\ listening /\ r \in SharesSubnet[office]

\* A receiver that stays up and reachable is found again and again, whichever
\* ports are taken, whatever its other interfaces refuse and whichever packets
\* are lost, as long as there is room for every receiver.
PeerIsFound ==
  \A r \in Receivers \ Foreign :
    <>[](CanAnswer(r) \/ CanBroadcast(r))
      => []<>(\E i \in DOMAIN result : result[i].from = r)
=============================================================================
