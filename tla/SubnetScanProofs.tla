-------------------------- MODULE SubnetScanProofs --------------------------
(***************************************************************************)
(* For every list of hosts and every bound, the scan never has more probes *)
(* under way than the bound, loses no slot while a coroutine waits, and    *)
(* asks no host twice.                                                     *)
(***************************************************************************)
EXTENDS SubnetScan, FiniteSetTheorems, WellFoundedInduction, TLAPS

\* The coroutines exist for the hosts that were kept, in their order.
TasksOK ==
    /\ pc \in {"start", "collect"} => probe = <<>> /\ waiters = <<>> /\ free = 0
    /\ pc \in {"collect", "gather"} => concurrency >= 1
    /\ probe # <<>> => Len(probe) = Len(ordered_hosts) /\ concurrency >= 1
    /\ Len(root) = Len(probe)
    /\ pc # "done" => outcome = Running
    /\ pc = "gather" => probe # <<>>

\* Every slot is free or held by one probe.
SlotsOK == probe # <<>> => free + Cardinality(InFlight) = concurrency

\* The queue holds each waiting coroutine once, and nobody waits for a slot
\* that is free.
QueueOK ==
    /\ \A k \in 1..Len(waiters) : waiters[k] \in Waiting
    /\ \A k, l \in 1..Len(waiters) : waiters[k] = waiters[l] => k = l
    /\ \A i \in Waiting : \E k \in 1..Len(waiters) : waiters[k] = i
    /\ free > 0 => waiters = <<>>

IInv == TypeOK /\ TasksOK /\ SlotsOK /\ QueueOK /\ AskedOnce

-----------------------------------------------------------------------------

LEMMA ConcurrencyIsInt == TypeOK => concurrency \in Int
  BY ScanAssumption DEF TypeOK

LEMMA HostsAreListed == TypeOK => hosts \in Seq(Hosts \union {Blank})
  BY ScanAssumption DEF TypeOK

LEMMA InFlightFinite ==
    ASSUME TypeOK
    PROVE  IsFiniteSet(InFlight) /\ Cardinality(InFlight) \in Nat
  <1>1. Tasks = 1..Len(probe) /\ Len(probe) \in Nat
    BY DEF TypeOK, Tasks
  <1>2. IsFiniteSet(Tasks)
    BY <1>1, FS_Interval
  <1>3. InFlight \in SUBSET Tasks
    BY DEF InFlight
  <1>4. QED
    BY <1>2, <1>3, FS_Subset, FS_CardinalityType

\* The invariant implies what the runs check.
LEMMA BoundHolds == IInv => BoundedProbes /\ NoSlotIdle
  <1>. SUFFICES ASSUME IInv PROVE BoundedProbes /\ NoSlotIdle
    OBVIOUS
  <1>1. Cardinality(InFlight) \in Nat /\ concurrency \in Int /\ free \in Nat
    BY InFlightFinite, ConcurrencyIsInt DEF IInv, TypeOK
  <1>2. CASE probe = <<>>
    <2>1. InFlight = {} /\ Waiting = {}
      BY <1>2 DEF InFlight, Waiting, Tasks
    <2>2. Cardinality(InFlight) = 0
      BY <2>1, FS_EmptySet
    <2>3. QED
      BY <1>1, <2>1, <2>2 DEF BoundedProbes, NoSlotIdle
  <1>3. CASE probe # <<>>
    <2>1. free + Cardinality(InFlight) = concurrency /\ concurrency >= 1
      BY <1>3 DEF IInv, SlotsOK, TasksOK
    <2>2. Cardinality(InFlight) <= concurrency
      BY <1>1, <2>1
    <2>3. ASSUME Waiting # {} PROVE free = 0
      <3>1. PICK i \in Waiting : TRUE
        BY <2>3
      <3>2. PICK k \in 1..Len(waiters) : waiters[k] = i
        BY <3>1 DEF IInv, QueueOK
      <3>3. waiters # <<>>
        BY <3>2
      <3>4. QED
        BY <1>1, <3>3 DEF IInv, QueueOK
    <2>4. QED
      BY <1>1, <2>1, <2>2, <2>3 DEF BoundedProbes, NoSlotIdle
  <1>4. QED
    BY <1>2, <1>3

-----------------------------------------------------------------------------
(* Vendors *)

\* A set of positions that is not empty has a first one: among the intervals
\* that end in it one is minimal, since inclusion of finite sets is well-founded.
LEMMA FirstOne ==
    ASSUME NEW S \in SUBSET (Nat \ {0}), S # {}
    PROVE  \E i \in S : \A j \in S : i <= j
  <1>. DEFINE upTo == {1..i : i \in S}
              R == StrictSubsetOrdering(Nat)
              F == FiniteSubsetsOf(Nat)
  <1>1. upTo \subseteq F /\ upTo # {}
    <2>1. ASSUME NEW i \in S PROVE IsFiniteSet(1..i) /\ 1..i \in SUBSET Nat
      <3>1. i \in Int /\ 1 \in Int
        OBVIOUS
      <3>2. QED
        BY <3>1, FS_Interval
    <2>2. QED
      BY <2>1 DEF FiniteSubsetsOf
  <1>2. IsWellFoundedOn(R, F)
    BY FS_StrictSubsetOrderingWellFounded
  <1>3. \E x \in upTo : \A y \in upTo : ~(<<y, x>> \in R)
    <2>. HIDE DEF upTo, R, F
    <2>1. QED
      BY <1>1, <1>2, WFMin
  <1>4. PICK i \in S : \A j \in S : ~(<<1..j, 1..i>> \in R)
    BY <1>3
  <1>5. ASSUME NEW j \in S, j < i PROVE FALSE
    <2>1. 1..j \subseteq 1..i /\ i \in 1..i /\ i \notin 1..j
      BY <1>5
    <2>2. <<1..j, 1..i>> \in R
      BY <2>1 DEF StrictSubsetOrdering
    <2>3. QED
      BY <1>4, <2>2
  <1>6. QED
    BY <1>5

\* FirstTag gives the tag of one of the known words, and one when there is any.
LEMMA FirstTagIs ==
    ASSUME NEW W, NEW words \in Seq(W), NEW known, NEW tag,
           \A w \in known : tag[w] # "none"
    PROVE  LET at == {i \in DOMAIN words : words[i] \in known}
           IN  /\ at = {} => FirstTag(words, known, tag) = "none"
               /\ at # {} => /\ FirstTag(words, known, tag) # "none"
                             /\ \E i \in at : FirstTag(words, known, tag) = tag[words[i]]
  <1>. DEFINE at == {i \in DOMAIN words : words[i] \in known}
              first == CHOOSE i \in at : \A j \in at : i <= j
  <1>1. at \in SUBSET (Nat \ {0})
    OBVIOUS
  <1>2. ASSUME at # {} PROVE first \in at
    BY <1>1, <1>2, FirstOne
  <1>3. FirstTag(words, known, tag) = IF at = {} THEN "none" ELSE tag[words[first]]
    BY DEF FirstTag
  <1>4. QED
    BY <1>2, <1>3

\* classify_vendor agrees with the ranking its docstring gives.
LEMMA VendorIsTrue ==
    ASSUME NEW r \in Roots
    PROVE  Vendor(r) \in Contract!TrueVendors(r) /\ Vendor(r) \in Tags
  <1>. DEFINE oem == Contract!Named(Contract!OemWords(r), VendorOf)
              type == Contract!Named({r.type}, VendorOf)
              text == Contract!Named(r.text, TextVendorOf)
  <1>1. /\ r.oem \in Seq(STRING) /\ r.text \subseteq TextTokens
        /\ TextWords \in Seq(STRING) /\ TextTokens = DOMAIN TextVendorOf
        /\ \A w \in DOMAIN VendorOf : VendorOf[w] # "none"
        /\ \A w \in TextTokens : TextVendorOf[w] # "none"
    BY ScanAssumption DEF ServiceRoots
  <1>2. /\ oem = {} => FromOem(r) = "none"
        /\ oem # {} => FromOem(r) # "none" /\ FromOem(r) \in oem
    <2>. DEFINE at == {i \in DOMAIN r.oem : r.oem[i] \in DOMAIN VendorOf}
    <2>1. /\ at = {} => FromOem(r) = "none"
          /\ at # {} => FromOem(r) # "none" /\ \E i \in at : FromOem(r) = VendorOf[r.oem[i]]
      BY <1>1, FirstTagIs DEF FromOem
    <2>2. \A i \in at : VendorOf[r.oem[i]] \in oem
      BY DEF Contract!Named, Contract!OemWords
    <2>3. oem # {} => at # {}
      BY DEF Contract!Named, Contract!OemWords
    <2>4. QED
      BY <2>1, <2>2, <2>3
  <1>3. /\ type = {} => FromType(r) = "none"
        /\ type # {} => FromType(r) # "none" /\ FromType(r) \in type
    BY <1>1 DEF FromType, Contract!Named
  <1>4. /\ text = {} => FromText(r) = "none"
        /\ text # {} => FromText(r) # "none" /\ FromText(r) \in text
    <2>. DEFINE at == {i \in DOMAIN TextWords : TextWords[i] \in r.text}
    <2>1. \A w \in r.text : TextVendorOf[w] # "none"
      BY <1>1
    <2>2. /\ at = {} => FromText(r) = "none"
          /\ at # {} => FromText(r) # "none" /\ \E i \in at : FromText(r) = TextVendorOf[TextWords[i]]
      BY <1>1, <2>1, FirstTagIs DEF FromText
    <2>3. \A i \in at : TextVendorOf[TextWords[i]] \in text
      BY <1>1 DEF Contract!Named
    <2>4. text # {} => at # {}
      BY <1>1 DEF Contract!Named, TextTokens
    <2>5. QED
      BY <2>2, <2>3, <2>4
  <1>5. Vendor(r) \in Contract!TrueVendors(r)
    <2>. HIDE DEF oem, type, text
    <2>1. Contract!TrueVendors(r) = IF oem # {} THEN oem ELSE IF type # {} THEN type
                                    ELSE IF text # {} THEN text ELSE {"generic"}
      BY DEF Contract!TrueVendors, oem, type, text
    <2>2. QED
      BY <1>2, <1>3, <1>4, <2>1 DEF Vendor
  <1>6. oem \subseteq Tags /\ type \subseteq Tags /\ text \subseteq Tags /\ "generic" \in Tags
    BY <1>1 DEF Contract!Named, Tags
  <1>7. QED
    BY <1>5, <1>6 DEF Contract!TrueVendors

-----------------------------------------------------------------------------
(* The invariant *)

LEMMA InitHolds == Init => IInv
  <1>. SUFFICES ASSUME Init PROVE IInv
    OBVIOUS
  <1>1. TypeOK
    <2>1. hosts \in Seq(Hosts \union {Blank})
      BY ScanAssumption DEF Init
    <2>2. QED
      BY <2>1 DEF Init, TypeOK
  <1>2. TasksOK /\ SlotsOK /\ AskedOnce
    BY DEF Init, TasksOK, SlotsOK, AskedOnce
  <1>3. QueueOK
    BY DEF Init, QueueOK, Waiting, Tasks
  <1>4. QED
    BY <1>1, <1>2, <1>3 DEF IInv

\* The parts about the coroutines read only these variables.
LEMMA SlotsFrame ==
    ASSUME SlotsOK, QueueOK, UNCHANGED <<probe, semaphore, concurrency>>
    PROVE  SlotsOK' /\ QueueOK'
  BY DEF SlotsOK, QueueOK, InFlight, Waiting, Tasks, semaphore

LEMMA StartStep == IInv /\ Start => IInv'
  <1>. SUFFICES ASSUME IInv, Start PROVE IInv'
    OBVIOUS
  <1>1. concurrency \in Int
    BY ConcurrencyIsInt DEF IInv
  <1>2. TypeOK' /\ TasksOK' /\ AskedOnce'
    BY <1>1 DEF IInv, Start, End, TypeOK, TasksOK, AskedOnce, arguments, semaphore, result
  <1>3. SlotsOK' /\ QueueOK'
    BY SlotsFrame DEF IInv, Start, arguments
  <1>4. QED
    BY <1>2, <1>3 DEF IInv

LEMMA CollectStep == IInv /\ Collect => IInv'
  <1>. SUFFICES ASSUME IInv, Collect PROVE IInv'
    OBVIOUS
  <1>. DEFINE h == hosts[read']
  <1>1. hosts \in Seq(Hosts \union {Blank}) /\ read \in 0..Len(hosts) /\ ordered_hosts \in Seq(Hosts)
    BY HostsAreListed DEF IInv, TypeOK
  <1>2. read' \in 1..Len(hosts) /\ h \in Hosts \union {Blank}
    BY <1>1 DEF Collect
  <1>3. SlotsOK' /\ QueueOK'
    BY SlotsFrame DEF IInv, Collect, arguments
  <1>4. CASE h = Blank \/ h \in Seen
    <2>1. ordered_hosts' = ordered_hosts
      BY <1>4 DEF Collect
    <2>2. TypeOK' /\ TasksOK' /\ AskedOnce'
      BY <1>2, <2>1 DEF IInv, Collect, TypeOK, TasksOK, AskedOnce, arguments, semaphore, result
    <2>3. QED
      BY <1>3, <2>2 DEF IInv
  <1>5. CASE ~(h = Blank \/ h \in Seen)
    <2>1. ordered_hosts' = Append(ordered_hosts, h) /\ h \in Hosts
      BY <1>2, <1>5 DEF Collect
    <2>2. ordered_hosts' \in Seq(Hosts) /\ Len(ordered_hosts') = Len(ordered_hosts) + 1
      BY <1>1, <2>1
    <2>3. TypeOK' /\ TasksOK'
      BY <1>1, <1>2, <2>2 DEF IInv, Collect, TypeOK, TasksOK, arguments, semaphore, result
    <2>4. \A i \in 1..Len(ordered_hosts) : ordered_hosts[i] # h
      BY <1>1, <1>5 DEF Seen
    <2>5. AskedOnce'
      BY <1>1, <2>1, <2>4 DEF IInv, AskedOnce
    <2>6. QED
      BY <1>3, <2>3, <2>5 DEF IInv
  <1>6. QED
    BY <1>4, <1>5

LEMMA LaunchStep == IInv /\ Launch => IInv'
  <1>. SUFFICES ASSUME IInv, Launch PROVE IInv'
    OBVIOUS
  <1>1. concurrency \in Int /\ concurrency >= 1
    BY ConcurrencyIsInt DEF IInv, TasksOK, Launch
  <1>2. AskedOnce'
    BY DEF IInv, Launch, AskedOnce
  <1>3. CASE ordered_hosts = <<>>
    <2>1. UNCHANGED <<probe, root, semaphore>>
      BY <1>3 DEF Launch
    <2>2. TypeOK' /\ TasksOK'
      BY <1>1, <1>3, <2>1 DEF IInv, Launch, End, TypeOK, TasksOK, arguments, semaphore, result
    <2>3. SlotsOK' /\ QueueOK'
      BY <2>1, SlotsFrame DEF IInv, Launch, arguments
    <2>4. QED
      BY <1>2, <2>2, <2>3 DEF IInv
  <1>4. CASE ordered_hosts # <<>>
    <2>. DEFINE n == Len(ordered_hosts)
    <2>1. /\ probe' = [i \in 1..n |-> "created"] /\ root' = [i \in 1..n |-> NoRoot]
          /\ free' = concurrency /\ waiters' = <<>> /\ pc' = "gather"
          /\ UNCHANGED <<arguments, read, ordered_hosts, outcome>>
      BY <1>4 DEF Launch
    <2>2. n \in Nat /\ n # 0
      BY <1>4 DEF IInv, TypeOK
    <2>3. probe' \in Seq({"created"}) /\ Len(probe') = n /\ root' \in Seq({NoRoot}) /\ Len(root') = n
      BY <2>1, <2>2
    <2>4. probe' # <<>>
      BY <2>2, <2>3
    <2>5. TypeOK'
      BY <1>1, <2>1, <2>3 DEF IInv, Launch, TypeOK, arguments, result
    <2>6. TasksOK'
      BY <1>1, <2>1, <2>3, <2>4 DEF IInv, TasksOK, Launch, arguments
    <2>7. InFlight' = {} /\ Waiting' = {}
      BY <2>1 DEF InFlight, Waiting, Tasks
    <2>8. Cardinality(InFlight') = 0
      BY <2>7, FS_EmptySet
    <2>9. SlotsOK'
      BY <1>1, <2>1, <2>8 DEF SlotsOK, arguments
    <2>10. QueueOK'
      BY <2>1, <2>7 DEF QueueOK
    <2>11. QED
      BY <1>2, <2>5, <2>6, <2>9, <2>10 DEF IInv
  <1>5. QED
    BY <1>3, <1>4

\* What a step of one coroutine does to the sets of tasks.
LEMMA OneMoved ==
    ASSUME TypeOK, NEW i \in Tasks, NEW s \in {"waiting", "probing", "done"},
           probe[i] # s, probe' = [probe EXCEPT ![i] = s]
    PROVE  /\ probe' \in Seq({"created", "waiting", "probing", "done"})
           /\ Len(probe') = Len(probe) /\ probe' # <<>> /\ probe # <<>>
           /\ InFlight' = IF s = "probing" THEN InFlight \union {i} ELSE InFlight \ {i}
           /\ Waiting' = IF s = "waiting" THEN Waiting \union {i} ELSE Waiting \ {i}
  <1>1. probe \in Seq({"created", "waiting", "probing", "done"}) /\ i \in 1..Len(probe)
    BY DEF TypeOK, Tasks
  <1>2. /\ probe' \in Seq({"created", "waiting", "probing", "done"})
        /\ Len(probe') = Len(probe) /\ DOMAIN probe' = DOMAIN probe
    BY <1>1
  <1>3. probe # <<>> /\ probe' # <<>>
    BY <1>1, <1>2
  <1>4. \A j \in DOMAIN probe : probe'[j] = IF j = i THEN s ELSE probe[j]
    BY <1>1
  <1>5. InFlight' = IF s = "probing" THEN InFlight \union {i} ELSE InFlight \ {i}
    BY <1>2, <1>4 DEF InFlight, Tasks
  <1>6. Waiting' = IF s = "waiting" THEN Waiting \union {i} ELSE Waiting \ {i}
    BY <1>2, <1>4 DEF Waiting, Tasks
  <1>7. QED
    BY <1>2, <1>3, <1>5, <1>6

LEMMA BeginStep ==
    ASSUME IInv, NEW i \in Tasks, Begin(i)
    PROVE  IInv'
  <1>1. /\ probe[i] = "created" /\ concurrency \in Int /\ free \in Nat /\ i \in Nat
        /\ UNCHANGED <<arguments, pc, read, ordered_hosts, root, outcome>>
        /\ waiters \in Seq(Nat)
    BY ConcurrencyIsInt DEF IInv, Begin, TypeOK, Tasks
  <1>2. i \notin InFlight /\ i \notin Waiting
    BY <1>1 DEF InFlight, Waiting
  <1>3. IsFiniteSet(InFlight) /\ Cardinality(InFlight) \in Nat
    BY InFlightFinite DEF IInv
  <1>4. AskedOnce'
    BY <1>1 DEF IInv, AskedOnce
  <1>5. CASE free > 0
    <2>1. /\ probe' = [probe EXCEPT ![i] = "probing"] /\ free' = free - 1
          /\ UNCHANGED waiters /\ waiters = <<>>
      BY <1>1, <1>5 DEF Begin, IInv, QueueOK
    <2>2. /\ probe' \in Seq({"created", "waiting", "probing", "done"})
          /\ Len(probe') = Len(probe) /\ probe' # <<>> /\ probe # <<>>
          /\ InFlight' = InFlight \union {i} /\ Waiting' = Waiting \ {i}
      BY <1>1, <2>1, OneMoved DEF IInv
    <2>3. TypeOK'
      BY <1>1, <1>5, <2>1, <2>2 DEF IInv, Begin, TypeOK, arguments, result
    <2>4. TasksOK'
      BY <1>1, <2>1, <2>2 DEF IInv, TasksOK, Begin, arguments
    <2>5. Cardinality(InFlight') = Cardinality(InFlight) + 1
      BY <1>2, <1>3, <2>2, FS_AddElement
    <2>6. SlotsOK'
      BY <1>1, <1>3, <1>5, <2>1, <2>2, <2>5 DEF IInv, SlotsOK, arguments
    <2>7. QueueOK'
      BY <1>1, <1>2, <2>1, <2>2 DEF IInv, QueueOK
    <2>8. QED
      BY <1>4, <2>3, <2>4, <2>6, <2>7 DEF IInv
  <1>6. CASE free = 0
    <2>1. /\ probe' = [probe EXCEPT ![i] = "waiting"] /\ UNCHANGED free
          /\ waiters' = Append(waiters, i)
      BY <1>1, <1>6 DEF Begin
    <2>2. /\ probe' \in Seq({"created", "waiting", "probing", "done"})
          /\ Len(probe') = Len(probe) /\ probe' # <<>> /\ probe # <<>>
          /\ InFlight' = InFlight \ {i} /\ Waiting' = Waiting \union {i}
      BY <1>1, <2>1, OneMoved DEF IInv
    <2>3. TypeOK'
      BY <1>1, <1>6, <2>1, <2>2 DEF IInv, Begin, TypeOK, arguments, result
    <2>4. TasksOK'
      BY <1>1, <2>1, <2>2 DEF IInv, TasksOK, Begin, arguments
    <2>5. InFlight' = InFlight
      BY <1>2, <2>2
    <2>6. SlotsOK'
      BY <1>1, <2>1, <2>2, <2>5 DEF IInv, SlotsOK, arguments
    <2>7. /\ Len(waiters') = Len(waiters) + 1 /\ Len(waiters) \in Nat
          /\ \A k \in 1..Len(waiters) : waiters'[k] = waiters[k]
          /\ waiters'[Len(waiters) + 1] = i
      BY <1>1, <2>1
    <2>8. \A k \in 1..Len(waiters) : waiters[k] \in Waiting /\ waiters[k] # i
      BY <1>2 DEF IInv, QueueOK
    <2>9. \A k \in 1..Len(waiters') : k \in 1..Len(waiters) \/ k = Len(waiters) + 1
      BY <2>7
    <2>10. \A k \in 1..Len(waiters') : waiters'[k] \in Waiting'
      BY <2>2, <2>7, <2>8, <2>9
    <2>11. \A k, l \in 1..Len(waiters') : waiters'[k] = waiters'[l] => k = l
      BY <2>7, <2>8, <2>9 DEF IInv, QueueOK
    <2>12. \A j \in Waiting' : \E k \in 1..Len(waiters') : waiters'[k] = j
      <3>1. TAKE j \in Waiting'
      <3>2. CASE j = i
        BY <2>7, <3>2
      <3>3. CASE j # i
        <4>1. PICK k \in 1..Len(waiters) : waiters[k] = j
          BY <2>2, <3>3 DEF IInv, QueueOK
        <4>2. k \in 1..Len(waiters') /\ waiters'[k] = j
          BY <2>7, <4>1
        <4>3. QED
          BY <4>2
      <3>4. QED
        BY <3>2, <3>3
    <2>13. QueueOK'
      BY <1>6, <2>1, <2>10, <2>11, <2>12 DEF QueueOK
    <2>14. QED
      BY <1>4, <2>3, <2>4, <2>6, <2>13 DEF IInv
  <1>7. QED
    BY <1>1, <1>5, <1>6

\* A probe that ends passes its slot on, or frees it.
LEMMA AnswerStep ==
    ASSUME IInv, NEW i \in Tasks, Answer(i)
    PROVE  IInv'
  <1>1. /\ probe[i] = "probing" /\ concurrency \in Int /\ free \in Nat
        /\ UNCHANGED <<arguments, pc, read, ordered_hosts, outcome>>
        /\ waiters \in Seq(Nat) /\ pc = "gather"
    BY ConcurrencyIsInt DEF IInv, Answer, TypeOK
  <1>2. i \in InFlight /\ i \notin Waiting
    BY <1>1 DEF InFlight, Waiting
  <1>3. IsFiniteSet(InFlight) /\ Cardinality(InFlight) \in Nat
    BY InFlightFinite DEF IInv
  <1>4. AskedOnce'
    BY <1>1 DEF IInv, AskedOnce
  <1>5. root' \in Seq(Roots \union {NoRoot}) /\ Len(root') = Len(root)
    <2>1. PICK a \in Roots \union {NoRoot} : root' = [root EXCEPT ![i] = a]
      BY DEF Answer
    <2>2. root \in Seq(Roots \union {NoRoot}) /\ i \in 1..Len(root)
      BY DEF IInv, TypeOK, TasksOK, Tasks
    <2>3. QED
      BY <2>1, <2>2
  <1>6. CASE waiters = <<>>
    <2>1. probe' = [probe EXCEPT ![i] = "done"] /\ free' = free + 1 /\ UNCHANGED waiters
      BY <1>6 DEF Answer
    <2>2. /\ probe' \in Seq({"created", "waiting", "probing", "done"})
          /\ Len(probe') = Len(probe) /\ probe' # <<>> /\ probe # <<>>
          /\ InFlight' = InFlight \ {i} /\ Waiting' = Waiting \ {i}
      BY <1>1, <2>1, OneMoved DEF IInv
    <2>3. TypeOK'
      BY <1>1, <1>5, <2>1, <2>2 DEF IInv, Answer, TypeOK, arguments, result
    <2>4. TasksOK'
      BY <1>1, <1>5, <2>1, <2>2 DEF IInv, TasksOK, arguments
    <2>5. Cardinality(InFlight') = Cardinality(InFlight) - 1
      BY <1>2, <1>3, <2>2, FS_RemoveElement
    <2>6. SlotsOK'
      BY <1>1, <1>3, <2>1, <2>2, <2>5 DEF IInv, SlotsOK, arguments
    <2>7. QueueOK'
      BY <1>2, <1>6, <2>1, <2>2 DEF IInv, QueueOK
    <2>8. QED
      BY <1>4, <2>3, <2>4, <2>6, <2>7 DEF IInv
  <1>7. CASE waiters # <<>>
    <2>. DEFINE h == Head(waiters)
                mid == [probe EXCEPT ![i] = "done"]
    <2>1. /\ probe' = [probe EXCEPT ![i] = "done", ![h] = "probing"] /\ UNCHANGED free
          /\ waiters' = Tail(waiters)
      BY <1>7 DEF Answer
    <2>2. /\ Len(waiters) \in Nat \ {0} /\ h = waiters[1]
          /\ waiters' \in Seq(Nat) /\ Len(waiters') = Len(waiters) - 1
          /\ \A k \in 1..Len(waiters') : waiters'[k] = waiters[k + 1]
      BY <1>1, <1>7, <2>1
    <2>3. h \in Waiting
      BY <2>2 DEF IInv, QueueOK
    <2>4. h # i /\ h \in Tasks /\ h \notin InFlight
      BY <1>2, <2>3 DEF Waiting, InFlight
    <2>5. probe \in Seq({"created", "waiting", "probing", "done"}) /\ Tasks = 1..Len(probe)
      BY DEF IInv, TypeOK, Tasks
    <2>6. /\ probe' \in Seq({"created", "waiting", "probing", "done"})
          /\ Len(probe') = Len(probe) /\ Tasks' = Tasks
          /\ \A j \in Tasks : probe'[j] = IF j = i THEN "done"
                                         ELSE IF j = h THEN "probing" ELSE probe[j]
      BY <2>1, <2>4, <2>5 DEF Tasks
    <2>7. InFlight' = (InFlight \ {i}) \union {h}
      BY <2>4, <2>6 DEF InFlight
    <2>8. Waiting' = Waiting \ {h}
      BY <1>2, <2>4, <2>6 DEF Waiting
    <2>9. IsFiniteSet(InFlight \ {i}) /\ Cardinality(InFlight \ {i}) = Cardinality(InFlight) - 1
      BY <1>2, <1>3, FS_RemoveElement
    <2>10. h \notin InFlight \ {i}
      BY <2>4
    <2>11. Cardinality((InFlight \ {i}) \union {h}) = Cardinality(InFlight \ {i}) + 1
      BY <2>9, <2>10, FS_AddElement
    <2>12. Cardinality(InFlight') = Cardinality(InFlight)
      BY <1>3, <2>7, <2>9, <2>11
    <2>13. probe # <<>>
      BY <1>1 DEF IInv, TasksOK
    <2>14. TypeOK'
      BY <1>1, <1>5, <2>1, <2>2, <2>6 DEF IInv, Answer, TypeOK, arguments, result
    <2>15. probe' # <<>>
      BY <2>5, <2>6, <2>13
    <2>16. TasksOK'
      BY <1>1, <1>5, <2>6, <2>13, <2>15 DEF IInv, TasksOK, arguments
    <2>17. SlotsOK'
      BY <1>1, <2>1, <2>12, <2>13 DEF IInv, SlotsOK, arguments
    <2>18. \A k \in 1..Len(waiters') : k + 1 \in 1..Len(waiters)
      BY <2>2
    <2>19. \A k \in 1..Len(waiters') : waiters'[k] \in Waiting'
      <3>1. \A k \in 1..Len(waiters') : waiters[k + 1] \in Waiting /\ waiters[k + 1] # h
        BY <2>2, <2>18 DEF IInv, QueueOK
      <3>2. QED
        BY <2>2, <2>8, <3>1
    <2>20. \A k, l \in 1..Len(waiters') : waiters'[k] = waiters'[l] => k = l
      <3>1. SUFFICES ASSUME NEW k \in 1..Len(waiters'), NEW l \in 1..Len(waiters'),
                            waiters'[k] = waiters'[l]
                     PROVE  k = l
        OBVIOUS
      <3>2. k + 1 \in 1..Len(waiters) /\ l + 1 \in 1..Len(waiters)
            /\ waiters[k + 1] = waiters[l + 1]
        BY <2>2, <2>18, <3>1
      <3>3. k + 1 = l + 1
        BY <3>2 DEF IInv, QueueOK
      <3>4. QED
        BY <3>1, <3>3
    <2>21. \A j \in Waiting' : \E k \in 1..Len(waiters') : waiters'[k] = j
      <3>1. TAKE j \in Waiting'
      <3>2. PICK k \in 1..Len(waiters) : waiters[k] = j
        BY <2>8 DEF IInv, QueueOK
      <3>3. k # 1
        BY <2>2, <2>8, <3>2
      <3>4. k - 1 \in 1..Len(waiters') /\ (k - 1) + 1 = k
        BY <2>2, <3>2, <3>3
      <3>5. waiters'[k - 1] = j
        BY <2>2, <3>2, <3>4
      <3>6. QED
        BY <3>4, <3>5
    <2>22. free' = 0
      BY <1>1, <1>7, <2>1 DEF IInv, QueueOK
    <2>23. QueueOK'
      BY <2>19, <2>20, <2>21, <2>22 DEF QueueOK
    <2>24. QED
      BY <1>4, <2>14, <2>16, <2>17, <2>23 DEF IInv
  <1>8. QED
    BY <1>6, <1>7

\* The entry of a host that answered has the type of the results.
LEMMA ServiceType ==
    ASSUME TypeOK, TasksOK, NEW i \in Tasks, root[i] # NoRoot
    PROVE  /\ i \in 1..Len(ordered_hosts) /\ root[i] \in Roots
           /\ Service(i) \in [ip : Hosts, vendor : Tags]
           /\ Service(i).ip = ordered_hosts[i] /\ Service(i).vendor = Vendor(root[i])
  <1>1. i \in 1..Len(probe) /\ i \in 1..Len(root) /\ probe # <<>>
    BY DEF TypeOK, TasksOK, Tasks
  <1>2. i \in 1..Len(ordered_hosts) /\ root[i] \in Roots
    BY <1>1 DEF TypeOK, TasksOK
  <1>3. ordered_hosts[i] \in Hosts /\ Vendor(root[i]) \in Tags
    BY <1>2, VendorIsTrue DEF TypeOK
  <1>4. QED
    BY <1>2, <1>3 DEF Service

LEMMA KeepStep == IInv /\ Keep => IInv'
  <1>. SUFFICES ASSUME IInv, Keep PROVE IInv'
    OBVIOUS
  <1>1. /\ UNCHANGED <<hosts, concurrency, pc, read, ordered_hosts, probe, root, free, waiters>>
        /\ UNCHANGED outcome /\ taken' = taken + 1 /\ taken < Len(probe)
    BY DEF Keep, arguments, semaphore
  <1>2. SlotsOK' /\ QueueOK'
    BY <1>1, SlotsFrame DEF IInv, semaphore
  <1>3. taken' \in Nat /\ taken' \in Tasks
    BY <1>1 DEF IInv, TypeOK, Tasks
  <1>4. found' \in Seq([ip : Hosts, vendor : Tags])
    <2>1. CASE root[taken'] = NoRoot
      BY <2>1 DEF IInv, TypeOK, Keep
    <2>2. CASE root[taken'] # NoRoot
      <3>1. Service(taken') \in [ip : Hosts, vendor : Tags]
        BY <1>3, <2>2, ServiceType DEF IInv
      <3>2. found' = Append(found, Service(taken')) /\ found \in Seq([ip : Hosts, vendor : Tags])
        BY <2>2 DEF IInv, TypeOK, Keep
      <3>3. QED
        BY <3>1, <3>2
    <2>3. QED
      BY <2>1, <2>2
  <1>5. TypeOK' /\ TasksOK' /\ AskedOnce'
    BY <1>1, <1>3, <1>4 DEF IInv, TypeOK, TasksOK, AskedOnce
  <1>6. QED
    BY <1>2, <1>5 DEF IInv

LEMMA EndStep == IInv /\ (Gathered \/ Interrupt) => IInv'
  <1>. SUFFICES ASSUME IInv, Gathered \/ Interrupt PROVE IInv'
    OBVIOUS
  <1>1. /\ pc' = "done"
        /\ UNCHANGED <<hosts, concurrency, read, ordered_hosts, probe, root, free, waiters>>
        /\ UNCHANGED <<taken, found>>
    BY DEF Gathered, Interrupt, End, arguments, semaphore, result
  <1>2. SlotsOK' /\ QueueOK'
    BY <1>1, SlotsFrame DEF IInv, semaphore
  <1>3. TypeOK' /\ TasksOK' /\ AskedOnce'
    BY <1>1 DEF IInv, TypeOK, TasksOK, AskedOnce
  <1>4. QED
    BY <1>2, <1>3 DEF IInv

LEMMA NextStep == IInv /\ [Next]_vars => IInv'
  <1>. SUFFICES ASSUME IInv, [Next]_vars PROVE IInv'
    OBVIOUS
  <1>1. CASE Start
    BY <1>1, StartStep
  <1>2. CASE Collect
    BY <1>2, CollectStep
  <1>3. CASE Launch
    BY <1>3, LaunchStep
  <1>4. CASE \E i \in Tasks : Begin(i)
    BY <1>4, BeginStep
  <1>5. CASE \E i \in Tasks : Answer(i)
    BY <1>5, AnswerStep
  <1>6. CASE Keep
    BY <1>6, KeepStep
  <1>7. CASE Gathered \/ Interrupt
    BY <1>7, EndStep
  <1>8. CASE UNCHANGED vars
    <2>1. SlotsOK' /\ QueueOK'
      BY <1>8, SlotsFrame DEF IInv, vars, semaphore
    <2>2. TypeOK' /\ TasksOK' /\ AskedOnce'
      BY <1>8 DEF IInv, vars, TypeOK, TasksOK, AskedOnce
    <2>3. QED
      BY <2>1, <2>2 DEF IInv
  <1>9. QED
    BY <1>1, <1>2, <1>3, <1>4, <1>5, <1>6, <1>7, <1>8 DEF Next, Steps

LEMMA Invariance == Spec => []IInv
  <1>1. QED
    BY InitHolds, NextStep, PTL DEF Spec

\* Every variable keeps its type, for every list of hosts.
THEOREM TypeCorrect == Spec => []TypeOK
  <1>1. IInv => TypeOK
    BY DEF IInv
  <1>2. QED
    BY <1>1, Invariance, PTL

\* scanner.py:84: never more probes under way than --concurrency allows.
THEOREM Bounded == Spec => []BoundedProbes
  <1>1. IInv => BoundedProbes
    BY BoundHolds
  <1>2. QED
    BY <1>1, Invariance, PTL

\* The semaphore loses no slot: a coroutine waits only while all are in use.
THEOREM WorkConserving == Spec => []NoSlotIdle
  <1>1. IInv => NoSlotIdle
    BY BoundHolds
  <1>2. QED
    BY <1>1, Invariance, PTL

\* scanner.py:118-125: no host is asked twice, however often it is listed.
THEOREM NoneTwice == Spec => []AskedOnce
  <1>1. IInv => AskedOnce
    BY DEF IInv
  <1>2. QED
    BY <1>1, Invariance, PTL

-----------------------------------------------------------------------------
(* The refinement *)

\* Where a host is first mentioned on the command line.
Mention(list, h, m) == m \in 1..Len(list) /\ list[m] = h /\ \A j \in 1..(m - 1) : list[j] # h

\* The loop over hosts has kept each address it has seen, in the order of the
\* first mentions.
CollectedOK ==
    /\ \A m \in 1..read : hosts[m] = Blank \/ hosts[m] \in Seen
    /\ \A k \in 1..Len(ordered_hosts) : \E m \in 1..read : Mention(hosts, ordered_hosts[k], m)
    /\ \A k, l \in 1..Len(ordered_hosts), m, n \in Nat :
          k < l /\ Mention(hosts, ordered_hosts[k], m) /\ Mention(hosts, ordered_hosts[l], n) => m < n
    /\ probe # <<>> => read = Len(hosts)

\* The loop over results has kept each service it has seen, in their order; it
\* runs once every answer is there.
FoundOK ==
    /\ taken <= Len(probe)
    /\ taken > 0 => Open = {}
    /\ \A n \in 1..Len(found) : \E i \in 1..taken : root[i] # NoRoot /\ found[n] = Service(i)
    /\ \A i \in 1..taken : root[i] # NoRoot =>
          \E n \in 1..Len(found) : found[n].ip = ordered_hosts[i]
    /\ \A m, n \in 1..Len(found), i, j \in 1..taken :
          m < n /\ found[m].ip = ordered_hosts[i] /\ found[n].ip = ordered_hosts[j] => i < j

RInv == IInv /\ CollectedOK /\ FoundOK

LEMMA InitOrdered == Init => RInv
  <1>. SUFFICES ASSUME Init PROVE RInv
    OBVIOUS
  <1>1. CollectedOK
    BY DEF Init, CollectedOK
  <1>2. FoundOK
    BY DEF Init, FoundOK
  <1>3. QED
    BY <1>1, <1>2, InitHolds DEF RInv

\* What the loops have read does not change behind them.
LEMMA CollectedFrame ==
    ASSUME CollectedOK, UNCHANGED <<hosts, read, ordered_hosts>>, probe' # <<>> => probe # <<>>
    PROVE  CollectedOK'
  BY DEF CollectedOK, Seen, Mention

LEMMA FoundFrame ==
    ASSUME FoundOK, UNCHANGED <<ordered_hosts, probe, root, taken, found>>
    PROVE  FoundOK'
  BY DEF FoundOK, Open, Tasks, Service

\* Before the coroutines are made no result has been looked at.
LEMMA NoneTaken ==
    ASSUME TypeOK, FoundOK, Open # {} \/ probe = <<>>
    PROVE  taken = 0 /\ found = <<>>
  <1>1. taken = 0
    BY DEF TypeOK, FoundOK
  <1>2. Len(found) \in Nat /\ \A n \in 1..Len(found) : FALSE
    BY <1>1 DEF TypeOK, FoundOK
  <1>3. QED
    BY <1>1, <1>2 DEF TypeOK

LEMMA FoundNone == taken = 0 /\ found = <<>> /\ Len(probe) \in Nat => FoundOK
  BY DEF FoundOK

LEMMA CollectOrdered == RInv /\ Collect => CollectedOK'
  <1>. SUFFICES ASSUME RInv, Collect PROVE CollectedOK'
    OBVIOUS
  <1>. DEFINE h == hosts[read + 1]
              n == Len(ordered_hosts)
  <1>1. hosts \in Seq(Hosts \union {Blank}) /\ read \in 0..Len(hosts) /\ ordered_hosts \in Seq(Hosts)
    BY HostsAreListed DEF RInv, IInv, TypeOK
  <1>2. /\ read' = read + 1 /\ read' \in 1..Len(hosts) /\ probe' = <<>> /\ hosts' = hosts
        /\ ordered_hosts' = IF h = Blank \/ h \in Seen THEN ordered_hosts
                            ELSE Append(ordered_hosts, h)
    BY <1>1 DEF Collect, arguments, RInv, IInv, TasksOK
  <1>3. CASE h = Blank \/ h \in Seen
    <2>1. ordered_hosts' = ordered_hosts
      BY <1>2, <1>3
    <2>2. \A m \in 1..read' : m \in 1..read \/ m = read + 1
      BY <1>1, <1>2
    <2>3. \A m \in 1..read : m \in 1..read'
      BY <1>1, <1>2
    <2>4. QED
      BY <1>2, <1>3, <2>1, <2>2, <2>3 DEF RInv, CollectedOK, Seen
  <1>4. CASE ~(h = Blank \/ h \in Seen)
    <2>1. ordered_hosts' = Append(ordered_hosts, h) /\ h \in Hosts \union {Blank} /\ n \in Nat
      BY <1>1, <1>2, <1>4
    <2>2. /\ Len(ordered_hosts') = n + 1 /\ ordered_hosts'[n + 1] = h
          /\ \A k \in 1..n : ordered_hosts'[k] = ordered_hosts[k] /\ k \in 1..(n + 1)
          /\ \A k \in 1..(n + 1) : k \in 1..n \/ k = n + 1
      BY <1>1, <2>1
    <2>3. Seen' = Seen \union {h}
      <3>1. DOMAIN ordered_hosts' = 1..(n + 1) /\ DOMAIN ordered_hosts = 1..n
        BY <1>1, <2>1
      <3>2. QED
        BY <2>1, <2>2, <3>1 DEF Seen
    <2>4. \A m \in 1..read' : hosts'[m] = Blank \/ hosts'[m] \in Seen'
      <3>1. \A m \in 1..read' : m \in 1..read \/ m = read + 1
        BY <1>1, <1>2
      <3>2. QED
        BY <1>2, <2>3, <3>1 DEF RInv, CollectedOK
    <2>5. Mention(hosts, h, read + 1)
      <3>1. \A j \in 1..read : hosts[j] # h
        BY <1>4 DEF RInv, CollectedOK
      <3>2. read + 1 \in 1..Len(hosts) /\ \A j \in 1..((read + 1) - 1) : j \in 1..read
        BY <1>1, <1>2
      <3>3. QED
        BY <3>1, <3>2 DEF Mention
    <2>6. \A k \in 1..n : \E m \in 1..read : Mention(hosts, ordered_hosts[k], m)
      BY DEF RInv, CollectedOK
    <2>7. \A m \in 1..read : m \in 1..read' /\ m < read + 1
      BY <1>1, <1>2
    <2>8. \A k \in 1..Len(ordered_hosts') : \E m \in 1..read' : Mention(hosts', ordered_hosts'[k], m)
      <3>1. TAKE k \in 1..Len(ordered_hosts')
      <3>2. CASE k \in 1..n
        BY <1>2, <2>2, <2>6, <2>7, <3>2
      <3>3. CASE k = n + 1
        BY <1>2, <2>2, <2>5, <3>3
      <3>4. QED
        BY <2>2, <3>2, <3>3
    <2>9. \A x : \A m, p \in Nat : Mention(hosts, x, m) /\ Mention(hosts, x, p) => m = p
      BY DEF Mention
    <2>10. \A k, l \in 1..Len(ordered_hosts'), m, p \in Nat :
              k < l /\ Mention(hosts, ordered_hosts'[k], m) /\ Mention(hosts, ordered_hosts'[l], p) => m < p
      <3>1. SUFFICES ASSUME NEW k \in 1..Len(ordered_hosts'), NEW l \in 1..Len(ordered_hosts'),
                            NEW m \in Nat, NEW p \in Nat, k < l,
                            Mention(hosts, ordered_hosts'[k], m), Mention(hosts, ordered_hosts'[l], p)
                     PROVE  m < p
        OBVIOUS
      <3>2. k \in 1..n
        BY <2>1, <2>2, <3>1
      <3>3. CASE l \in 1..n
        BY <2>2, <3>1, <3>2, <3>3 DEF RInv, CollectedOK
      <3>4. CASE l = n + 1
        <4>1. p = read + 1
          BY <1>1, <2>2, <2>5, <2>9, <3>1, <3>4
        <4>2. PICK q \in 1..read : Mention(hosts, ordered_hosts[k], q)
          BY <2>6, <3>2
        <4>3. m = q
          BY <1>1, <2>2, <2>9, <3>1, <3>2, <4>2
        <4>4. QED
          BY <2>7, <4>1, <4>2, <4>3
      <3>5. QED
        BY <2>2, <3>3, <3>4
    <2>11. QED
      BY <1>2, <2>4, <2>8, <2>10 DEF CollectedOK
  <1>5. QED
    BY <1>3, <1>4

\* FoundOK after a turn of the loop, in terms of what the turn leaves alone.
LEMMA FoundFrom ==
    ASSUME UNCHANGED <<ordered_hosts, probe, root>>, Open = {}, NEW t \in Nat, taken' = t, t <= Len(probe),
           NEW n, n = Len(found'),
           \A k \in 1..n : \E i \in 1..t : root[i] # NoRoot /\ found'[k] = Service(i),
           \A i \in 1..t : root[i] # NoRoot => \E k \in 1..n : found'[k].ip = ordered_hosts[i],
           \A k, l \in 1..n, i, j \in 1..t :
              k < l /\ found'[k].ip = ordered_hosts[i] /\ found'[l].ip = ordered_hosts[j] => i < j
    PROVE  FoundOK'
  <1>1. Open' = {} /\ \A i : Service(i)' = Service(i)
    BY DEF Open, Tasks, Service
  <1>2. \A k \in 1..n : \E i \in 1..t : root'[i] # NoRoot /\ found'[k] = Service(i)'
    BY <1>1
  <1>3. \A i \in 1..t : root'[i] # NoRoot => \E k \in 1..n : found'[k].ip = ordered_hosts'[i]
    OBVIOUS
  <1>4. QED
    BY <1>1, <1>2, <1>3 DEF FoundOK

LEMMA KeepOrdered == RInv /\ Keep => FoundOK'
  <1>. SUFFICES ASSUME RInv, Keep PROVE FoundOK'
    OBVIOUS
  <1>. DEFINE t == taken + 1
              n == Len(found)
  <1>1. /\ UNCHANGED <<ordered_hosts, probe, root>> /\ Open = {}
        /\ taken' = t /\ t <= Len(probe) /\ t \in Tasks /\ taken \in Nat
        /\ found' = IF root[t] = NoRoot THEN found ELSE Append(found, Service(t))
    BY DEF Keep, RInv, IInv, TypeOK, Tasks
  <1>2. \A i \in 1..t : i \in 1..taken \/ i = t
    BY <1>1
  <1>3. CASE root[t] = NoRoot
    <2>1. found' = found
      BY <1>1, <1>3
    <2>2. \A i \in 1..t : root[i] # NoRoot => i \in 1..taken
      BY <1>2, <1>3
    <2>3. \A i \in 1..taken : i \in 1..t
      BY <1>1
    <2>4. \A k \in 1..Len(found) : \E i \in 1..t : root[i] # NoRoot /\ found[k] = Service(i)
      BY <2>3 DEF RInv, FoundOK
    <2>5. \A k, l \in 1..Len(found), i, j \in 1..t :
             k < l /\ found[k].ip = ordered_hosts[i] /\ found[l].ip = ordered_hosts[j] => i < j
      <3>1. \A k \in 1..Len(found), i \in 1..t :
               found[k].ip = ordered_hosts[i] => i \in 1..taken
        <4>1. TAKE k \in 1..Len(found), i \in 1..t
        <4>2. HAVE found[k].ip = ordered_hosts[i]
        <4>3. PICK j \in 1..taken : root[j] # NoRoot /\ found[k] = Service(j)
          BY DEF RInv, FoundOK
        <4>4. j \in Tasks /\ i \in Tasks
          BY <1>1 DEF RInv, IInv, TypeOK, Tasks
        <4>5. j \in 1..Len(ordered_hosts) /\ found[k].ip = ordered_hosts[j]
          BY <4>3, <4>4, ServiceType DEF RInv, IInv
        <4>6. i \in 1..Len(ordered_hosts)
          BY <4>4 DEF RInv, IInv, TasksOK, Tasks, TypeOK
        <4>7. i = j
          BY <4>2, <4>5, <4>6 DEF RInv, IInv, AskedOnce
        <4>8. QED
          BY <4>7
      <3>2. QED
        BY <3>1 DEF RInv, FoundOK
    <2>6. \A i \in 1..t : root[i] # NoRoot => \E k \in 1..n : found[k].ip = ordered_hosts[i]
      BY <2>2 DEF RInv, FoundOK
    <2>7. t \in Nat /\ n = Len(found')
      BY <1>1, <2>1
    <2>8. QED
      <3>. HIDE DEF t, n
      <3>1. /\ \A k \in 1..n : \E i \in 1..t : root[i] # NoRoot /\ found'[k] = Service(i)
            /\ \A i \in 1..t : root[i] # NoRoot => \E k \in 1..n : found'[k].ip = ordered_hosts[i]
            /\ \A k, l \in 1..n, i, j \in 1..t :
                  k < l /\ found'[k].ip = ordered_hosts[i] /\ found'[l].ip = ordered_hosts[j] => i < j
        BY <2>1, <2>4, <2>5, <2>6 DEF n
      <3>2. QED
        BY <1>1, <2>7, <3>1, FoundFrom
  <1>4. CASE root[t] # NoRoot
    <2>1. found' = Append(found, Service(t)) /\ n \in Nat
      BY <1>1, <1>4 DEF RInv, IInv, TypeOK
    <2>2. /\ Service(t).ip = ordered_hosts[t] /\ t \in 1..Len(ordered_hosts)
          /\ Service(t) \in [ip : Hosts, vendor : Tags]
      BY <1>1, <1>4, ServiceType DEF RInv, IInv
    <2>3. /\ Len(found') = n + 1 /\ found'[n + 1] = Service(t)
          /\ \A k \in 1..n : found'[k] = found[k] /\ k \in 1..(n + 1)
          /\ \A k \in 1..(n + 1) : k \in 1..n \/ k = n + 1
      BY <2>1, <2>2 DEF RInv, IInv, TypeOK
    <2>4. \A i \in 1..taken : i \in 1..t /\ i < t
      BY <1>1
    <2>5. \A i, j \in 1..t : ordered_hosts[i] = ordered_hosts[j] => i = j
      <3>1. 1..t \subseteq 1..Len(ordered_hosts)
        BY <1>1, <2>2 DEF RInv, IInv, TypeOK
      <3>2. QED
        BY <3>1 DEF RInv, IInv, AskedOnce
    <2>6. \A k \in 1..n : \E i \in 1..taken : root[i] # NoRoot /\ found[k] = Service(i)
                                              /\ found[k].ip = ordered_hosts[i]
      <3>1. TAKE k \in 1..n
      <3>2. PICK i \in 1..taken : root[i] # NoRoot /\ found[k] = Service(i)
        BY DEF RInv, FoundOK
      <3>3. i \in Tasks
        BY <1>1 DEF RInv, IInv, TypeOK, Tasks
      <3>4. QED
        BY <3>2, <3>3, ServiceType DEF RInv, IInv
    <2>7. \A k \in 1..(n + 1) : \E i \in 1..t : root[i] # NoRoot /\ found'[k] = Service(i)
      BY <1>1, <1>4, <2>3, <2>4, <2>6
    <2>8. \A i \in 1..t : root[i] # NoRoot => \E k \in 1..(n + 1) : found'[k].ip = ordered_hosts[i]
      <3>1. n + 1 \in 1..(n + 1)
        BY <2>1
      <3>2. \A i \in 1..taken : root[i] # NoRoot => \E k \in 1..n : found[k].ip = ordered_hosts[i]
        BY DEF RInv, FoundOK
      <3>3. QED
        BY <1>2, <2>2, <2>3, <3>1, <3>2
    <2>9. \A k, l \in 1..(n + 1), i, j \in 1..t :
             k < l /\ found'[k].ip = ordered_hosts[i] /\ found'[l].ip = ordered_hosts[j] => i < j
      <3>1. SUFFICES ASSUME NEW k \in 1..(n + 1), NEW l \in 1..(n + 1), NEW i \in 1..t, NEW j \in 1..t,
                            k < l, found'[k].ip = ordered_hosts[i], found'[l].ip = ordered_hosts[j]
                     PROVE  i < j
        OBVIOUS
      <3>2. k \in 1..n
        BY <2>1, <3>1
      <3>3. PICK x \in 1..taken : found[k].ip = ordered_hosts[x]
        BY <2>6, <3>2
      <3>4. i = x /\ i \in 1..taken
        BY <2>3, <2>4, <2>5, <3>1, <3>2, <3>3
      <3>5. CASE l \in 1..n
        <4>1. PICK y \in 1..taken : found[l].ip = ordered_hosts[y]
          BY <2>6, <3>5
        <4>2. j = y /\ j \in 1..taken
          BY <2>3, <2>4, <2>5, <3>1, <3>5, <4>1
        <4>3. QED
          BY <2>3, <3>1, <3>2, <3>4, <3>5, <4>2 DEF RInv, FoundOK
      <3>6. CASE l = n + 1
        <4>1. ordered_hosts[j] = ordered_hosts[t] /\ t \in 1..t
          BY <1>1, <2>2, <2>3, <3>1, <3>6
        <4>2. j = t
          BY <2>5, <4>1
        <4>3. QED
          BY <2>4, <3>4, <4>2
      <3>7. QED
        BY <2>3, <3>5, <3>6
    <2>10. t \in Nat /\ n + 1 = Len(found')
      BY <1>1, <2>3
    <2>11. QED
      <3>. HIDE DEF t, n
      <3>1. QED
        BY <1>1, <2>7, <2>8, <2>9, <2>10, FoundFrom
  <1>5. QED
    BY <1>3, <1>4

LEMMA NextOrdered == RInv /\ [Next]_vars => RInv'
  <1>. SUFFICES ASSUME RInv, [Next]_vars PROVE CollectedOK' /\ FoundOK'
    BY NextStep DEF RInv
  <1>1. ASSUME UNCHANGED <<hosts, read, ordered_hosts, probe, root, taken, found>>
        PROVE  CollectedOK' /\ FoundOK'
    BY <1>1, CollectedFrame, FoundFrame DEF RInv
  <1>2. ASSUME taken = 0, found = <<>>, UNCHANGED <<taken, found>>, Len(probe') \in Nat
        PROVE  FoundOK'
    BY <1>2 DEF FoundOK
  <1>3. CASE Collect
    <2>1. CollectedOK'
      BY <1>3, CollectOrdered
    <2>2. UNCHANGED <<probe, taken, found>> /\ probe = <<>>
      BY <1>3 DEF Collect, result, RInv, IInv, TasksOK
    <2>3. taken = 0 /\ found = <<>>
      BY <2>2, NoneTaken DEF RInv, IInv
    <2>4. QED
      BY <1>2, <2>1, <2>2, <2>3
  <1>4. CASE Launch
    <2>1. /\ UNCHANGED <<hosts, read, ordered_hosts, taken, found>> /\ read = Len(hosts)
          /\ probe = <<>>
      BY <1>4 DEF Launch, arguments, result, RInv, IInv, TasksOK
    <2>2. CollectedOK'
      BY <2>1 DEF RInv, CollectedOK, Seen, Mention
    <2>3. taken = 0 /\ found = <<>>
      BY <2>1, NoneTaken DEF RInv, IInv
    <2>4. Len(probe') \in Nat
      BY NextStep DEF RInv, IInv, TypeOK
    <2>5. QED
      BY <1>2, <2>1, <2>2, <2>3, <2>4
  <1>5. CASE \E i \in Tasks : Begin(i) \/ Answer(i)
    <2>1. PICK i \in Tasks : Begin(i) \/ Answer(i)
      BY <1>5
    <2>2. /\ UNCHANGED <<hosts, read, ordered_hosts, taken, found>> /\ i \in Open
      BY <2>1 DEF Begin, Answer, arguments, result, Open
    <2>3. probe # <<>>
      BY <2>1 DEF Tasks
    <2>4. CollectedOK'
      BY <2>2, <2>3, CollectedFrame DEF RInv
    <2>5. taken = 0 /\ found = <<>>
      BY <2>2, NoneTaken DEF RInv, IInv
    <2>6. Len(probe') \in Nat
      BY NextStep DEF RInv, IInv, TypeOK
    <2>7. QED
      BY <1>2, <2>2, <2>4, <2>5, <2>6
  <1>6. CASE Keep
    <2>1. FoundOK'
      BY <1>6, KeepOrdered
    <2>2. UNCHANGED <<hosts, read, ordered_hosts, probe>>
      BY <1>6 DEF Keep, arguments
    <2>3. QED
      BY <2>1, <2>2, CollectedFrame DEF RInv
  <1>7. CASE Start \/ Gathered \/ Interrupt \/ UNCHANGED vars
    <2>1. UNCHANGED <<hosts, read, ordered_hosts, probe, root, taken, found>>
      BY <1>7 DEF Start, Gathered, Interrupt, vars, arguments, result
    <2>2. QED
      BY <1>1, <2>1
  <1>8. QED
    BY <1>3, <1>4, <1>5, <1>6, <1>7 DEF Next, Steps

\* What the contract sees of one host.
LEMMA AnswerOf ==
    ASSUME IInv, NEW h \in Contract!Listed
    PROVE  /\ AnsweredBy(h) = {} => Answers[h] = Contract!Pending
           /\ \A i \in AnsweredBy(h) : Answers[h] = root[i] /\ root[i] \in Roots \union {NoRoot}
  <1>1. Answers[h] = IF AnsweredBy(h) = {} THEN Contract!Pending
                     ELSE root[CHOOSE i \in AnsweredBy(h) : TRUE]
    BY DEF Answers, Contract!Listed, Contract!Pending
  <1>2. \A i, j \in AnsweredBy(h) : i = j
    BY DEF AnsweredBy, IInv, AskedOnce, TypeOK, TasksOK, Tasks
  <1>3. \A i \in AnsweredBy(h) : root[i] \in Roots \union {NoRoot}
    BY DEF AnsweredBy, IInv, TypeOK, TasksOK, Tasks
  <1>4. QED
    BY <1>1, <1>2, <1>3

LEMMA NotPending == Contract!Pending \notin Roots \union {NoRoot}
  <1>1. Contract!Pending # NoRoot
    BY DEF Contract!Pending, NoRoot
  <1>2. ASSUME Contract!Pending \in Roots PROVE FALSE
    <2>1. Contract!Pending \in ServiceRoots
      BY <1>2, ScanAssumption
    <2>2. "oem" \in DOMAIN Contract!Pending
      BY <2>1 DEF ServiceRoots
    <2>3. DOMAIN Contract!Pending = {"kind"}
      BY DEF Contract!Pending
    <2>4. QED
      BY <2>2, <2>3
  <1>3. QED
    BY <1>1, <1>2

\* A step that brings no answer.
LEMMA AnswersKept ==
    ASSUME hosts' = hosts, \A h \in Hosts : AnsweredBy(h)' = AnsweredBy(h),
           \A h \in Hosts : \A i \in AnsweredBy(h) : root'[i] = root[i]
    PROVE  Answers' = Answers
  <1>1. \A h \in Hosts : AnsweredBy(h) # {} => (CHOOSE i \in AnsweredBy(h) : TRUE) \in AnsweredBy(h)
    OBVIOUS
  <1>2. \A h \in Hosts :
           (IF AnsweredBy(h)' = {} THEN Contract!Pending ELSE root'[CHOOSE i \in AnsweredBy(h)' : TRUE])
           = (IF AnsweredBy(h) = {} THEN Contract!Pending ELSE root[CHOOSE i \in AnsweredBy(h) : TRUE])
    BY <1>1
  <1>3. QED
    BY <1>2 DEF Answers, Contract!Pending

LEMMA InitRefines == Init => Contract!Init
  <1>. SUFFICES ASSUME Init PROVE Contract!Init
    OBVIOUS
  <1>1. hosts \in Seq(Hosts \union {Blank})
    BY ScanAssumption DEF Init
  <1>2. \A h : AnsweredBy(h) = {}
    BY DEF Init, AnsweredBy, Tasks
  <1>3. Answers = [h \in Contract!Listed |-> Contract!Pending]
    BY <1>2 DEF Answers, Contract!Listed, Contract!Pending
  <1>4. Report = Contract!Pending
    BY DEF Init, Report, Contract!Pending
  <1>5. QED
    BY <1>1, <1>3, <1>4 DEF Contract!Init

\* Every host that was kept is on the list.
LEMMA KeptIsListed ==
    ASSUME RInv, NEW i \in 1..Len(ordered_hosts)
    PROVE  ordered_hosts[i] \in Contract!Listed
  <1>1. PICK m \in 1..read : Mention(hosts, ordered_hosts[i], m)
    BY DEF RInv, CollectedOK
  <1>2. hosts[m] = ordered_hosts[i] /\ m \in DOMAIN hosts
    <2>1. hosts \in Seq(Hosts \union {Blank})
      BY HostsAreListed DEF RInv, IInv
    <2>2. QED
      BY <1>1, <2>1 DEF Mention
  <1>3. ordered_hosts[i] \in Hosts
    BY DEF RInv, IInv, TypeOK
  <1>4. QED
    BY <1>2, <1>3 DEF Contract!Listed

LEMMA AnswerRefines ==
    ASSUME RInv, NEW i \in Tasks, Answer(i)
    PROVE  Contract!Next
  <1>. DEFINE h == ordered_hosts[i]
  <1>1. /\ probe[i] = "probing" /\ pc = "gather"
        /\ UNCHANGED <<hosts, ordered_hosts, outcome>>
        /\ \E a \in Roots \union {NoRoot} : root' = [root EXCEPT ![i] = a]
    BY DEF Answer, arguments
  <1>2. PICK a \in Roots \union {NoRoot} : root' = [root EXCEPT ![i] = a]
    BY <1>1
  <1>3. /\ Tasks' = Tasks /\ probe'[i] = "done"
        /\ \A j \in Tasks \ {i} : probe'[j] = "done" <=> probe[j] = "done"
    <2>1. probe \in Seq({"created", "waiting", "probing", "done"}) /\ waiters \in Seq(Nat)
      BY DEF RInv, IInv, TypeOK
    <2>2. CASE waiters = <<>>
      <3>1. probe' = [probe EXCEPT ![i] = "done"]
        BY <2>2 DEF Answer
      <3>2. QED
        BY <2>1, <3>1 DEF Tasks
    <2>3. CASE waiters # <<>>
      <3>1. probe' = [probe EXCEPT ![i] = "done", ![Head(waiters)] = "probing"]
        BY <2>3 DEF Answer
      <3>2. Head(waiters) = waiters[1] /\ 1 \in 1..Len(waiters)
        BY <2>1, <2>3
      <3>3. Head(waiters) \in Waiting
        BY <3>2 DEF RInv, IInv, QueueOK
      <3>4. Head(waiters) # i /\ probe[Head(waiters)] # "done"
        BY <1>1, <3>3 DEF Waiting
      <3>5. QED
        BY <2>1, <3>1, <3>4 DEF Tasks
    <2>4. QED
      BY <2>2, <2>3
  <1>4. i \in 1..Len(ordered_hosts) /\ Tasks = 1..Len(ordered_hosts) /\ Tasks = 1..Len(root)
    BY DEF RInv, IInv, TypeOK, TasksOK, Tasks
  <1>5. h \in Contract!Listed /\ h \in Hosts
    BY <1>4, KeptIsListed DEF Contract!Listed
  <1>6. AnsweredBy(h) = {} /\ AnsweredBy(h)' = {i}
    <2>1. \A j \in Tasks : ordered_hosts[j] = h => j = i
      BY <1>4 DEF RInv, IInv, AskedOnce
    <2>2. QED
      BY <1>1, <1>3, <2>1 DEF AnsweredBy
  <1>7. \A g \in Hosts \ {h} : AnsweredBy(g)' = AnsweredBy(g)
    BY <1>1, <1>3 DEF AnsweredBy
  <1>8. root'[i] = a /\ \A j \in Tasks \ {i} : root'[j] = root[j]
    BY <1>2, <1>4 DEF RInv, IInv, TypeOK
  <1>9. Answers' = [Answers EXCEPT ![h] = a]
    <2>1. DOMAIN Answers' = DOMAIN Answers /\ DOMAIN Answers = Contract!Listed
      BY <1>1 DEF Answers, Contract!Listed
    <2>2. Answers'[h] = a
      <3>1. Answers'[h] = root'[CHOOSE j \in {i} : TRUE]
        BY <1>1, <1>5, <1>6 DEF Answers, Contract!Listed
      <3>2. (CHOOSE j \in {i} : TRUE) = i
        OBVIOUS
      <3>3. QED
        BY <1>8, <3>1, <3>2
    <2>3. ASSUME NEW g \in Contract!Listed, g # h PROVE Answers'[g] = Answers[g]
      <3>1. g \in Hosts \ {h} /\ AnsweredBy(g)' = AnsweredBy(g)
        BY <1>7, <2>3 DEF Contract!Listed
      <3>2. AnsweredBy(g) \subseteq Tasks \ {i}
        BY <2>3 DEF AnsweredBy
      <3>3. AnsweredBy(g) # {} => root'[CHOOSE j \in AnsweredBy(g) : TRUE]
                                 = root[CHOOSE j \in AnsweredBy(g) : TRUE]
        <4>1. AnsweredBy(g) # {} => (CHOOSE j \in AnsweredBy(g) : TRUE) \in AnsweredBy(g)
          OBVIOUS
        <4>2. QED
          BY <1>8, <3>2, <4>1
      <3>4. QED
        BY <1>1, <3>1, <3>3 DEF Answers, Contract!Listed
    <2>4. QED
      <3>1. Answers' = [g \in Contract!Listed |-> Answers'[g]]
        BY <1>1 DEF Answers, Contract!Listed
      <3>2. [Answers EXCEPT ![h] = a] = [g \in Contract!Listed |-> IF g = h THEN a ELSE Answers[g]]
        <4>1. Answers = [g \in Contract!Listed |-> Answers[g]]
          BY DEF Answers, Contract!Listed
        <4>2. QED
          BY <1>5, <2>1, <4>1
      <3>3. QED
        BY <2>2, <2>3, <3>1, <3>2
  <1>10. Answers[h] = Contract!Pending
    BY <1>5, <1>6, AnswerOf DEF RInv
  <1>11. Report' = Report
    BY <1>1 DEF Report
  <1>12. Contract!Answer(h)
    BY <1>1, <1>9, <1>10, <1>11 DEF Contract!Answer
  <1>13. QED
    BY <1>5, <1>12 DEF Contract!Next

\* What the report must say of the services found, once every host is answered
\* for and every result looked at.
LEMMA FoundIsFaithful ==
    ASSUME RInv, pc = "gather", Open = {}, taken = Len(probe)
    PROVE  /\ Contract!Faithful(found)
           /\ \A h \in Contract!Listed : Answers[h] # Contract!Pending
  <1>1. /\ probe # <<>> /\ read = Len(hosts) /\ Tasks = 1..taken /\ taken = Len(ordered_hosts)
        /\ found \in Seq([ip : Hosts, vendor : Tags])
    BY DEF RInv, IInv, TypeOK, TasksOK, CollectedOK, Tasks
  <1>2. \A i \in Tasks : /\ ordered_hosts[i] \in Contract!Listed
                         /\ Answers[ordered_hosts[i]] = root[i]
                         /\ root[i] \in Roots \union {NoRoot}
    <2>1. TAKE i \in Tasks
    <2>2. ordered_hosts[i] \in Contract!Listed
      BY <1>1, KeptIsListed
    <2>3. i \in AnsweredBy(ordered_hosts[i])
      BY DEF Open, AnsweredBy
    <2>4. QED
      BY <2>2, <2>3, AnswerOf DEF RInv
  <1>3. \A h \in Contract!Listed : \E i \in Tasks : ordered_hosts[i] = h
    <2>1. TAKE h \in Contract!Listed
    <2>2. hosts \in Seq(Hosts \union {Blank})
      BY HostsAreListed DEF RInv, IInv
    <2>3. PICK m \in 1..read : hosts[m] = h
      BY <1>1, <2>2 DEF Contract!Listed
    <2>4. h # Blank
      BY ScanAssumption DEF Contract!Listed
    <2>5. h \in Seen
      BY <2>3, <2>4 DEF RInv, CollectedOK
    <2>6. DOMAIN ordered_hosts = Tasks
      BY <1>1 DEF RInv, IInv, TypeOK
    <2>7. QED
      BY <2>5, <2>6 DEF Seen
  <1>4. \A h \in Contract!Listed : Answers[h] # Contract!Pending
    BY <1>2, <1>3, NotPending
  <1>5. DOMAIN found = 1..Len(found)
    BY <1>1
  <1>6. \A n \in DOMAIN found : \E i \in Tasks :
           /\ root[i] # NoRoot /\ found[n].ip = ordered_hosts[i]
           /\ found[n].vendor = Vendor(root[i]) /\ root[i] \in Roots
    <2>1. TAKE n \in DOMAIN found
    <2>2. PICK i \in Tasks : root[i] # NoRoot /\ found[n] = Service(i)
      BY <1>1, <1>5 DEF RInv, FoundOK
    <2>3. QED
      BY <2>2, ServiceType DEF RInv, IInv
  <1>7. {found[n].ip : n \in DOMAIN found} = {h \in Contract!Listed : Answers[h] # NoRoot}
    <2>1. \A n \in DOMAIN found : found[n].ip \in Contract!Listed /\ Answers[found[n].ip] # NoRoot
      BY <1>2, <1>6
    <2>2. ASSUME NEW h \in Contract!Listed, Answers[h] # NoRoot
          PROVE  \E n \in DOMAIN found : found[n].ip = h
      <3>1. PICK i \in Tasks : ordered_hosts[i] = h
        BY <1>3
      <3>2. root[i] # NoRoot
        BY <1>2, <2>2, <3>1
      <3>3. QED
        BY <1>1, <1>5, <3>1, <3>2 DEF RInv, FoundOK
    <2>3. QED
      BY <2>1, <2>2
  <1>8. \A n \in DOMAIN found : found[n].vendor \in Contract!TrueVendors(Answers[found[n].ip])
    <2>1. TAKE n \in DOMAIN found
    <2>2. PICK i \in Tasks : /\ root[i] # NoRoot /\ found[n].ip = ordered_hosts[i]
                             /\ found[n].vendor = Vendor(root[i]) /\ root[i] \in Roots
      BY <1>6
    <2>3. Answers[found[n].ip] = root[i]
      BY <1>2, <2>2
    <2>4. Vendor(root[i]) \in Contract!TrueVendors(root[i])
      BY <2>2, VendorIsTrue
    <2>5. QED
      BY <2>2, <2>3, <2>4
  <1>9. \A h : \A m \in Nat : Mention(hosts, h, m) => Contract!FirstMention(h) = m
    <2>1. TAKE h
    <2>2. TAKE m \in Nat
    <2>3. HAVE Mention(hosts, h, m)
    <2>4. DOMAIN hosts = 1..Len(hosts)
      BY HostsAreListed DEF RInv, IInv
    <2>5. m \in DOMAIN hosts /\ hosts[m] = h /\ \A j \in 1..(m - 1) : hosts[j] # h
      BY <2>3, <2>4 DEF Mention
    <2>6. ASSUME NEW i \in DOMAIN hosts, hosts[i] = h, \A j \in 1..(i - 1) : hosts[j] # h
          PROVE  i = m
      BY <2>4, <2>5, <2>6
    <2>7. QED
      BY <2>5, <2>6 DEF Contract!FirstMention
  <1>10. ASSUME NEW m \in DOMAIN found, NEW n \in DOMAIN found, m < n
         PROVE  Contract!FirstMention(found[m].ip) < Contract!FirstMention(found[n].ip)
    <2>1. PICK i \in Tasks : found[m].ip = ordered_hosts[i]
      BY <1>6
    <2>2. PICK j \in Tasks : found[n].ip = ordered_hosts[j]
      BY <1>6
    <2>3. i < j
      BY <1>1, <1>5, <1>10, <2>1, <2>2 DEF RInv, FoundOK
    <2>4. PICK p \in 1..read : Mention(hosts, ordered_hosts[i], p)
      BY <1>1 DEF RInv, CollectedOK
    <2>5. PICK q \in 1..read : Mention(hosts, ordered_hosts[j], q)
      BY <1>1 DEF RInv, CollectedOK
    <2>6. p < q
      BY <1>1, <2>3, <2>4, <2>5 DEF RInv, CollectedOK
    <2>7. QED
      BY <1>9, <2>1, <2>2, <2>4, <2>5, <2>6
  <1>11. QED
    BY <1>4, <1>7, <1>8, <1>10 DEF Contract!Faithful

\* The steps that leave the answers and the report as they are.
LEMMA QuietRefines ==
    ASSUME RInv, Start \/ Collect \/ Launch \/ Keep \/ \E i \in Tasks : Begin(i),
           outcome' = outcome
    PROVE  UNCHANGED Contract!contractVars
  <1>1. hosts' = hosts /\ Report' = Report
    BY DEF Start, Collect, Launch, Keep, Begin, arguments, Report
  <1>2. CASE Start \/ Keep
    <2>1. UNCHANGED <<ordered_hosts, probe, root>>
      BY <1>2 DEF Start, Keep
    <2>2. \A h : AnsweredBy(h)' = AnsweredBy(h)
      BY <2>1 DEF AnsweredBy, Tasks
    <2>3. Answers' = Answers
      BY <1>1, <2>1, <2>2, AnswersKept
    <2>4. QED
      BY <1>1, <2>3 DEF Contract!contractVars
  <1>3. CASE Collect \/ Launch
    <2>1. probe = <<>> /\ \A i \in Tasks' : probe'[i] # "done"
      BY <1>3 DEF Collect, Launch, RInv, IInv, TasksOK, Tasks
    <2>2. \A h : AnsweredBy(h)' = {} /\ AnsweredBy(h) = {}
      BY <2>1 DEF AnsweredBy, Tasks
    <2>3. Answers' = Answers
      BY <1>1, <2>2, AnswersKept
    <2>4. QED
      BY <1>1, <2>3 DEF Contract!contractVars
  <1>4. CASE \E i \in Tasks : Begin(i)
    <2>1. PICK i \in Tasks : Begin(i)
      BY <1>4
    <2>2. /\ UNCHANGED <<ordered_hosts, root>> /\ probe[i] = "created"
          /\ \/ probe' = [probe EXCEPT ![i] = "probing"]
             \/ probe' = [probe EXCEPT ![i] = "waiting"]
      BY <2>1 DEF Begin
    <2>3. Tasks' = Tasks /\ \A j \in Tasks : probe'[j] = "done" <=> probe[j] = "done"
      BY <2>2 DEF RInv, IInv, TypeOK, Tasks
    <2>4. \A h : AnsweredBy(h)' = AnsweredBy(h)
      BY <2>2, <2>3 DEF AnsweredBy
    <2>5. Answers' = Answers
      BY <1>1, <2>2, <2>4, AnswersKept
    <2>6. QED
      BY <1>1, <2>5 DEF Contract!contractVars
  <1>5. QED
    BY <1>2, <1>3, <1>4

\* The steps that end the scan.
LEMMA EndRefines ==
    ASSUME RInv, Start \/ Launch \/ Gathered \/ Interrupt, outcome' # outcome
    PROVE  Contract!Next
  <1>1. hosts' = hosts /\ UNCHANGED <<ordered_hosts, probe, root>> /\ pc # "done"
    BY DEF Start, Launch, Gathered, Interrupt, arguments
  <1>2. \A h : AnsweredBy(h)' = AnsweredBy(h)
    BY <1>1 DEF AnsweredBy, Tasks
  <1>3. Answers' = Answers
    BY <1>1, <1>2, AnswersKept
  <1>4. outcome = Running /\ Report = Contract!Pending
    BY <1>1 DEF RInv, IInv, TasksOK, Report, Contract!Pending
  <1>5. CASE \E c : outcome' = Exit(c) \/ outcome' = Raised(c)
    <2>1. outcome' # Running /\ outcome'.kind # "services"
      BY <1>5 DEF Exit, Raised, Running
    <2>2. Report' = Contract!Failed
      BY <2>1 DEF Report, Contract!Failed
    <2>3. Contract!Fail
      BY <1>1, <1>3, <1>4, <2>2 DEF Contract!Fail
    <2>4. QED
      BY <2>3 DEF Contract!Next
  <1>6. ASSUME NEW s, outcome' = Services(s), Contract!Faithful(s),
               \A h \in Contract!Listed : Answers[h] # Contract!Pending
        PROVE  Contract!Next
    <2>1. outcome' # Running /\ outcome'.kind = "services" /\ outcome'.services = s
      BY <1>6 DEF Services, Running
    <2>2. Report' = outcome'
      BY <2>1 DEF Report
    <2>3. Contract!Finish
      BY <1>1, <1>3, <1>4, <1>6, <2>1, <2>2 DEF Contract!Finish
    <2>4. QED
      BY <2>3 DEF Contract!Next
  <1>7. CASE Start \/ Interrupt
    BY <1>5, <1>7 DEF Start, Interrupt, End
  <1>8. CASE Launch
    <2>1. outcome' = Services(<<>>) /\ ordered_hosts = <<>> /\ read = Len(hosts)
      BY <1>8 DEF Launch, End
    <2>2. Contract!Listed = {}
      <3>1. SUFFICES ASSUME NEW h \in Contract!Listed PROVE FALSE
        OBVIOUS
      <3>2. hosts \in Seq(Hosts \union {Blank})
        BY HostsAreListed DEF RInv, IInv
      <3>3. PICK m \in 1..read : hosts[m] = h
        BY <2>1, <3>1, <3>2 DEF Contract!Listed
      <3>4. h # Blank /\ Seen = {}
        BY <2>1, <3>1, ScanAssumption DEF Contract!Listed, Seen
      <3>5. QED
        BY <3>3, <3>4 DEF RInv, CollectedOK
    <2>3. Contract!Faithful(<<>>)
      BY <2>2 DEF Contract!Faithful
    <2>4. QED
      BY <1>6, <2>1, <2>2, <2>3
  <1>9. CASE Gathered
    <2>1. outcome' = Services(found) /\ pc = "gather" /\ Open = {} /\ taken = Len(probe)
      BY <1>9 DEF Gathered, End
    <2>2. QED
      BY <1>6, <2>1, FoundIsFaithful
  <1>10. QED
    BY <1>7, <1>8, <1>9

LEMMA StepRefines == RInv /\ [Next]_vars => [Contract!Next]_Contract!contractVars
  <1>. SUFFICES ASSUME RInv, [Next]_vars PROVE [Contract!Next]_Contract!contractVars
    OBVIOUS
  <1>1. CASE \E i \in Tasks : Answer(i)
    BY <1>1, AnswerRefines
  <1>2. CASE Start \/ Launch \/ Gathered \/ Interrupt
    <2>1. CASE outcome' = outcome
      <3>1. CASE Start \/ Launch
        BY <2>1, <3>1, QuietRefines
      <3>2. CASE Gathered \/ Interrupt
        <4>1. outcome' # Running
          BY <3>2 DEF Gathered, Interrupt, End, Services, Raised, Running
        <4>2. outcome = Running
          BY <3>2 DEF Gathered, Interrupt, RInv, IInv, TasksOK
        <4>3. QED
          BY <2>1, <4>1, <4>2
      <3>3. QED
        BY <1>2, <3>1, <3>2
    <2>2. CASE outcome' # outcome
      BY <1>2, <2>2, EndRefines
    <2>3. QED
      BY <2>1, <2>2
  <1>3. CASE Collect \/ Keep \/ \E i \in Tasks : Begin(i)
    <2>1. outcome' = outcome
      BY <1>3 DEF Collect, Keep, Begin
    <2>2. QED
      BY <1>3, <2>1, QuietRefines
  <1>4. CASE UNCHANGED vars
    <2>1. UNCHANGED <<hosts, ordered_hosts, probe, root, outcome>>
      BY <1>4 DEF vars
    <2>2. \A h : AnsweredBy(h)' = AnsweredBy(h)
      BY <2>1 DEF AnsweredBy, Tasks
    <2>3. Answers' = Answers /\ Report' = Report
      BY <2>1, <2>2, AnswersKept DEF Report
    <2>4. QED
      BY <2>1, <2>3 DEF Contract!contractVars
  <1>5. QED
    BY <1>1, <1>2, <1>3, <1>4 DEF Next, Steps

\* scanner.py:92-114, classifier.py:8-20: for every list and bound, whatever the
\* order of the answers, the scan keeps the promise of ScanContract.
THEOREM KeepsItsPromise == Spec => Promise
  <1>1. Spec => []RInv
    BY InitOrdered, NextOrdered, PTL DEF Spec
  <1>2. QED
    BY <1>1, InitRefines, StepRefines, PTL DEF Spec, Promise, Contract!Spec
=============================================================================
