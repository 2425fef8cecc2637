----------------------------- MODULE SubnetScan -----------------------------
(***************************************************************************)
(* redfish-discover: scan_subnet drops repeated and empty addresses, then  *)
(* runs one coroutine per host.  A coroutine asks its host only while it   *)
(* holds a slot of the semaphore; answers come in any order, late, or not  *)
(* at all; an interrupt may end the scan at any point.                     *)
(***************************************************************************)
EXTENDS Integers, Sequences, FiniteSets

CONSTANTS
    Hosts,          \* host addresses
    Blank,          \* the empty entry of a list
    Listings,       \* the host lists of the command line
    Concurrencies,  \* values of --concurrency
    Roots,          \* service roots: [oem, type, text], see Vendor
    VendorOf,       \* _OEM_KEY_TO_VENDOR: the vendor tag of a key
    TextWords,      \* the words of _TEXT_TOKENS, in the order they are tried
    TextVendorOf,   \* the vendor tag of each of them
    Mute            \* hosts whose probe may never come back

TextTokens == {TextWords[i] : i \in DOMAIN TextWords}

\* A root: the keys of its Oem block, the word its schema name starts with, the
\* tokens that occur in its free text.
ServiceRoots == [oem : Seq(STRING), type : STRING, text : SUBSET TextTokens]

ASSUME ScanAssumption ==
    /\ Blank \notin Hosts
    /\ Listings \subseteq Seq(Hosts \union {Blank})
    /\ Concurrencies \subseteq Int
    /\ Roots \subseteq ServiceRoots
    /\ TextWords \in Seq(STRING) /\ TextTokens = DOMAIN TextVendorOf
    /\ \A w \in DOMAIN VendorOf : VendorOf[w] # "none"
    /\ \A w \in DOMAIN TextVendorOf : TextVendorOf[w] # "none"
    /\ Mute \subseteq Hosts

VARIABLES
    hosts, concurrency,   \* the arguments
    pc,                   \* start | collect | gather | done
    read,                 \* how many entries of hosts the loop has seen
    ordered_hosts,        \* the local variable of scan_subnet
    probe,                \* state of the coroutine of each ordered host
    root,                 \* what get() gave each of them
    free,                 \* slots of the semaphore
    waiters,              \* its queue
    taken,                \* how many results have been looked at
    found,                \* the services among them
    outcome               \* what the command ends with

vars == <<hosts, concurrency, pc, read, ordered_hosts, probe, root, free, waiters,
          taken, found, outcome>>
arguments == <<hosts, concurrency>>
semaphore == <<free, waiters>>
result == <<taken, found>>

NoRoot == [kind |-> "no root"]
Tasks == DOMAIN probe
Seen == {ordered_hosts[i] : i \in DOMAIN ordered_hosts}
InFlight == {i \in Tasks : probe[i] = "probing"}
Waiting == {i \in Tasks : probe[i] = "waiting"}
Open == {i \in Tasks : probe[i] # "done"}

-----------------------------------------------------------------------------
(* classify_vendor: the first resolver that names a vendor wins *)

\* The tag of the first of the words that is known, "none" when there is none.
FirstTag(words, known, tag) ==
    LET at == {i \in DOMAIN words : words[i] \in known}
    IN  IF at = {} THEN "none" ELSE tag[words[CHOOSE i \in at : \A j \in at : i <= j]]

\* The first key of the Oem block that is known; a block that is no mapping
\* has no keys.
FromOem(r) == FirstTag(r.oem, DOMAIN VendorOf, VendorOf)

\* The word the schema name of @odata.type starts with.
FromType(r) == IF r.type \in DOMAIN VendorOf THEN VendorOf[r.type] ELSE "none"

\* Manufacturer and Vendor, lower-cased and joined: the first word that occurs.
FromText(r) == FirstTag(TextWords, r.text, TextVendorOf)

\* Mutant: the free text is consulted before the schema name.
VendorTextFirst(r) ==
    CASE FromOem(r) # "none" -> FromOem(r)
      [] FromOem(r) = "none" /\ FromText(r) # "none" -> FromText(r)
      [] FromOem(r) = "none" /\ FromText(r) = "none" ->
            IF FromType(r) # "none" THEN FromType(r) ELSE "generic"

Vendor(r) ==
    CASE FromOem(r) # "none" -> FromOem(r)
      [] FromOem(r) = "none" /\ FromType(r) # "none" -> FromType(r)
      [] FromOem(r) = "none" /\ FromType(r) = "none" ->
            IF FromText(r) # "none" THEN FromText(r) ELSE "generic"

Service(i) == [ip |-> ordered_hosts[i], vendor |-> Vendor(root[i])]

-----------------------------------------------------------------------------
(* The command and scan_subnet up to the coroutines *)

Running == [kind |-> "running"]
Exit(code) == [kind |-> "exit", code |-> code]
Raised(e) == [kind |-> "raise", exception |-> e]
Services(s) == [kind |-> "services", services |-> s]

Init ==
    /\ hosts \in Listings
    /\ concurrency \in Concurrencies
    /\ pc = "start"
    /\ read = 0
    /\ ordered_hosts = <<>>
    /\ probe = <<>>
    /\ root = <<>>
    /\ free = 0
    /\ waiters = <<>>
    /\ taken = 0
    /\ found = <<>>
    /\ outcome = Running

End(o) == pc' = "done" /\ outcome' = o

\* No host on the command line: exit code 2.  A bound below 1: ValueError.
Start ==
    /\ pc = "start"
    /\ \/ hosts = <<>> /\ End(Exit(2))
       \/ hosts # <<>> /\ concurrency < 1 /\ End(Raised("ValueError"))
       \/ hosts # <<>> /\ concurrency >= 1 /\ pc' = "collect" /\ UNCHANGED outcome
    /\ UNCHANGED <<arguments, read, ordered_hosts, probe, root, semaphore, result>>

\* One turn of the loop over hosts; the set seen holds what has been kept.
Collect ==
    /\ pc = "collect" /\ read < Len(hosts)
    /\ read' = read + 1
    /\ ordered_hosts' = IF hosts[read'] = Blank \/ hosts[read'] \in Seen THEN ordered_hosts
                        ELSE Append(ordered_hosts, hosts[read'])
    /\ UNCHANGED <<arguments, pc, probe, root, semaphore, result, outcome>>

\* Nothing left to ask: an empty result.  Else the semaphore and a coroutine
\* for each host.
Launch ==
    /\ pc = "collect" /\ read = Len(hosts)
    /\ \/ ordered_hosts = <<>> /\ End(Services(<<>>)) /\ UNCHANGED <<probe, root, semaphore>>
       \/ /\ ordered_hosts # <<>>
          /\ pc' = "gather"
          /\ probe' = [i \in 1..Len(ordered_hosts) |-> "created"]
          /\ root' = [i \in 1..Len(ordered_hosts) |-> NoRoot]
          /\ free' = concurrency
          /\ waiters' = <<>>
          /\ UNCHANGED outcome
    /\ UNCHANGED <<arguments, read, ordered_hosts, result>>

-----------------------------------------------------------------------------
(* The coroutines *)

\* Mutant: a coroutine does not wait when there is no slot.
BeginUnbounded(i) ==
    /\ pc = "gather" /\ probe[i] = "created"
    /\ \A j \in 1..(i - 1) : probe[j] # "created"
    /\ probe' = [probe EXCEPT ![i] = "probing"]
    /\ free' = free - 1
    /\ UNCHANGED <<arguments, pc, read, ordered_hosts, root, waiters, result, outcome>>

\* async with semaphore: take a slot or queue for one.  The event loop starts
\* the coroutines in the order of the list.
Begin(i) ==
    /\ pc = "gather" /\ probe[i] = "created"
    /\ \A j \in 1..(i - 1) : probe[j] # "created"
    /\ \/ /\ free > 0
          /\ probe' = [probe EXCEPT ![i] = "probing"]
          /\ free' = free - 1
          /\ UNCHANGED waiters
       \/ /\ free = 0
          /\ probe' = [probe EXCEPT ![i] = "waiting"]
          /\ waiters' = Append(waiters, i)
          /\ UNCHANGED free
    /\ UNCHANGED <<arguments, pc, read, ordered_hosts, root, result, outcome>>

\* Mutant: a probe that ends does not wake the next.
AnswerNoHandover(i) ==
    /\ pc = "gather" /\ probe[i] = "probing"
    /\ \E a \in Roots \union {NoRoot} : root' = [root EXCEPT ![i] = a]
    /\ probe' = [probe EXCEPT ![i] = "done"]
    /\ free' = free + 1
    /\ UNCHANGED <<arguments, pc, read, ordered_hosts, waiters, result, outcome>>

\* get() returns a usable root, something else, or raises; an exception is
\* swallowed.  Leaving the block hands the slot to the head of the queue.
Answer(i) ==
    /\ pc = "gather" /\ probe[i] = "probing"
    /\ \E a \in Roots \union {NoRoot} : root' = [root EXCEPT ![i] = a]
    /\ \/ /\ waiters = <<>>
          /\ probe' = [probe EXCEPT ![i] = "done"]
          /\ free' = free + 1
          /\ UNCHANGED waiters
       \/ /\ waiters # <<>>
          /\ probe' = [probe EXCEPT ![i] = "done", ![Head(waiters)] = "probing"]
          /\ waiters' = Tail(waiters)
          /\ UNCHANGED free
    /\ UNCHANGED <<arguments, pc, read, ordered_hosts, result, outcome>>

\* gather returns the results in the order of the coroutines; one turn of the
\* loop over them, which drops the hosts without a service.
Keep ==
    /\ pc = "gather" /\ Open = {} /\ taken < Len(probe)
    /\ taken' = taken + 1
    /\ found' = IF root[taken'] = NoRoot THEN found ELSE Append(found, Service(taken'))
    /\ UNCHANGED <<arguments, pc, read, ordered_hosts, probe, root, semaphore, outcome>>

\* The table of the services is rendered.
Gathered ==
    /\ pc = "gather" /\ Open = {} /\ taken = Len(probe)
    /\ End(Services(found))
    /\ UNCHANGED <<arguments, read, ordered_hosts, probe, root, semaphore, result>>

\* Ctrl-C: asyncio.run cancels gather and with it every coroutine.
Interrupt ==
    /\ pc # "done"
    /\ End(Raised("KeyboardInterrupt"))
    /\ UNCHANGED <<arguments, read, ordered_hosts, probe, root, semaphore, result>>

Steps ==
    \/ Start \/ Collect \/ Launch \/ Keep \/ Gathered
    \/ \E i \in Tasks : Begin(i)

Next ==
    \/ Steps
    \/ \E i \in Tasks : Answer(i)
    \/ Interrupt

Spec == Init /\ [][Next]_vars

\* The event loop runs what can run, and a host that is not mute is answered
\* for in the end, by an answer or by an exception of the fetcher.
FairSpec ==
    /\ Spec
    /\ WF_vars(Steps)
    /\ \A n \in 1..Cardinality(Hosts) :
          WF_vars(n \in Tasks /\ ordered_hosts[n] \notin Mute /\ Answer(n))
-----------------------------------------------------------------------------
(* Properties *)

\* The tags a service may carry.
Tags ==
    {VendorOf[w] : w \in DOMAIN VendorOf} \union {TextVendorOf[w] : w \in TextTokens}
        \union {"generic"}

\* Every variable keeps the type its code gives it.
TypeOK ==
    /\ hosts \in Listings /\ concurrency \in Concurrencies
    /\ pc \in {"start", "collect", "gather", "done"}
    /\ read \in 0..Len(hosts)
    /\ ordered_hosts \in Seq(Hosts)
    /\ probe \in Seq({"created", "waiting", "probing", "done"})
    /\ root \in Seq(Roots \union {NoRoot})
    /\ free \in Nat
    /\ waiters \in Seq(Nat)
    /\ taken \in Nat
    /\ found \in Seq([ip : Hosts, vendor : Tags])

\* scanner.py:84: never more probes under way than --concurrency allows.
BoundedProbes == Cardinality(InFlight) <= IF concurrency > 0 THEN concurrency ELSE 0

\* The slot of a finished probe is never lost: while a coroutine waits, every
\* slot is in use by a probe.
NoSlotIdle == Waiting # {} => Cardinality(InFlight) = concurrency

\* scanner.py:118-125: no address is kept twice, so no host is asked twice.
AskedOnce ==
    \A i, j \in 1..Len(ordered_hosts) : ordered_hosts[i] = ordered_hosts[j] => i = j

\* What the contract sees of the scan: the answers so far, and the result.
AnsweredBy(h) == {i \in Tasks : ordered_hosts[i] = h /\ probe[i] = "done"}

Answers ==
    [h \in {hosts[k] : k \in DOMAIN hosts} \intersect Hosts |->
        IF AnsweredBy(h) = {} THEN [kind |-> "pending"]
        ELSE root[CHOOSE i \in AnsweredBy(h) : TRUE]]

Report ==
    IF outcome = Running THEN [kind |-> "pending"]
    ELSE IF outcome.kind = "services" THEN outcome ELSE [kind |-> "failed"]

Contract == INSTANCE ScanContract WITH hosts <- hosts, answer <- Answers, report <- Report

\* scan_subnet keeps the promise of ScanContract: each host is asked once, none
\* that answered is lost, the order and the vendor are those of the docstrings.
Promise == Contract!Spec

\* Fewer mute hosts than slots cannot keep the others from being asked: all of
\* them are answered for, unless the user interrupts.
OthersNotStarved ==
    \A n \in 1..Cardinality(Hosts) :
       (/\ pc = "gather" /\ n \in Tasks /\ ordered_hosts[n] \notin Mute
        /\ Cardinality(Mute) < concurrency)
         ~> (pc = "done" \/ n \in Tasks \ Open)
=============================================================================
