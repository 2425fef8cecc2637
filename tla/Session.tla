------------------------------- MODULE Session -------------------------------
(***************************************************************************)
(* A process that uses the package as a library: managers of several       *)
(* hosts invoke registered commands, commands invoke one another, every    *)
(* command class has one instance in the process (Singleton), and each     *)
(* instance resolves the manager and the system of its host once and keeps *)
(* them (idrac_members, idrac_manage_servers).  Any GET may fail.          *)
(***************************************************************************)
EXTENDS Naturals, Sequences

CONSTANTS
    Hosts,          \* addresses
    Classes,        \* command classes
    Registry,       \* the ones registered under a name
    Program,        \* what execute of each class does, in order
    Catching,       \* classes that go on when a nested invocation raises
    Link,           \* the system the last manager of a host links to
    SystemsOf,      \* the Systems collection of a host
    WithBios,       \* the systems that have a Bios or Boot member
    None,           \* no host, nothing resolved yet
    Nothing,        \* a resolution that found nothing
    MaxCalls,       \* bound of the model: invocations by the managers
    MaxFaults       \* bound of the model: failed or incomplete answers

Systems == {Link[h] : h \in Hosts} \union UNION {{SystemsOf[h][k] : k \in 1..Len(SystemsOf[h])} : h \in Hosts}
Operations == Classes \union {"root", "send"}

ASSUME SessionAssumption ==
    /\ Registry \subseteq Classes /\ Catching \subseteq Classes
    /\ {"root", "send"} \intersect Classes = {}
    /\ Program \in [Classes -> Seq(Operations)]
    /\ \A h \in Hosts : SystemsOf[h] \in Seq(Systems)
    /\ None \notin Classes
    /\ None \notin Hosts \union Systems /\ Nothing \notin Systems /\ None # Nothing
    /\ MaxCalls \in Nat /\ MaxFaults \in Nat

VARIABLES
    instances,      \* Singleton._instances: the host each class was built with
    members,        \* the cached idrac_members of each instance
    manage_servers, \* the cached idrac_manage_servers of each instance
    stack,          \* the executions under way, innermost first
    calls, faults,
    tainted,        \* history: instances whose kept system comes of a fault
    call,           \* history: the current invocation, see Began
    outcome         \* how the last invocation of a manager ended

caches == <<members, manage_servers, tainted>>
vars == <<instances, caches, stack, calls, faults, call, outcome>>

-----------------------------------------------------------------------------
(* Executions *)

\* get: the GET of idrac_manage_servers that comes next, "none" outside it.
Frame(cls) ==
    [cls |-> cls, left |-> Program[cls], get |-> "none",
     resolved |-> Nothing, todo |-> <<>>, fault |-> FALSE]

frame == Head(stack)
self == frame.cls
host == instances[self]
Running == stack # <<>>
At(op) == Running /\ frame.get = "none" /\ frame.left # <<>> /\ Head(frame.left) = op
Getting(what) == Running /\ frame.get = what
Put(f) == stack' = <<f>> \o Tail(stack)
Advance(f) == [f EXCEPT !.left = Tail(@), !.get = "none"]

\* A request goes to the host the instance was built with.
Sends == call' = [call EXCEPT !.sent = @ \union {host}]

\* An exception ends every execution up to one that catches it.
Catchers == {k \in 2..Len(stack) : stack[k].cls \in Catching}

Raise ==
    \/ Catchers = {} /\ stack' = <<>> /\ outcome' = "raised"
    \/ /\ \E innermost \in Catchers :
             /\ \A k \in Catchers : innermost <= k
             /\ stack' = SubSeq(stack, innermost, Len(stack))
       /\ UNCHANGED outcome

Fault == faults < MaxFaults /\ faults' = faults + 1

-----------------------------------------------------------------------------
(* sync_invoke, invoke and Singleton *)

Bound(cls, address) ==
    [instances EXCEPT ![cls] = IF @ = None THEN address ELSE @]

\* Mutant: the address of the manager that started it all is handed on.
InvokerOfManager == call.asked

\* A nested invocation is handed the address of the instance that makes it.
Invoker == host

Init ==
    /\ instances = [c \in Classes |-> None]
    /\ members = [c \in Classes |-> None]
    /\ manage_servers = [c \in Classes |-> None]
    /\ tainted = {}
    /\ stack = <<>>
    /\ calls = 0 /\ faults = 0
    /\ call = [asked |-> None, cls |-> None, before |-> instances, sent |-> {}]
    /\ outcome = "none"

Began(address, cls) == [asked |-> address, cls |-> cls, before |-> instances, sent |-> {}]

\* sync_invoke of a manager; address is None for the one without an address
\* that create_cmd_tree makes.
SyncInvoke ==
    /\ ~Running /\ calls < MaxCalls
    /\ calls' = calls + 1
    /\ \E address \in Hosts \union {None}, cls \in Classes :
           /\ call' = Began(address, cls)
           /\ \/ /\ address # None /\ cls \in Registry
                 /\ instances' = Bound(cls, address)
                 /\ stack' = <<Frame(cls)>>
                 /\ outcome' = "none"
              \/ /\ address = None \/ cls \notin Registry
                 /\ outcome' = "raised"
                 /\ UNCHANGED <<instances, stack>>
    /\ UNCHANGED <<caches, faults>>

Nested ==
    /\ \E cls \in Classes :
           /\ At(cls)
           /\ \/ /\ cls \in Registry
                 /\ instances' = Bound(cls, Invoker)
                 /\ stack' = <<Frame(cls), Advance(frame)>> \o Tail(stack)
                 /\ UNCHANGED outcome
              \/ /\ cls \notin Registry
                 /\ Raise
                 /\ UNCHANGED instances
    /\ UNCHANGED <<caches, calls, faults, call>>

Return ==
    /\ Running /\ frame.get = "none" /\ frame.left = <<>>
    /\ stack' = Tail(stack)
    /\ outcome' = IF Tail(stack) = <<>> THEN "returned" ELSE outcome
    /\ UNCHANGED <<instances, caches, calls, faults, call>>

\* A request of the command itself.
Send ==
    /\ At("send")
    /\ Sends
    /\ \/ Put(Advance(frame)) /\ UNCHANGED <<faults, outcome>>
       \/ Fault /\ Raise
    /\ UNCHANGED <<instances, caches, calls>>

-----------------------------------------------------------------------------
(* idrac_manage_servers *)

Kept == manage_servers[self] # None

UseRoot ==
    /\ At("root")
    /\ Put(IF Kept THEN Advance(frame)
           ELSE [frame EXCEPT !.get = IF members[self] = None THEN "managers" ELSE "links",
                              !.resolved = Nothing, !.fault = FALSE])
    /\ UNCHANGED <<instances, caches, calls, faults, call, outcome>>

\* The last member; None of an empty list is kept too, and an answer without
\* Members gives the path of the collection itself.
GetManagers ==
    /\ Getting("managers")
    /\ Sends
    /\ \/ /\ members' = [members EXCEPT ![self] = "last"]
          /\ Put([frame EXCEPT !.get = "links"])
          /\ UNCHANGED <<faults, outcome>>
       \/ /\ Fault
          /\ \/ /\ \E m \in {Nothing, "collection"} : members' = [members EXCEPT ![self] = m]
                /\ Put([frame EXCEPT !.get = "links", !.fault = TRUE])
                /\ UNCHANGED outcome
             \/ Raise /\ UNCHANGED members
    /\ UNCHANGED <<instances, manage_servers, tainted, calls>>

\* There is no host "<address>None" to ask, and a collection has no Links.
GetLinks ==
    /\ Getting("links")
    /\ IF members[self] = Nothing THEN UNCHANGED call ELSE Sends
    /\ \/ /\ members[self] = "last"
          /\ Put([frame EXCEPT !.get = "systems", !.resolved = Link[host]])
          /\ UNCHANGED <<faults, outcome>>
       \/ /\ members[self] = "collection"
          /\ Put([frame EXCEPT !.get = "systems", !.fault = TRUE])
          /\ UNCHANGED <<faults, outcome>>
       \/ /\ members[self] = Nothing
          /\ Raise
          /\ UNCHANGED faults
       \/ /\ members[self] # Nothing
          /\ Fault
          /\ \/ Put([frame EXCEPT !.get = "systems", !.fault = TRUE]) /\ UNCHANGED outcome
             \/ Raise
    /\ UNCHANGED <<instances, caches, calls>>

\* Mutant: a system that was not found is looked for again.
KeepFound(system, fault) ==
    IF system = Nothing
    THEN Put([frame EXCEPT !.get = "links"]) /\ UNCHANGED <<manage_servers, tainted>>
    ELSE /\ manage_servers' = [manage_servers EXCEPT ![self] = system]
         /\ tainted' = IF fault THEN tainted \union {self} ELSE tainted
         /\ Put(Advance(frame))

Keep(system, fault) ==
    /\ manage_servers' = [manage_servers EXCEPT ![self] = system]
    /\ tainted' = IF fault THEN tainted \union {self} ELSE tainted
    /\ Put(Advance(frame))

\* Mutant: the link of the manager is good enough.
SeveralNever(systems) == FALSE

Several(systems) == Len(systems) > 1

\* A Systems collection that cannot be read counts as an empty one.
GetSystems ==
    /\ Getting("systems")
    /\ Sends
    /\ \/ /\ Several(SystemsOf[host])
          /\ Put([frame EXCEPT !.get = "probe", !.todo = SystemsOf[host]])
          /\ UNCHANGED <<manage_servers, tainted, faults>>
       \/ /\ ~Several(SystemsOf[host])
          /\ Keep(frame.resolved, frame.fault)
          /\ UNCHANGED faults
       \/ /\ Fault
          /\ Keep(frame.resolved, TRUE)
    /\ UNCHANGED <<instances, members, calls, outcome>>

\* _host_system: the first system that can be read and has a Bios or a Boot.
Probe ==
    /\ Getting("probe")
    /\ \/ /\ frame.todo = <<>>
          /\ Keep(frame.resolved, frame.fault)
          /\ UNCHANGED <<faults, call>>
       \/ /\ frame.todo # <<>> /\ Head(frame.todo) \in WithBios
          /\ Sends
          /\ Keep(Head(frame.todo), frame.fault)
          /\ UNCHANGED faults
       \/ /\ frame.todo # <<>> /\ Head(frame.todo) \notin WithBios
          /\ Sends
          /\ Put([frame EXCEPT !.todo = Tail(@)])
          /\ UNCHANGED <<manage_servers, tainted, faults>>
       \/ /\ frame.todo # <<>>
          /\ Sends
          /\ Fault
          /\ Put([frame EXCEPT !.todo = Tail(@), !.fault = TRUE])
          /\ UNCHANGED <<manage_servers, tainted>>
    /\ UNCHANGED <<instances, members, calls, outcome>>

Resolve == UseRoot \/ GetManagers \/ GetLinks \/ GetSystems \/ Probe

Next == SyncInvoke \/ Nested \/ Return \/ Send \/ Resolve

Spec == Init /\ [][Next]_vars

\* An execution that has begun goes on.
FairSpec == Spec /\ WF_vars(Nested \/ Return \/ Send \/ Resolve)

-----------------------------------------------------------------------------
(* Properties *)

Frames ==
    [cls : Classes, left : Seq(Operations), get : {"none", "managers", "links", "systems", "probe"},
     resolved : Systems \union {Nothing}, todo : Seq(Systems), fault : BOOLEAN]

\* Every variable keeps its type, and every execution under way belongs to a
\* class that has its instance.
TypeOK ==
    /\ instances \in [Classes -> Hosts \union {None}]
    /\ members \in [Classes -> {None, Nothing, "last", "collection"}]
    /\ manage_servers \in [Classes -> Systems \union {None, Nothing}]
    /\ tainted \subseteq Classes
    /\ stack \in Seq(Frames)
    /\ \A k \in 1..Len(stack) : stack[k].cls \in Registry /\ instances[stack[k].cls] # None
    /\ calls \in 0..MaxCalls /\ faults \in 0..MaxFaults
    /\ call \in [asked : Hosts \union {None}, cls : Classes \union {None},
                 before : [Classes -> Hosts \union {None}], sent : SUBSET Hosts]
    /\ outcome \in {"none", "returned", "raised"}

\* One invocation talks to one host.  It is the host its own class was first
\* invoked for, whatever manager invokes it now, as long as the classes it uses
\* were not taken by another host before: a nested invocation follows its
\* caller and not the manager.
Meant == IF call.before[call.cls] = None THEN call.asked ELSE call.before[call.cls]

Unmixed ==
    call.cls # None =>
       \/ call.sent \subseteq {Meant}
       \/ \E c \in Classes : call.before[c] \notin {None, Meant}

\* The system an instance keeps is the host system of its own host.  Any other
\* comes of a GET of that one resolution that failed or was answered without
\* what was looked for; a resolution that raised leaves nothing behind.
BiosAt(h) == {k \in 1..Len(SystemsOf[h]) : SystemsOf[h][k] \in WithBios}
FirstBios(h) == CHOOSE k \in BiosAt(h) : \A j \in BiosAt(h) : k <= j

HostSystem(h) ==
    IF Len(SystemsOf[h]) > 1 /\ BiosAt(h) # {} THEN SystemsOf[h][FirstBios(h)] ELSE Link[h]

RootIsHost ==
    \A c \in Classes :
       manage_servers[c] # None /\ c \notin tainted => manage_servers[c] = HostSystem(instances[c])

\* Every invocation of a manager comes back to it.
ComesBack == Running ~> ~Running
=============================================================================
