--------------------------- MODULE SessionProofs ---------------------------
(***************************************************************************)
(* For every set of hosts, every registry and every program of the         *)
(* commands: one invocation reaches one host, the system an instance keeps *)
(* is right unless an answer of its own resolution was wrong, and what is  *)
(* bound stays bound.                                                      *)
(***************************************************************************)
EXTENDS Session, SequenceTheorems, TLAPS

\* Only the innermost execution is in the middle of a resolution.
OuterRest == \A k \in 2..Len(stack) : stack[k].get = "none"

\* The part of the Systems collection that has been looked at in vain.
Skipped(h, todo) ==
    \E n \in 0..Len(SystemsOf[h]) :
       /\ Len(todo) = Len(SystemsOf[h]) - n
       /\ \A k \in 1..Len(todo) : todo[k] = SystemsOf[h][n + k]
       /\ \A k \in 1..n : SystemsOf[h][k] \notin WithBios

\* What a resolution under way has found, as long as no answer was wrong.
FrameSound(f, h) ==
    /\ f.get # "none" => f.left # <<>>
    /\ ~f.fault =>
          /\ f.get \in {"systems", "probe"} => f.resolved = Link[h]
          /\ f.get = "probe" => Len(SystemsOf[h]) > 1 /\ Skipped(h, f.todo)

HeadSound == Running => FrameSound(stack[1], instances[stack[1].cls])

KeptHaveHost == \A c \in Classes : manage_servers[c] # None => instances[c] # None

\* As long as no other host held a class when the invocation began, every
\* class is free or held by the host that is meant.
NoOther == \A c \in Classes : call.before[c] \in {None, Meant}
OneHost ==
    /\ Running => call.cls # None
    /\ call.cls # None /\ NoOther =>
         /\ \A c \in Classes : instances[c] \in {None, Meant}
         /\ call.sent \subseteq {Meant}

IInv == TypeOK /\ OuterRest /\ HeadSound /\ KeptHaveHost /\ RootIsHost /\ OneHost

-----------------------------------------------------------------------------
(* Frames and the stack *)

LEMMA FrameParts ==
    ASSUME NEW f \in Frames
    PROVE  /\ f.cls \in Classes /\ f.left \in Seq(Operations)
           /\ f.get \in {"none", "managers", "links", "systems", "probe"}
           /\ f.resolved \in Systems \union {Nothing} /\ f.todo \in Seq(Systems)
           /\ f.fault \in BOOLEAN
  BY DEF Frames

LEMMA Advanced ==
    ASSUME NEW f \in Frames, f.left # <<>>
    PROVE  Advance(f) \in Frames /\ Advance(f).cls = f.cls /\ Advance(f).get = "none"
  <1>1. Tail(f.left) \in Seq(Operations)
    BY FrameParts
  <1>2. QED
    BY <1>1, FrameParts DEF Advance, Frames

LEMMA NewFrame ==
    ASSUME NEW c \in Classes
    PROVE  Frame(c) \in Frames /\ Frame(c).cls = c /\ Frame(c).get = "none"
  <1>1. Program[c] \in Seq(Operations)
    BY SessionAssumption
  <1>2. <<>> \in Seq(Systems)
    OBVIOUS
  <1>3. QED
    BY <1>1, <1>2 DEF Frame, Frames

LEMMA Top ==
    ASSUME TypeOK, Running
    PROVE  /\ frame = stack[1] /\ frame \in Frames /\ Len(stack) \in Nat \ {0}
           /\ self = stack[1].cls /\ self \in Registry /\ self \in Classes
           /\ host = instances[self] /\ host \in Hosts
           /\ Tail(stack) \in Seq(Frames) /\ Len(Tail(stack)) = Len(stack) - 1
           /\ \A k \in 1..Len(Tail(stack)) : Tail(stack)[k] = stack[k + 1]
  <1>1. stack \in Seq(Frames) /\ stack # <<>>
    BY DEF TypeOK, Running
  <1>2. frame = stack[1] /\ frame \in Frames /\ Len(stack) \in Nat \ {0}
    BY <1>1 DEF frame
  <1>3. self = stack[1].cls /\ self \in Registry /\ instances[self] # None
    BY <1>2 DEF TypeOK, self
  <1>4. self \in Classes
    BY <1>3, SessionAssumption
  <1>5. host = instances[self] /\ host \in Hosts
    BY <1>3, <1>4 DEF host, TypeOK
  <1>6. /\ Tail(stack) \in Seq(Frames) /\ Len(Tail(stack)) = Len(stack) - 1
        /\ \A k \in 1..Len(Tail(stack)) : Tail(stack)[k] = stack[k + 1]
    BY <1>1
  <1>7. QED
    BY <1>2, <1>3, <1>4, <1>5, <1>6

\* A frame on top of the rest.
LEMMA OnTop ==
    ASSUME NEW f \in Frames, NEW t \in Seq(Frames)
    PROVE  /\ <<f>> \o t \in Seq(Frames) /\ <<f>> \o t # <<>>
           /\ Len(<<f>> \o t) = Len(t) + 1 /\ Len(t) \in Nat
           /\ (<<f>> \o t)[1] = f
           /\ \A k \in 2..(Len(t) + 1) : (<<f>> \o t)[k] = t[k - 1]
  <1>1. <<f>> \in Seq(Frames) /\ Len(<<f>>) = 1 /\ <<f>>[1] = f /\ Len(t) \in Nat
    OBVIOUS
  <1>2. <<f>> \o t \in Seq(Frames) /\ Len(<<f>> \o t) = Len(t) + 1
    BY <1>1
  <1>3. (<<f>> \o t)[1] = f
    BY <1>1
  <1>4. \A k \in 2..(Len(t) + 1) : (<<f>> \o t)[k] = t[k - 1]
    BY <1>1
  <1>5. <<f>> \o t # <<>>
    BY <1>1, <1>2
  <1>6. QED
    BY <1>1, <1>2, <1>3, <1>4, <1>5

\* The classes of the stack have their instances.
StackTyped(s, inst) ==
    /\ s \in Seq(Frames)
    /\ \A k \in 1..Len(s) : s[k].cls \in Registry /\ inst[s[k].cls] # None

Rests(s) == \A k \in 2..Len(s) : s[k].get = "none"

LEMMA Replaced ==
    ASSUME TypeOK, OuterRest, Running, NEW f \in Frames, f.cls = self
    PROVE  LET s == <<f>> \o Tail(stack) IN
           /\ StackTyped(s, instances) /\ Rests(s) /\ s # <<>> /\ s[1] = f
  <1>. DEFINE t == Tail(stack)
  <1>1. t \in Seq(Frames) /\ Len(t) = Len(stack) - 1 /\ \A k \in 1..Len(t) : t[k] = stack[k + 1]
    BY Top
  <1>2. /\ <<f>> \o t \in Seq(Frames) /\ <<f>> \o t # <<>>
        /\ Len(<<f>> \o t) = Len(t) + 1 /\ Len(t) \in Nat
        /\ (<<f>> \o t)[1] = f
        /\ \A k \in 2..(Len(t) + 1) : (<<f>> \o t)[k] = t[k - 1]
    BY <1>1, OnTop
  <1>3. \A k \in 2..Len(stack) : (<<f>> \o t)[k] = stack[k]
    <2>1. TAKE k \in 2..Len(stack)
    <2>2. k - 1 \in 1..Len(t) /\ (k - 1) + 1 = k /\ k \in 2..(Len(t) + 1)
      BY <1>1, <1>2, Top
    <2>3. QED
      BY <1>1, <1>2, <2>2
  <1>4. Len(<<f>> \o t) = Len(stack) /\ Len(stack) \in Nat
    BY <1>1, <1>2, Top
  <1>5. self \in Registry /\ instances[self] # None
    BY Top DEF TypeOK
  <1>6. \A k \in 1..Len(stack) : (<<f>> \o t)[k].cls \in Registry /\ instances[(<<f>> \o t)[k].cls] # None
    <2>1. TAKE k \in 1..Len(stack)
    <2>2. CASE k = 1
      BY <1>2, <1>5, <2>2
    <2>3. CASE k # 1
      <3>1. k \in 2..Len(stack)
        BY <1>4, <2>3
      <3>2. QED
        BY <1>3, <3>1 DEF TypeOK
    <2>4. QED
      BY <2>2, <2>3
  <1>7. Rests(<<f>> \o t)
    BY <1>3, <1>4 DEF Rests, OuterRest
  <1>8. QED
    BY <1>2, <1>4, <1>6, <1>7 DEF StackTyped

StackSound ==
    /\ StackTyped(stack, instances) /\ OuterRest /\ HeadSound

\* A step of the innermost execution that goes on.
LEMMA PutKeeps ==
    ASSUME IInv, Running, NEW f \in Frames, f.cls = self, Put(f), UNCHANGED instances,
           FrameSound(f, host)
    PROVE  StackSound' /\ Running'
  <1>1. TypeOK /\ OuterRest
    BY DEF IInv
  <1>2. StackTyped(stack', instances) /\ Rests(stack') /\ stack' # <<>> /\ stack'[1] = f
    BY <1>1, Replaced DEF Put
  <1>3. OuterRest' /\ Running'
    BY <1>2 DEF Rests, OuterRest, Running
  <1>4. FrameSound(stack'[1], instances'[stack'[1].cls])
    BY <1>1, <1>2, Top
  <1>5. HeadSound'
    BY <1>3, <1>4 DEF HeadSound, FrameSound, Skipped
  <1>6. QED
    BY <1>2, <1>3, <1>5 DEF StackSound, StackTyped

\* What is left of the stack once the executions on top of it are gone.
LEMMA Suffix ==
    ASSUME TypeOK, OuterRest, Running, NEW m \in 2..Len(stack),
           stack' = SubSeq(stack, m, Len(stack)), UNCHANGED instances
    PROVE  StackSound'
  <1>. DEFINE n == Len(stack)
  <1>1. n \in Nat /\ stack \in Seq(Frames)
    BY DEF TypeOK
  <1>2. stack' \in Seq(Frames) /\ Len(stack') = n - m + 1
    BY <1>1
  <1>3. \A k \in 1..(n - m + 1) : stack'[k] = stack[k + m - 1]
    BY <1>1, <1>2
  <1>4. \A k \in 1..(n - m + 1) :
           /\ stack'[k].cls \in Registry /\ instances[stack'[k].cls] # None
           /\ stack'[k].get = "none"
    <2>1. TAKE k \in 1..(n - m + 1)
    <2>2. k + m - 1 \in 2..n
      BY <1>1
    <2>3. QED
      BY <1>3, <2>1, <2>2 DEF TypeOK, OuterRest
  <1>5. StackTyped(stack', instances')
    BY <1>2, <1>4 DEF StackTyped
  <1>6. OuterRest'
    BY <1>2, <1>4 DEF OuterRest
  <1>7. 1 \in 1..(n - m + 1)
    BY <1>1
  <1>8. HeadSound'
    BY <1>4, <1>7 DEF HeadSound, FrameSound
  <1>9. QED
    BY <1>5, <1>6, <1>8 DEF StackSound, StackTyped

LEMMA EmptyStack ==
    ASSUME stack' = <<>>
    PROVE  StackSound' /\ ~Running'
  <1>1. stack' \in Seq(Frames) /\ Len(stack') = 0
    OBVIOUS
  <1>2. QED
    BY <1>1 DEF StackSound, StackTyped, OuterRest, HeadSound, Running

LEMMA RaiseKeeps ==
    ASSUME IInv, Running, Raise, UNCHANGED instances
    PROVE  StackSound' /\ outcome' \in {"none", "returned", "raised"}
  <1>1. TypeOK /\ OuterRest
    BY DEF IInv
  <1>2. CASE stack' = <<>> /\ outcome' = "raised"
    BY <1>2, EmptyStack
  <1>3. CASE /\ \E m \in Catchers : stack' = SubSeq(stack, m, Len(stack))
             /\ UNCHANGED outcome
    <2>1. PICK m \in Catchers : stack' = SubSeq(stack, m, Len(stack))
      BY <1>3
    <2>2. m \in 2..Len(stack)
      BY DEF Catchers
    <2>3. StackSound'
      BY <1>1, <2>1, <2>2, Suffix
    <2>4. QED
      BY <1>1, <1>3, <2>3 DEF TypeOK
  <1>4. QED
    BY <1>2, <1>3 DEF Raise

-----------------------------------------------------------------------------
(* Requests, and what is kept *)

LEMMA SendsIsOneHost ==
    ASSUME IInv, Running, call' = call \/ Sends, UNCHANGED instances
    PROVE  /\ OneHost'
           /\ call' \in [asked : Hosts \union {None}, cls : Classes \union {None},
                         before : [Classes -> Hosts \union {None}], sent : SUBSET Hosts]
  <1>1. TypeOK /\ OneHost
    BY DEF IInv
  <1>2. self \in Classes /\ host = instances[self] /\ host \in Hosts /\ host # None
    BY <1>1, Top, SessionAssumption
  <1>3. call \in [asked : Hosts \union {None}, cls : Classes \union {None},
                  before : [Classes -> Hosts \union {None}], sent : SUBSET Hosts]
    BY <1>1 DEF TypeOK
  <1>4. /\ call'.asked = call.asked /\ call'.cls = call.cls /\ call'.before = call.before
        /\ call'.sent = call.sent \/ call'.sent = call.sent \union {host}
    BY <1>3 DEF Sends
  <1>5. call' \in [asked : Hosts \union {None}, cls : Classes \union {None},
                   before : [Classes -> Hosts \union {None}], sent : SUBSET Hosts]
    BY <1>2, <1>3 DEF Sends
  <1>6. Meant' = Meant /\ (NoOther' <=> NoOther)
    BY <1>4 DEF Meant, NoOther
  <1>7. call.cls # None
    BY <1>1 DEF OneHost
  <1>8. NoOther => host = Meant
    BY <1>1, <1>2, <1>7 DEF OneHost
  <1>9. OneHost'
    BY <1>1, <1>4, <1>6, <1>7, <1>8 DEF OneHost
  <1>10. QED
    BY <1>5, <1>9

\* Nothing that is kept is touched.
LEMMA KeepsRoots ==
    ASSUME IInv, UNCHANGED <<instances, manage_servers, tainted>>
    PROVE  KeptHaveHost' /\ RootIsHost'
  BY DEF IInv, KeptHaveHost, RootIsHost

\* The first system that has a Bios, counted.
LEMMA FirstOf ==
    ASSUME NEW h, NEW n \in Nat, n + 1 \in BiosAt(h),
           \A k \in 1..n : SystemsOf[h][k] \notin WithBios
    PROVE  FirstBios(h) = n + 1
  <1>1. \A k \in BiosAt(h) : n + 1 <= k
    BY DEF BiosAt
  <1>2. \A k \in BiosAt(h) : (\A j \in BiosAt(h) : k <= j) => k = n + 1
    BY <1>1 DEF BiosAt
  <1>3. QED
    BY <1>1, <1>2 DEF FirstBios

\* The system a sound resolution ends with.
LEMMA FoundAtHead ==
    ASSUME NEW h \in Hosts, NEW todo \in Seq(Systems), todo # <<>>, Head(todo) \in WithBios,
           Len(SystemsOf[h]) > 1, Skipped(h, todo)
    PROVE  HostSystem(h) = Head(todo)
  <1>1. SystemsOf[h] \in Seq(Systems)
    BY SessionAssumption
  <1>2. Len(SystemsOf[h]) \in Nat /\ Len(todo) \in Nat \ {0} /\ Head(todo) = todo[1]
    BY <1>1
  <1>3. PICK n \in 0..Len(SystemsOf[h]) :
           /\ Len(todo) = Len(SystemsOf[h]) - n
           /\ \A k \in 1..Len(todo) : todo[k] = SystemsOf[h][n + k]
           /\ \A k \in 1..n : SystemsOf[h][k] \notin WithBios
    BY DEF Skipped
  <1>4. n \in Nat /\ n + 1 \in 1..Len(SystemsOf[h]) /\ SystemsOf[h][n + 1] = Head(todo)
    BY <1>2, <1>3
  <1>5. n + 1 \in BiosAt(h)
    BY <1>4 DEF BiosAt
  <1>6. FirstBios(h) = n + 1
    BY <1>3, <1>4, <1>5, FirstOf
  <1>7. QED
    BY <1>4, <1>5, <1>6 DEF HostSystem

LEMMA FoundNone ==
    ASSUME NEW h \in Hosts, Skipped(h, <<>>)
    PROVE  HostSystem(h) = Link[h]
  <1>1. Len(SystemsOf[h]) \in Nat
    BY SessionAssumption
  <1>2. \A k \in 1..Len(SystemsOf[h]) : SystemsOf[h][k] \notin WithBios
    <2>1. Len(<<>>) = 0
      OBVIOUS
    <2>2. PICK n \in 0..Len(SystemsOf[h]) :
             /\ Len(<<>>) = Len(SystemsOf[h]) - n
             /\ \A k \in 1..n : SystemsOf[h][k] \notin WithBios
      BY DEF Skipped
    <2>3. n = Len(SystemsOf[h])
      BY <1>1, <2>1, <2>2
    <2>4. QED
      BY <2>2, <2>3
  <1>3. BiosAt(h) = {}
    BY <1>2 DEF BiosAt
  <1>4. QED
    BY <1>3 DEF HostSystem

LEMMA FoundSingle ==
    ASSUME NEW h \in Hosts, ~Several(SystemsOf[h])
    PROVE  HostSystem(h) = Link[h]
  BY DEF HostSystem, Several

\* One more system looked at in vain.
LEMMA SkippedOne ==
    ASSUME NEW h \in Hosts, NEW todo \in Seq(Systems), todo # <<>>, Head(todo) \notin WithBios,
           Skipped(h, todo)
    PROVE  Skipped(h, Tail(todo))
  <1>1. Len(SystemsOf[h]) \in Nat
    BY SessionAssumption
  <1>2. Len(todo) \in Nat \ {0} /\ Head(todo) = todo[1]
    OBVIOUS
  <1>3. Len(Tail(todo)) = Len(todo) - 1 /\ \A k \in 1..(Len(todo) - 1) : Tail(todo)[k] = todo[k + 1]
    BY <1>2
  <1>4. PICK n \in 0..Len(SystemsOf[h]) :
           /\ Len(todo) = Len(SystemsOf[h]) - n
           /\ \A k \in 1..Len(todo) : todo[k] = SystemsOf[h][n + k]
           /\ \A k \in 1..n : SystemsOf[h][k] \notin WithBios
    BY DEF Skipped
  <1>. DEFINE m == n + 1
  <1>5. m \in 0..Len(SystemsOf[h]) /\ Len(Tail(todo)) = Len(SystemsOf[h]) - m
    BY <1>1, <1>2, <1>3, <1>4
  <1>6. \A k \in 1..Len(Tail(todo)) : Tail(todo)[k] = SystemsOf[h][m + k]
    <2>1. TAKE k \in 1..Len(Tail(todo))
    <2>2. k + 1 \in 1..Len(todo) /\ k \in 1..(Len(todo) - 1) /\ n + (k + 1) = m + k
      BY <1>1, <1>2, <1>3, <1>4
    <2>3. QED
      BY <1>3, <1>4, <2>2
  <1>7. \A k \in 1..m : SystemsOf[h][k] \notin WithBios
    <2>1. SystemsOf[h][m] = Head(todo)
      <3>1. 1 \in 1..Len(todo)
        BY <1>2
      <3>2. todo[1] = SystemsOf[h][n + 1]
        BY <1>4, <3>1
      <3>3. QED
        BY <1>2, <3>2
    <2>2. TAKE k \in 1..m
    <2>3. k = m \/ k \in 1..n
      BY <1>1, <1>4
    <2>4. QED
      BY <1>4, <2>1, <2>3
  <1>8. QED
    BY <1>5, <1>6, <1>7 DEF Skipped

\* Keep: the instance had kept nothing before.
LEMMA KeepKeeps ==
    ASSUME IInv, Running, NEW system \in Systems \union {Nothing}, NEW fault \in BOOLEAN,
           Keep(system, fault), UNCHANGED instances,
           ~fault => system = HostSystem(host), frame.left # <<>>
    PROVE  /\ KeptHaveHost' /\ RootIsHost'
           /\ manage_servers' \in [Classes -> Systems \union {None, Nothing}]
           /\ tainted' \subseteq Classes
           /\ StackSound' /\ Running'
  <1>1. TypeOK /\ KeptHaveHost /\ RootIsHost
    BY DEF IInv
  <1>2. self \in Classes /\ host = instances[self] /\ host # None /\ frame \in Frames
    BY <1>1, Top, SessionAssumption
  <1>3. manage_servers \in [Classes -> Systems \union {None, Nothing}] /\ tainted \subseteq Classes
    BY <1>1 DEF TypeOK
  <1>4. /\ manage_servers' = [manage_servers EXCEPT ![self] = system]
        /\ tainted' = IF fault THEN tainted \union {self} ELSE tainted
    BY DEF Keep
  <1>5. KeptHaveHost'
    BY <1>1, <1>2, <1>3, <1>4 DEF KeptHaveHost
  <1>6. RootIsHost'
    BY <1>1, <1>2, <1>3, <1>4 DEF RootIsHost
  <1>7. Advance(frame) \in Frames /\ Advance(frame).cls = self /\ Advance(frame).get = "none"
    BY <1>2, Advanced DEF self
  <1>8. FrameSound(Advance(frame), host)
    BY <1>7 DEF FrameSound
  <1>9. StackSound' /\ Running'
    BY <1>7, <1>8, PutKeeps DEF Keep
  <1>10. QED
    BY <1>2, <1>3, <1>4, <1>5, <1>6, <1>9

-----------------------------------------------------------------------------
(* The steps *)

\* What a step inside an execution has to show once its requests are known to
\* go to one host.
LEMMA Assembled ==
    ASSUME IInv, Running, UNCHANGED instances, call' = call \/ Sends, StackSound',
           KeptHaveHost' /\ RootIsHost',
           members' \in [Classes -> {None, Nothing, "last", "collection"}],
           manage_servers' \in [Classes -> Systems \union {None, Nothing}],
           tainted' \subseteq Classes, faults' = faults \/ Fault, UNCHANGED calls,
           outcome' \in {"none", "returned", "raised"}
    PROVE  IInv'
  <1>1. TypeOK
    BY DEF IInv
  <1>2. /\ OneHost'
        /\ call' \in [asked : Hosts \union {None}, cls : Classes \union {None},
                      before : [Classes -> Hosts \union {None}], sent : SUBSET Hosts]
    BY SendsIsOneHost
  <1>3. faults' \in 0..MaxFaults
    BY <1>1, SessionAssumption DEF TypeOK, Fault
  <1>4. StackTyped(stack, instances)' /\ OuterRest' /\ HeadSound'
    BY DEF StackSound
  <1>5. instances' \in [Classes -> Hosts \union {None}] /\ calls' \in 0..MaxCalls
    BY <1>1 DEF TypeOK
  <1>6. TypeOK'
    BY <1>2, <1>3, <1>4, <1>5 DEF TypeOK, StackTyped
  <1>7. QED
    BY <1>2, <1>4, <1>6 DEF IInv

\* A step that neither keeps nor drops anything.
LEMMA Plain ==
    ASSUME IInv, Running, UNCHANGED <<instances, caches, calls>>, call' = call \/ Sends, StackSound',
           faults' = faults \/ Fault, outcome' \in {"none", "returned", "raised"}
    PROVE  IInv'
  <1>1. KeptHaveHost' /\ RootIsHost'
    BY KeepsRoots DEF caches
  <1>2. /\ members' \in [Classes -> {None, Nothing, "last", "collection"}]
        /\ manage_servers' \in [Classes -> Systems \union {None, Nothing}]
        /\ tainted' \subseteq Classes
    BY DEF IInv, TypeOK, caches
  <1>3. QED
    BY <1>1, <1>2, Assembled

LEMMA OutcomeType == IInv => outcome \in {"none", "returned", "raised"}
  BY DEF IInv, TypeOK

LEMMA ReturnInv == IInv /\ Return => IInv'
  <1>. SUFFICES ASSUME IInv, Return PROVE IInv'
    OBVIOUS
  <1>1. Running /\ stack' = Tail(stack) /\ UNCHANGED <<instances, caches, calls, faults, call>>
    BY DEF Return
  <1>2. TypeOK /\ OuterRest
    BY DEF IInv
  <1>3. StackSound'
    <2>. DEFINE n == Len(stack)
    <2>1. /\ stack' \in Seq(Frames) /\ Len(stack') = n - 1 /\ n \in Nat \ {0}
          /\ \A k \in 1..(n - 1) : stack'[k] = stack[k + 1]
      BY <1>1, <1>2, Top
    <2>2. \A k \in 1..(n - 1) :
             /\ stack'[k].cls \in Registry /\ instances[stack'[k].cls] # None
             /\ stack'[k].get = "none"
      <3>1. TAKE k \in 1..(n - 1)
      <3>2. k + 1 \in 2..n /\ k + 1 \in 1..n
        BY <2>1
      <3>3. stack[k + 1].get = "none"
        BY <1>2, <3>2 DEF OuterRest
      <3>4. stack[k + 1].cls \in Registry /\ instances[stack[k + 1].cls] # None
        BY <1>2, <3>2 DEF TypeOK
      <3>5. QED
        BY <2>1, <3>3, <3>4
    <2>3. StackTyped(stack', instances') /\ OuterRest'
      BY <1>1, <2>1, <2>2 DEF StackTyped, OuterRest
    <2>4. Running' => 1 \in 1..(n - 1)
      BY <2>1 DEF Running
    <2>5. HeadSound'
      BY <2>2, <2>4 DEF HeadSound, FrameSound
    <2>6. QED
      BY <2>3, <2>5 DEF StackSound, StackTyped
  <1>4. outcome' \in {"none", "returned", "raised"}
    BY OutcomeType DEF Return
  <1>5. QED
    BY <1>1, <1>3, <1>4, Plain

LEMMA SendInv == IInv /\ Send => IInv'
  <1>. SUFFICES ASSUME IInv, Send PROVE IInv'
    OBVIOUS
  <1>1. /\ Running /\ frame.left # <<>> /\ Sends /\ UNCHANGED <<instances, caches, calls>>
    BY DEF Send, At
  <1>2. CASE Put(Advance(frame)) /\ UNCHANGED <<faults, outcome>>
    <2>1. frame \in Frames /\ self = frame.cls
      BY <1>1, Top DEF IInv, self
    <2>2. Advance(frame) \in Frames /\ Advance(frame).cls = self /\ Advance(frame).get = "none"
      BY <1>1, <2>1, Advanced
    <2>3. FrameSound(Advance(frame), host)
      BY <2>2 DEF FrameSound
    <2>4. StackSound'
      BY <1>1, <1>2, <2>2, <2>3, PutKeeps
    <2>5. QED
      BY <1>1, <1>2, <2>4, Plain, OutcomeType
  <1>3. CASE Fault /\ Raise
    BY <1>1, <1>3, RaiseKeeps, Plain
  <1>4. QED
    BY <1>2, <1>3 DEF Send

LEMMA UseRootInv == IInv /\ UseRoot => IInv'
  <1>. SUFFICES ASSUME IInv, UseRoot PROVE IInv'
    OBVIOUS
  <1>1. Running /\ frame.left # <<>> /\ UNCHANGED <<instances, caches, calls, faults, call, outcome>>
    BY DEF UseRoot, At
  <1>2. frame \in Frames /\ self = frame.cls
    BY <1>1, Top DEF IInv, self
  <1>. DEFINE g == [frame EXCEPT !.get = IF members[self] = None THEN "managers" ELSE "links",
                                 !.resolved = Nothing, !.fault = FALSE]
  <1>3. CASE Kept
    <2>1. Advance(frame) \in Frames /\ Advance(frame).cls = self /\ Advance(frame).get = "none"
      BY <1>1, <1>2, Advanced
    <2>2. FrameSound(Advance(frame), host)
      BY <2>1 DEF FrameSound
    <2>3. StackSound'
      BY <1>1, <1>3, <2>1, <2>2, PutKeeps DEF UseRoot
    <2>4. QED
      BY <1>1, <2>3, Plain, OutcomeType
  <1>4. CASE ~Kept
    <2>1. g \in Frames /\ g.cls = self /\ g.get \in {"managers", "links"} /\ g.left = frame.left
      BY <1>2 DEF Frames
    <2>2. FrameSound(g, host)
      BY <1>1, <2>1 DEF FrameSound
    <2>3. StackSound'
      BY <1>1, <1>4, <2>1, <2>2, PutKeeps DEF UseRoot
    <2>4. QED
      BY <1>1, <2>3, Plain, OutcomeType
  <1>5. QED
    BY <1>3, <1>4

LEMMA GetManagersInv == IInv /\ GetManagers => IInv'
  <1>. SUFFICES ASSUME IInv, GetManagers PROVE IInv'
    OBVIOUS
  <1>1. /\ Running /\ frame.get = "managers" /\ Sends
        /\ UNCHANGED <<instances, manage_servers, tainted, calls>>
    BY DEF GetManagers, Getting
  <1>2. frame \in Frames /\ self = frame.cls /\ self \in Classes /\ frame.left # <<>>
    <2>1. FrameSound(frame, host)
      BY <1>1, Top DEF IInv, HeadSound
    <2>2. QED
      BY <1>1, <2>1, Top DEF IInv, self, FrameSound
  <1>3. members' \in [Classes -> {None, Nothing, "last", "collection"}]
    BY <1>2 DEF GetManagers, IInv, TypeOK
  <1>4. faults' = faults \/ Fault
    BY DEF GetManagers
  <1>5. StackSound' /\ outcome' \in {"none", "returned", "raised"}
    <2>1. ASSUME NEW g \in {[frame EXCEPT !.get = "links"],
                            [frame EXCEPT !.get = "links", !.fault = TRUE]},
                 Put(g), UNCHANGED outcome
          PROVE  StackSound' /\ outcome' \in {"none", "returned", "raised"}
      <3>1. g \in Frames /\ g.cls = self /\ g.get = "links" /\ g.left = frame.left
        BY <1>2, <2>1 DEF Frames
      <3>2. FrameSound(g, host)
        BY <1>2, <3>1 DEF FrameSound
      <3>3. QED
        BY <1>1, <2>1, <3>1, <3>2, PutKeeps, OutcomeType
    <2>2. CASE Raise
      BY <1>1, <2>2, RaiseKeeps
    <2>3. QED
      BY <2>1, <2>2 DEF GetManagers
  <1>6. KeptHaveHost' /\ RootIsHost'
    BY <1>1, KeepsRoots
  <1>7. manage_servers' \in [Classes -> Systems \union {None, Nothing}] /\ tainted' \subseteq Classes
    BY <1>1 DEF IInv, TypeOK
  <1>8. QED
    BY <1>1, <1>3, <1>4, <1>5, <1>6, <1>7, Assembled

LEMMA GetLinksInv == IInv /\ GetLinks => IInv'
  <1>. SUFFICES ASSUME IInv, GetLinks PROVE IInv'
    OBVIOUS
  <1>1. /\ Running /\ frame.get = "links" /\ (call' = call \/ Sends)
        /\ UNCHANGED <<instances, caches, calls>>
    BY DEF GetLinks, Getting
  <1>2. frame \in Frames /\ self = frame.cls /\ frame.left # <<>> /\ host \in Hosts
    <2>1. FrameSound(frame, host)
      BY <1>1, Top DEF IInv, HeadSound
    <2>2. QED
      BY <1>1, <2>1, Top DEF IInv, self, FrameSound
  <1>3. faults' = faults \/ Fault
    BY DEF GetLinks
  <1>4. StackSound' /\ outcome' \in {"none", "returned", "raised"}
    <2>1. CASE Put([frame EXCEPT !.get = "systems", !.resolved = Link[host]]) /\ UNCHANGED outcome
      <3>. DEFINE g == [frame EXCEPT !.get = "systems", !.resolved = Link[host]]
      <3>1. Link[host] \in Systems
        BY <1>2 DEF Systems
      <3>2. g \in Frames /\ g.cls = self /\ g.get = "systems" /\ g.left = frame.left /\ g.resolved = Link[host]
        BY <1>2, <3>1 DEF Frames
      <3>3. FrameSound(g, host)
        BY <1>2, <3>2 DEF FrameSound
      <3>4. QED
        BY <1>1, <2>1, <3>2, <3>3, PutKeeps, OutcomeType
    <2>2. CASE Put([frame EXCEPT !.get = "systems", !.fault = TRUE]) /\ UNCHANGED outcome
      <3>. DEFINE g == [frame EXCEPT !.get = "systems", !.fault = TRUE]
      <3>1. g \in Frames /\ g.cls = self /\ g.left = frame.left /\ g.fault
        BY <1>2 DEF Frames
      <3>2. FrameSound(g, host)
        BY <1>2, <3>1 DEF FrameSound
      <3>3. QED
        BY <1>1, <2>2, <3>1, <3>2, PutKeeps, OutcomeType
    <2>3. CASE Raise
      BY <1>1, <2>3, RaiseKeeps
    <2>4. QED
      BY <2>1, <2>2, <2>3 DEF GetLinks
  <1>5. QED
    BY <1>1, <1>3, <1>4, Plain

\* The head frame of a resolution.
LEMMA Resolving ==
    ASSUME IInv, Running, frame.get # "none"
    PROVE  /\ frame \in Frames /\ self = frame.cls /\ self \in Classes /\ frame.left # <<>>
           /\ host \in Hosts /\ FrameSound(frame, host)
           /\ frame.resolved \in Systems \union {Nothing} /\ frame.fault \in BOOLEAN
           /\ frame.todo \in Seq(Systems)
  <1>1. TypeOK /\ HeadSound
    BY DEF IInv
  <1>2. FrameSound(frame, host)
    BY <1>1, Top DEF HeadSound
  <1>3. frame \in Frames /\ self = frame.cls /\ self \in Classes /\ host \in Hosts
    BY <1>1, Top DEF self
  <1>4. frame.left # <<>>
    BY <1>2 DEF FrameSound
  <1>5. QED
    BY <1>2, <1>3, <1>4, FrameParts

LEMMA GetSystemsInv == IInv /\ GetSystems => IInv'
  <1>. SUFFICES ASSUME IInv, GetSystems PROVE IInv'
    OBVIOUS
  <1>1. /\ Running /\ frame.get = "systems" /\ Sends
        /\ UNCHANGED <<instances, members, calls, outcome>>
    BY DEF GetSystems, Getting
  <1>2. /\ frame \in Frames /\ self = frame.cls /\ self \in Classes /\ frame.left # <<>>
        /\ host \in Hosts /\ FrameSound(frame, host)
        /\ frame.resolved \in Systems \union {Nothing} /\ frame.fault \in BOOLEAN
    BY <1>1, Resolving
  <1>3. members' \in [Classes -> {None, Nothing, "last", "collection"}]
        /\ outcome' \in {"none", "returned", "raised"}
    BY <1>1 DEF IInv, TypeOK
  <1>4. ~frame.fault => frame.resolved = Link[host]
    BY <1>1, <1>2 DEF FrameSound
  <1>5. CASE /\ Several(SystemsOf[host])
             /\ Put([frame EXCEPT !.get = "probe", !.todo = SystemsOf[host]])
             /\ UNCHANGED <<manage_servers, tainted, faults>>
    <2>. DEFINE g == [frame EXCEPT !.get = "probe", !.todo = SystemsOf[host]]
    <2>1. SystemsOf[host] \in Seq(Systems) /\ Len(SystemsOf[host]) \in Nat
      BY <1>2, SessionAssumption
    <2>2. /\ g \in Frames /\ g.cls = self /\ g.left = frame.left /\ g.todo = SystemsOf[host]
          /\ g.fault = frame.fault /\ g.resolved = frame.resolved
      BY <1>2, <2>1 DEF Frames
    <2>3. Skipped(host, SystemsOf[host])
      <3>1. /\ 0 \in 0..Len(SystemsOf[host]) /\ Len(SystemsOf[host]) = Len(SystemsOf[host]) - 0
            /\ \A k \in 1..Len(SystemsOf[host]) : SystemsOf[host][k] = SystemsOf[host][0 + k]
            /\ \A k \in 1..0 : SystemsOf[host][k] \notin WithBios
        BY <2>1
      <3>2. QED
        BY <3>1 DEF Skipped
    <2>4. FrameSound(g, host)
      BY <1>2, <1>4, <1>5, <2>2, <2>3 DEF FrameSound, Several
    <2>5. StackSound'
      BY <1>1, <1>5, <2>2, <2>4, PutKeeps
    <2>6. KeptHaveHost' /\ RootIsHost'
      BY <1>1, <1>5, KeepsRoots
    <2>7. manage_servers' \in [Classes -> Systems \union {None, Nothing}] /\ tainted' \subseteq Classes
      BY <1>5 DEF IInv, TypeOK
    <2>8. QED
      BY <1>1, <1>3, <1>5, <2>5, <2>6, <2>7, Assembled
  <1>6. CASE ~Several(SystemsOf[host]) /\ Keep(frame.resolved, frame.fault) /\ UNCHANGED faults
    <2>1. ~frame.fault => frame.resolved = HostSystem(host)
      BY <1>2, <1>4, <1>6, FoundSingle
    <2>2. /\ KeptHaveHost' /\ RootIsHost' /\ StackSound'
          /\ manage_servers' \in [Classes -> Systems \union {None, Nothing}]
          /\ tainted' \subseteq Classes
      BY <1>1, <1>2, <1>6, <2>1, KeepKeeps
    <2>3. QED
      BY <1>1, <1>3, <1>6, <2>2, Assembled
  <1>7. CASE Fault /\ Keep(frame.resolved, TRUE)
    <2>1. /\ KeptHaveHost' /\ RootIsHost' /\ StackSound'
          /\ manage_servers' \in [Classes -> Systems \union {None, Nothing}]
          /\ tainted' \subseteq Classes
      BY <1>1, <1>2, <1>7, KeepKeeps
    <2>2. QED
      BY <1>1, <1>3, <1>7, <2>1, Assembled
  <1>8. QED
    BY <1>5, <1>6, <1>7 DEF GetSystems

LEMMA ProbeInv == IInv /\ Probe => IInv'
  <1>. SUFFICES ASSUME IInv, Probe PROVE IInv'
    OBVIOUS
  <1>1. /\ Running /\ frame.get = "probe" /\ (call' = call \/ Sends)
        /\ UNCHANGED <<instances, members, calls, outcome>>
        /\ (faults' = faults \/ Fault)
    BY DEF Probe, Getting
  <1>2. /\ frame \in Frames /\ self = frame.cls /\ self \in Classes /\ frame.left # <<>>
        /\ host \in Hosts /\ FrameSound(frame, host)
        /\ frame.resolved \in Systems \union {Nothing} /\ frame.fault \in BOOLEAN
        /\ frame.todo \in Seq(Systems)
    BY <1>1, Resolving
  <1>3. members' \in [Classes -> {None, Nothing, "last", "collection"}]
        /\ outcome' \in {"none", "returned", "raised"}
    BY <1>1 DEF IInv, TypeOK
  <1>4. ~frame.fault => /\ frame.resolved = Link[host] /\ Len(SystemsOf[host]) > 1
                        /\ Skipped(host, frame.todo)
    BY <1>1, <1>2 DEF FrameSound
  <1>5. ASSUME NEW system \in Systems \union {Nothing}, Keep(system, frame.fault),
               ~frame.fault => system = HostSystem(host)
        PROVE  IInv'
    <2>1. /\ KeptHaveHost' /\ RootIsHost' /\ StackSound'
          /\ manage_servers' \in [Classes -> Systems \union {None, Nothing}]
          /\ tainted' \subseteq Classes
      BY <1>1, <1>2, <1>5, KeepKeeps
    <2>2. QED
      BY <1>1, <1>3, <2>1, Assembled
  <1>6. ASSUME NEW g \in Frames, g.cls = self, FrameSound(g, host), Put(g),
               UNCHANGED <<manage_servers, tainted>>
        PROVE  IInv'
    <2>1. StackSound'
      BY <1>1, <1>6, PutKeeps
    <2>2. KeptHaveHost' /\ RootIsHost'
      BY <1>1, <1>6, KeepsRoots
    <2>3. manage_servers' \in [Classes -> Systems \union {None, Nothing}] /\ tainted' \subseteq Classes
      BY <1>6 DEF IInv, TypeOK
    <2>4. QED
      BY <1>1, <1>3, <2>1, <2>2, <2>3, Assembled
  <1>7. CASE frame.todo = <<>> /\ Keep(frame.resolved, frame.fault)
    <2>1. ~frame.fault => frame.resolved = HostSystem(host)
      BY <1>2, <1>4, <1>7, FoundNone
    <2>2. QED
      BY <1>2, <1>5, <1>7, <2>1
  <1>8. CASE frame.todo # <<>> /\ Head(frame.todo) \in WithBios /\ Keep(Head(frame.todo), frame.fault)
    <2>1. Head(frame.todo) \in Systems
      BY <1>2, <1>8
    <2>2. ~frame.fault => Head(frame.todo) = HostSystem(host)
      BY <1>2, <1>4, <1>8, FoundAtHead
    <2>3. QED
      BY <1>5, <1>8, <2>1, <2>2
  <1>9. Tail(frame.todo) \in Seq(Systems) \/ frame.todo = <<>>
    BY <1>2
  <1>10. CASE /\ frame.todo # <<>> /\ Head(frame.todo) \notin WithBios
              /\ Put([frame EXCEPT !.todo = Tail(@)]) /\ UNCHANGED <<manage_servers, tainted>>
    <2>. DEFINE g == [frame EXCEPT !.todo = Tail(@)]
    <2>1. /\ g \in Frames /\ g.cls = self /\ g.left = frame.left /\ g.todo = Tail(frame.todo)
          /\ g.fault = frame.fault /\ g.resolved = frame.resolved /\ g.get = "probe"
      BY <1>1, <1>2, <1>9, <1>10 DEF Frames
    <2>2. ~frame.fault => Skipped(host, Tail(frame.todo))
      BY <1>2, <1>4, <1>10, SkippedOne
    <2>3. FrameSound(g, host)
      BY <1>2, <1>4, <2>1, <2>2 DEF FrameSound
    <2>4. QED
      BY <1>6, <1>10, <2>1, <2>3
  <1>11. CASE /\ frame.todo # <<>> /\ Put([frame EXCEPT !.todo = Tail(@), !.fault = TRUE])
              /\ UNCHANGED <<manage_servers, tainted>>
    <2>. DEFINE g == [frame EXCEPT !.todo = Tail(@), !.fault = TRUE]
    <2>1. g \in Frames /\ g.cls = self /\ g.left = frame.left /\ g.fault
      BY <1>1, <1>2, <1>9, <1>11 DEF Frames
    <2>2. FrameSound(g, host)
      BY <1>2, <2>1 DEF FrameSound
    <2>3. QED
      BY <1>6, <1>11, <2>1, <2>2
  <1>12. QED
    BY <1>7, <1>8, <1>10, <1>11 DEF Probe

-----------------------------------------------------------------------------
(* Invocations *)

LEMMA BoundIs ==
    ASSUME TypeOK, NEW c \in Classes, NEW a \in Hosts
    PROVE  /\ Bound(c, a) \in [Classes -> Hosts \union {None}]
           /\ Bound(c, a)[c] # None
           /\ \A d \in Classes : instances[d] # None => Bound(c, a)[d] = instances[d]
           /\ \A d \in Classes : Bound(c, a)[d] \in {instances[d], a}
           /\ instances[c] = None => Bound(c, a)[c] = a
  <1>1. a # None /\ instances \in [Classes -> Hosts \union {None}]
    BY SessionAssumption DEF TypeOK
  <1>2. QED
    BY <1>1 DEF Bound

\* A class that gets its instance kept nothing before.
LEMMA BoundKeepsRoots ==
    ASSUME IInv, NEW c \in Classes, NEW a \in Hosts, instances' = Bound(c, a),
           UNCHANGED <<manage_servers, tainted>>
    PROVE  KeptHaveHost' /\ RootIsHost'
  <1>1. TypeOK /\ KeptHaveHost /\ RootIsHost
    BY DEF IInv
  <1>2. \A d \in Classes : instances[d] # None => instances'[d] = instances[d]
    BY <1>1, BoundIs
  <1>3. KeptHaveHost'
    BY <1>1, <1>2 DEF KeptHaveHost
  <1>4. RootIsHost'
    BY <1>1, <1>2 DEF KeptHaveHost, RootIsHost
  <1>5. QED
    BY <1>3, <1>4

LEMMA SyncInvokeInv == IInv /\ SyncInvoke => IInv'
  <1>. SUFFICES ASSUME IInv, SyncInvoke PROVE IInv'
    OBVIOUS
  <1>1. PICK address \in Hosts \union {None}, cls \in Classes :
           /\ call' = Began(address, cls)
           /\ \/ /\ address # None /\ cls \in Registry
                 /\ instances' = Bound(cls, address)
                 /\ stack' = <<Frame(cls)>>
                 /\ outcome' = "none"
              \/ /\ address = None \/ cls \notin Registry
                 /\ outcome' = "raised"
                 /\ UNCHANGED <<instances, stack>>
    BY DEF SyncInvoke
  <1>2. ~Running /\ calls < MaxCalls /\ calls' = calls + 1 /\ UNCHANGED <<caches, faults>>
    BY DEF SyncInvoke
  <1>3. TypeOK /\ KeptHaveHost /\ RootIsHost /\ cls # None
    BY SessionAssumption DEF IInv
  <1>4. calls' \in 0..MaxCalls /\ faults' \in 0..MaxFaults
    BY <1>2, <1>3, SessionAssumption DEF TypeOK
  <1>5. /\ members' \in [Classes -> {None, Nothing, "last", "collection"}]
        /\ manage_servers' \in [Classes -> Systems \union {None, Nothing}]
        /\ tainted' \subseteq Classes
    BY <1>2, <1>3 DEF TypeOK, caches
  <1>6. /\ call' = [asked |-> address, cls |-> cls, before |-> instances, sent |-> {}]
        /\ call' \in [asked : Hosts \union {None}, cls : Classes \union {None},
                      before : [Classes -> Hosts \union {None}], sent : SUBSET Hosts]
    BY <1>1, <1>3 DEF Began, TypeOK
  <1>7. Meant' = IF instances[cls] = None THEN address ELSE instances[cls]
    BY <1>6 DEF Meant
  <1>8. NoOther' => \A c \in Classes : instances[c] \in {None, Meant'}
    BY <1>6 DEF NoOther
  <1>9. CASE address # None /\ cls \in Registry /\ instances' = Bound(cls, address)
             /\ stack' = <<Frame(cls)>> /\ outcome' = "none"
    <2>1. address \in Hosts
      BY <1>9
    <2>2. /\ instances' \in [Classes -> Hosts \union {None}] /\ instances'[cls] # None
          /\ \A c \in Classes : instances[c] # None => instances'[c] = instances[c]
          /\ \A c \in Classes : instances'[c] \in {instances[c], address}
          /\ \A c \in Classes : instances'[c] # instances[c] => c = cls /\ instances[c] = None
      BY <1>3, <1>9, <2>1, BoundIs DEF Bound, TypeOK
    <2>3. Frame(cls) \in Frames /\ Frame(cls).cls = cls /\ Frame(cls).get = "none"
      BY NewFrame
    <2>4. stack' \in Seq(Frames) /\ Len(stack') = 1 /\ stack'[1] = Frame(cls)
      BY <1>9, <2>3
    <2>5. StackTyped(stack, instances)' /\ OuterRest'
      BY <1>9, <2>2, <2>3, <2>4 DEF StackTyped, OuterRest
    <2>6. HeadSound'
      BY <2>3, <2>4 DEF HeadSound, FrameSound
    <2>7. KeptHaveHost' /\ RootIsHost'
      BY <1>2, <1>9, <2>1, BoundKeepsRoots DEF caches
    <2>8. OneHost'
      <3>1. NoOther' => \A c \in Classes : instances'[c] \in {None, Meant'}
        BY <1>7, <1>8, <2>2
      <3>2. call'.cls # None /\ call'.sent = {}
        BY <1>3, <1>6
      <3>3. QED
        BY <3>1, <3>2 DEF OneHost
    <2>9. TypeOK'
      BY <1>4, <1>5, <1>6, <1>9, <2>2, <2>5 DEF TypeOK, StackTyped
    <2>10. QED
      BY <2>5, <2>6, <2>7, <2>8, <2>9 DEF IInv
  <1>10. CASE (address = None \/ cls \notin Registry) /\ outcome' = "raised" /\ UNCHANGED <<instances, stack>>
    <2>1. StackTyped(stack, instances)' /\ OuterRest' /\ HeadSound'
      BY <1>2, <1>10 DEF IInv, TypeOK, StackTyped, OuterRest, HeadSound, Running
    <2>2. KeptHaveHost' /\ RootIsHost'
      BY <1>2, <1>10, KeepsRoots DEF caches
    <2>3. OneHost'
      <3>1. call'.cls # None /\ call'.sent = {}
        BY <1>3, <1>6
      <3>2. QED
        BY <1>8, <1>10, <3>1 DEF OneHost
    <2>4. TypeOK'
      BY <1>3, <1>4, <1>5, <1>6, <1>10, <2>1 DEF TypeOK, StackTyped
    <2>5. QED
      BY <2>1, <2>2, <2>3, <2>4 DEF IInv
  <1>11. QED
    BY <1>1, <1>9, <1>10

LEMMA NestedInv == IInv /\ Nested => IInv'
  <1>. SUFFICES ASSUME IInv, Nested PROVE IInv'
    OBVIOUS
  <1>1. PICK cls \in Classes :
           /\ At(cls)
           /\ \/ /\ cls \in Registry
                 /\ instances' = Bound(cls, Invoker)
                 /\ stack' = <<Frame(cls), Advance(frame)>> \o Tail(stack)
                 /\ UNCHANGED outcome
              \/ /\ cls \notin Registry
                 /\ Raise
                 /\ UNCHANGED instances
    BY DEF Nested
  <1>2. Running /\ frame.left # <<>> /\ UNCHANGED <<caches, calls, faults, call>>
    BY <1>1 DEF Nested, At
  <1>3. TypeOK /\ OuterRest /\ OneHost
    BY DEF IInv
  <1>4. CASE cls \notin Registry /\ Raise /\ UNCHANGED instances
    BY <1>2, <1>4, RaiseKeeps, Plain
  <1>5. CASE /\ cls \in Registry /\ instances' = Bound(cls, Invoker)
             /\ stack' = <<Frame(cls), Advance(frame)>> \o Tail(stack) /\ UNCHANGED outcome
    <2>1. frame \in Frames /\ self = frame.cls /\ host \in Hosts /\ self \in Classes /\ host = instances[self] /\ host # None
      BY <1>2, <1>3, Top, SessionAssumption DEF self
    <2>2. instances' = Bound(cls, host)
      BY <1>5 DEF Invoker
    <2>3. /\ instances' \in [Classes -> Hosts \union {None}] /\ instances'[cls] # None
          /\ \A c \in Classes : instances[c] # None => instances'[c] = instances[c]
          /\ \A c \in Classes : instances'[c] \in {instances[c], host}
      BY <1>3, <2>1, <2>2, BoundIs
    <2>. DEFINE a == Advance(frame)  t == Tail(stack)  s == <<a>> \o t
    <2>4. a \in Frames /\ a.cls = self /\ a.get = "none"
      BY <1>2, <2>1, Advanced
    <2>5. Frame(cls) \in Frames /\ Frame(cls).cls = cls /\ Frame(cls).get = "none"
      BY NewFrame
    <2>6. StackTyped(s, instances) /\ Rests(s) /\ s # <<>> /\ s[1] = a
      BY <1>2, <1>3, <2>4, Replaced
    <2>7. stack' = <<Frame(cls)>> \o s
      <3>1. t \in Seq(Frames)
        BY <1>2, <1>3, Top
      <3>2. <<Frame(cls), a>> \o t = <<Frame(cls)>> \o (<<a>> \o t)
        <4>1. <<Frame(cls), a>> = <<Frame(cls)>> \o <<a>>
          OBVIOUS
        <4>2. <<Frame(cls)>> \in Seq(Frames) /\ <<a>> \in Seq(Frames)
          BY <2>4, <2>5
        <4>3. QED
          BY <3>1, <4>1, <4>2, ConcatAssociative
      <3>3. QED
        BY <1>5, <3>2
    <2>. HIDE DEF s
    <2>8. s \in Seq(Frames) /\ \A k \in 1..Len(s) : /\ s[k].get = "none" /\ s[k].cls \in Registry
                                                   /\ instances[s[k].cls] # None
      <3>1. s \in Seq(Frames) /\ Len(s) \in Nat
        BY <2>6 DEF StackTyped
      <3>2. \A k \in 1..Len(s) : k = 1 \/ k \in 2..Len(s)
        BY <3>1
      <3>3. QED
        BY <2>4, <2>6, <3>1, <3>2 DEF StackTyped, Rests
    <2>9. /\ stack' \in Seq(Frames) /\ stack' # <<>> /\ Len(stack') = Len(s) + 1 /\ Len(s) \in Nat
          /\ stack'[1] = Frame(cls) /\ \A k \in 2..(Len(s) + 1) : stack'[k] = s[k - 1]
      BY <2>5, <2>7, <2>8, OnTop
    <2>10. \A k \in 2..(Len(s) + 1) : /\ stack'[k].get = "none" /\ stack'[k].cls \in Registry
                                      /\ instances'[stack'[k].cls] # None
      <3>1. TAKE k \in 2..(Len(s) + 1)
      <3>2. k - 1 \in 1..Len(s) /\ stack'[k] = s[k - 1]
        BY <2>9
      <3>3. stack'[k].get = "none" /\ stack'[k].cls \in Registry /\ instances[stack'[k].cls] # None
        BY <2>8, <3>2
      <3>4. QED
        BY <2>3, <3>3, SessionAssumption
    <2>11. OuterRest'
      BY <2>9, <2>10 DEF OuterRest
    <2>12. StackTyped(stack, instances)'
      <3>1. \A k \in 1..Len(stack') : k = 1 \/ k \in 2..(Len(s) + 1)
        BY <2>9
      <3>2. QED
        BY <1>5, <2>3, <2>5, <2>9, <2>10, <3>1 DEF StackTyped
    <2>13. HeadSound'
      BY <2>5, <2>9 DEF HeadSound, FrameSound
    <2>14. KeptHaveHost' /\ RootIsHost'
      BY <1>2, <2>1, <2>2, BoundKeepsRoots DEF caches
    <2>15. OneHost'
      <3>1. Meant' = Meant /\ (NoOther' <=> NoOther) /\ call' = call
        BY <1>2 DEF Meant, NoOther
      <3>2. call.cls # None
        BY <1>2, <1>3 DEF OneHost
      <3>3. NoOther => host = Meant
        BY <1>3, <2>1, <3>2 DEF OneHost
      <3>4. NoOther => \A c \in Classes : instances'[c] \in {None, Meant}
        BY <1>3, <2>3, <3>2, <3>3 DEF OneHost
      <3>5. QED
        BY <1>3, <3>1, <3>2, <3>4 DEF OneHost
    <2>16. TypeOK'
      BY <1>2, <1>3, <1>5, <2>3, <2>12 DEF TypeOK, StackTyped, caches
    <2>17. QED
      BY <2>11, <2>12, <2>13, <2>14, <2>15, <2>16 DEF IInv
  <1>6. QED
    BY <1>1, <1>4, <1>5

-----------------------------------------------------------------------------
(* The theorems *)

LEMMA InitInv == Init => IInv
  <1>. SUFFICES ASSUME Init PROVE IInv
    OBVIOUS
  <1>1. stack \in Seq(Frames) /\ Len(stack) = 0 /\ ~Running
    BY DEF Init, Running
  <1>2. TypeOK
    BY <1>1, SessionAssumption DEF Init, TypeOK
  <1>3. OuterRest /\ HeadSound /\ KeptHaveHost /\ RootIsHost
    BY <1>1 DEF Init, OuterRest, HeadSound, KeptHaveHost, RootIsHost
  <1>4. OneHost
    BY <1>1 DEF Init, OneHost
  <1>5. QED
    BY <1>2, <1>3, <1>4 DEF IInv

LEMMA StutterInv == IInv /\ UNCHANGED vars => IInv'
  <1>. SUFFICES ASSUME IInv, UNCHANGED vars PROVE IInv'
    OBVIOUS
  <1>1. TypeOK' /\ OuterRest' /\ HeadSound'
    BY DEF IInv, vars, caches, TypeOK, OuterRest, HeadSound, Running
  <1>2. KeptHaveHost' /\ RootIsHost'
    BY KeepsRoots DEF vars, caches
  <1>3. OneHost'
    BY DEF IInv, vars, caches, OneHost, NoOther, Meant, Running
  <1>4. QED
    BY <1>1, <1>2, <1>3 DEF IInv

LEMMA NextInv == IInv /\ [Next]_vars => IInv'
  BY SyncInvokeInv, NestedInv, ReturnInv, SendInv, UseRootInv, GetManagersInv, GetLinksInv,
     GetSystemsInv, ProbeInv, StutterInv DEF Next, Resolve

LEMMA Invariance == Spec => []IInv
  BY InitInv, NextInv, PTL DEF Spec

\* Every variable keeps its type and every execution has its instance
\* (idrac_shared.py, class Singleton).
THEOREM TypeCorrect == Spec => []TypeOK
  <1>1. IInv => TypeOK
    BY DEF IInv
  <1>2. QED
    BY <1>1, Invariance, PTL

\* idrac_manager.py, sync_invoke and invoke: all requests of one invocation go
\* to the host its class was first invoked for, unless another host had taken
\* one of the classes before.
THEOREM OneHostPerCall == Spec => []Unmixed
  <1>1. IInv => Unmixed
    <2>1. SUFFICES ASSUME IInv, call.cls # None, \A c \in Classes : call.before[c] \in {None, Meant}
                   PROVE  call.sent \subseteq {Meant}
      BY DEF Unmixed
    <2>2. QED
      BY <2>1 DEF IInv, OneHost, NoOther
  <1>2. QED
    BY <1>1, Invariance, PTL

\* idrac_manager.py, idrac_manage_servers: a system that is kept is the host
\* system of the instance's own host, unless a GET of its resolution failed.
THEOREM RootRight == Spec => []RootIsHost
  <1>1. IInv => RootIsHost
    BY DEF IInv
  <1>2. QED
    BY <1>1, Invariance, PTL
=============================================================================
