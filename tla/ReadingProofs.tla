---------------------------- MODULE ReadingProofs ----------------------------
(***************************************************************************)
(* What the two commands guarantee that read a whole controller, whatever  *)
(* fails.  Discovery, for every tree, bound and number of invocations: the *)
(* walk loses no reference, gives up only what is far, and implements      *)
(* CrawlContract.  The exporter, for any resources, clients and readings:  *)
(* its samples are fresh, a failure costs its own, the label stays.        *)
(***************************************************************************)
EXTENDS Discovery, Exporter, TLAPS

\* The paths of the calls still to be made.
Waiting(p) == \E k \in 1..Len(pending) : pending[k].spelling.path = p

\* Calls come from references of the root or of a saved document.
CallsOK == \A p \in Paths : Waiting(p) => \E q \in file_mapping \union {Root} : p \in Targets(q)

\* The marks: a resource asked for is marked, and a marked resource that is
\* part of the walk has been asked for.
MarksOK ==
    /\ \A p \in Paths : gets[p] \in {0, 1}
    /\ \A p \in Paths : gets[p] = 1 => Key(p) \in visited_urls
    /\ \A p \in Walkable : Key(p) \in visited_urls => gets[p] = 1
    /\ pc = "walk" => {Key(Root), Key(Composition)} \subseteq visited_urls
    /\ pc = "idle" => pending = <<>>

IInv == TypeOK /\ CallsOK /\ MarksOK /\ NothingForgotten

-----------------------------------------------------------------------------
(* Spellings, keys and calls *)

LEMMA Joined ==
    ASSUME NEW S, NEW s \in Seq(S), NEW t \in Seq(S)
    PROVE  /\ s \o t \in Seq(S) /\ Len(s \o t) = Len(s) + Len(t)
           /\ Len(s) \in Nat /\ Len(t) \in Nat
           /\ \A k \in 1..Len(s) : (s \o t)[k] = s[k]
           /\ \A k \in 1..Len(t) : (s \o t)[Len(s) + k] = t[k]
  <1>1. s \o t \in Seq(S) /\ Len(s \o t) = Len(s) + Len(t) /\ Len(s) \in Nat /\ Len(t) \in Nat
    OBVIOUS
  <1>2. \A k \in 1..Len(s) : (s \o t)[k] = s[k]
    BY <1>1
  <1>3. \A k \in 1..Len(t) : (s \o t)[Len(s) + k] = t[k]
    <2>1. TAKE k \in 1..Len(t)
    <2>2. Len(s) + k \in 1..(Len(s) + Len(t)) /\ ~(Len(s) + k <= Len(s)) /\ Len(s) + k - Len(s) = k
      BY <1>1
    <2>3. QED
      BY <2>2
  <1>4. QED
    BY <1>1, <1>2, <1>3

LEMMA KeysDiffer ==
    ASSUME NEW p, NEW q
    PROVE  Key(p) = Key(q) <=> p = q
  BY DEF Key

LEMMA NormalizeIsKey ==
    ASSUME NEW s \in Spelling
    PROVE  Normalize(s) = Key(s.path) /\ s.path \in Paths
  BY DiscoveryAssumption DEF Spelling, Normalize, Key

LEMMA TreeType ==
    ASSUME TypeOK, NEW p \in Paths
    PROVE  /\ tree[p] \in Seq(Spelling)
           /\ \A k \in 1..Len(tree[p]) : tree[p][k] \in Spelling
           /\ Targets(p) \subseteq Paths
  <1>1. tree \in [Paths -> Seq(Spelling)]
    BY DiscoveryAssumption DEF TypeOK
  <1>2. tree[p] \in Seq(Spelling)
    BY <1>1
  <1>3. \A k \in 1..Len(tree[p]) : tree[p][k] \in Spelling
    BY <1>2
  <1>4. QED
    BY <1>2, <1>3 DEF Targets, Spelling

LEMMA ReferencesType ==
    ASSUME TypeOK, NEW p \in Paths, NEW d \in Nat
    PROVE  /\ References(p, d) \in Seq(Calls)
           /\ Len(References(p, d)) = Len(tree[p])
           /\ \A k \in 1..Len(tree[p]) : References(p, d)[k].depth = d
           /\ \A k \in 1..Len(tree[p]) : References(p, d)[k].spelling = tree[p][k]
  <1>. DEFINE n == Len(tree[p])
  <1>1. n \in Nat /\ \A k \in 1..n : tree[p][k] \in Spelling
    BY TreeType
  <1>2. \A k \in 1..n : Call(tree[p][k], d) \in Calls
    BY <1>1 DEF Call, Calls
  <1>3. References(p, d) = [k \in 1..n |-> Call(tree[p][k], d)]
    BY DEF References
  <1>4. References(p, d) \in Seq(Calls) /\ Len(References(p, d)) = n
    BY <1>1, <1>2, <1>3
  <1>5. \A k \in 1..n : References(p, d)[k] = Call(tree[p][k], d)
    BY <1>3
  <1>6. \A s, e : Call(s, e).depth = e /\ Call(s, e).spelling = s
    BY DEF Call
  <1>7. QED
    BY <1>4, <1>5, <1>6

\* The call at the head of the list, and what is known of its path.
LEMMA HeadCall ==
    ASSUME TypeOK, pending # <<>>
    PROVE  /\ call \in Calls /\ call.depth \in Nat /\ call.depth <= MaxDepth + 1
           /\ path \in Paths /\ resource_path = Key(path)
           /\ Waiting(path)
           /\ call = pending[1] /\ Len(pending) \in Nat \ {0}
  <1>1. pending \in Seq(Calls) /\ Len(pending) \in Nat \ {0}
    BY DEF TypeOK
  <1>2. call = pending[1] /\ call \in Calls
    BY <1>1 DEF call
  <1>3. call.depth <= MaxDepth + 1
    BY <1>1, <1>2 DEF TypeOK
  <1>4. call.spelling \in Spelling /\ call.depth \in Nat
    BY <1>2 DEF Calls
  <1>5. resource_path = Key(call.spelling.path) /\ call.spelling.path \in Paths
    BY <1>4, NormalizeIsKey DEF resource_path
  <1>6. path = call.spelling.path
    BY <1>5 DEF path, Key
  <1>7. Waiting(path)
    BY <1>1, <1>2, <1>6 DEF Waiting
  <1>8. QED
    BY <1>1, <1>2, <1>3, <1>4, <1>5, <1>6, <1>7

\* Once the head is dropped, every other path that waited still waits.
LEMMA TailWaits ==
    ASSUME TypeOK, pending # <<>>
    PROVE  /\ Tail(pending) \in Seq(Calls) /\ Len(Tail(pending)) = Len(pending) - 1
           /\ \A k \in 1..Len(Tail(pending)) : Tail(pending)[k] = pending[k + 1]
           /\ \A p \in Paths : Waiting(p) =>
                 \/ p = path
                 \/ \E k \in 1..Len(Tail(pending)) : Tail(pending)[k].spelling.path = p
           /\ \A k \in 1..Len(Tail(pending)) : Tail(pending)[k].depth <= MaxDepth + 1
  <1>1. pending \in Seq(Calls) /\ Len(pending) \in Nat \ {0}
    BY DEF TypeOK
  <1>2. /\ Tail(pending) \in Seq(Calls) /\ Len(Tail(pending)) = Len(pending) - 1
        /\ \A k \in 1..Len(Tail(pending)) : Tail(pending)[k] = pending[k + 1]
    BY <1>1
  <1>3. path = pending[1].spelling.path
    <2>1. call = pending[1] /\ call \in Calls
      BY HeadCall
    <2>2. call.spelling \in Spelling
      BY <2>1 DEF Calls
    <2>3. Normalize(call.spelling) = Key(call.spelling.path)
      BY <2>2, NormalizeIsKey
    <2>4. QED
      BY <2>1, <2>3 DEF path, resource_path, Key
  <1>4. ASSUME NEW p \in Paths, Waiting(p), p # path
        PROVE  \E k \in 1..Len(Tail(pending)) : Tail(pending)[k].spelling.path = p
    <2>1. PICK k \in 1..Len(pending) : pending[k].spelling.path = p
      BY <1>4 DEF Waiting
    <2>2. k # 1
      BY <1>3, <1>4, <2>1
    <2>3. k - 1 \in 1..Len(Tail(pending)) /\ (k - 1) + 1 = k
      BY <1>1, <1>2, <2>1, <2>2
    <2>4. Tail(pending)[k - 1] = pending[k]
      BY <1>2, <2>3
    <2>5. QED
      BY <2>1, <2>3, <2>4
  <1>5. ASSUME NEW k \in 1..Len(Tail(pending))
        PROVE  Tail(pending)[k].depth <= MaxDepth + 1
    <2>1. k + 1 \in 1..Len(pending)
      BY <1>1, <1>2
    <2>2. QED
      BY <1>2, <2>1 DEF TypeOK
  <1>6. QED
    BY <1>2, <1>4, <1>5

-----------------------------------------------------------------------------
(* The invariant *)

LEMMA InitHolds == Init => IInv
  <1>. SUFFICES ASSUME Init PROVE IInv
    OBVIOUS
  <1>1. TypeOK
    BY DiscoveryAssumption DEF Init, TypeOK
  <1>2. CallsOK /\ MarksOK
    BY DEF Init, CallsOK, MarksOK, Waiting
  <1>3. NothingForgotten
    BY DEF Init, NothingForgotten
  <1>4. QED
    BY <1>1, <1>2, <1>3 DEF IInv

LEMMA ExecuteStep == IInv /\ (Execute \/ ExecuteFails) => IInv'
  <1>. SUFFICES ASSUME IInv, Execute \/ ExecuteFails PROVE IInv'
    OBVIOUS
  <1>1. CASE ExecuteFails
    <2>1. TypeOK'
      BY <1>1, DiscoveryAssumption DEF IInv, ExecuteFails, TypeOK
    <2>2. CallsOK' /\ MarksOK' /\ NothingForgotten'
      BY <1>1 DEF IInv, ExecuteFails, CallsOK, MarksOK, NothingForgotten, Waiting, Targets
    <2>3. QED
      BY <2>1, <2>2 DEF IInv
  <1>2. CASE Execute
    <2>. DEFINE refs == References(Root, 0)
    <2>1. Root \in Paths /\ Composition \in Paths /\ MaxDepth \in Nat /\ MaxRuns \in Nat
      BY DiscoveryAssumption
    <2>2. /\ refs \in Seq(Calls) /\ Len(refs) = Len(tree[Root])
          /\ \A k \in 1..Len(tree[Root]) : refs[k].depth = 0 /\ refs[k].spelling = tree[Root][k]
      BY <2>1, ReferencesType DEF IInv
    <2>3. /\ pending' = refs /\ tree' = tree /\ pc' = "walk" /\ pc = "idle" /\ runs' = runs + 1
          /\ visited_urls' = visited_urls \union {Key(Root), Key(Composition)}
          /\ UNCHANGED <<file_mapping, gets, cut, written>> /\ outcome' = "none" /\ runs < MaxRuns
      BY <1>2 DEF Execute
    <2>4. TypeOK'
      <3>1. \A k \in 1..Len(refs) : refs[k].depth <= MaxDepth + 1
        BY <2>1, <2>2
      <3>2. QED
        BY <2>1, <2>2, <2>3, <3>1 DEF IInv, TypeOK
    <2>5. \A p : Waiting(p)' => p \in Targets(Root)
      BY <2>2, <2>3 DEF Waiting, Targets
    <2>6. \A p \in Targets(Root) : Waiting(p)'
      BY <2>2, <2>3 DEF Waiting, Targets
    <2>7. CallsOK'
      BY <2>3, <2>5 DEF CallsOK, Targets
    <2>8. MarksOK'
      <3>1. \A p \in Walkable : Key(p) # Key(Root) /\ Key(p) # Key(Composition)
        BY KeysDiffer DEF Walkable
      <3>2. QED
        BY <2>3, <3>1 DEF IInv, MarksOK
    <2>9. NothingForgotten'
      <3>1. SUFFICES ASSUME NEW p \in file_mapping \union {Root}, NEW q \in Targets(p) \ Foreign
                     PROVE  Key(q) \in visited_urls' \/ q \in cut' \/ Waiting(q)'
        BY <2>3 DEF NothingForgotten, Waiting, Targets
      <3>2. CASE p = Root
        BY <2>6, <3>1, <3>2
      <3>3. CASE p # Root
        <4>1. pending = <<>>
          BY <2>3 DEF IInv, MarksOK
        <4>2. p \in file_mapping
          BY <3>1, <3>3
        <4>3. Key(q) \in visited_urls \/ q \in cut
          BY <3>1, <4>1, <4>2 DEF IInv, NothingForgotten
        <4>4. QED
          BY <2>3, <4>3
      <3>4. QED
        BY <3>2, <3>3
    <2>10. QED
      BY <2>4, <2>7, <2>8, <2>9 DEF IInv
  <1>3. QED
    BY <1>1, <1>2

LEMMA SaveStep == IInv /\ Save => IInv'
  <1>. SUFFICES ASSUME IInv, Save PROVE IInv'
    OBVIOUS
  <1>1. TypeOK'
    BY DEF IInv, Save, TypeOK
  <1>2. CallsOK' /\ MarksOK'
    BY DEF IInv, Save, CallsOK, MarksOK, Waiting, Targets
  <1>3. NothingForgotten'
    BY DEF IInv, Save, NothingForgotten, Targets
  <1>4. QED
    BY <1>1, <1>2, <1>3 DEF IInv

\* What the three ways to drop the head and a failed visit have in common.
LEMMA DropKeeps ==
    ASSUME IInv, pc = "walk", pending # <<>>, pending' = Tail(pending), pc' = pc,
           UNCHANGED <<walked, file_mapping>>,
           visited_urls' \in {visited_urls, visited_urls \union {Key(path)}},
           cut' \in {cut, cut \union {path}},
           path \in Foreign \/ Key(path) \in visited_urls' \/ path \in cut',
           gets' \in [Paths -> Nat]
    PROVE  TypeOK' /\ CallsOK' /\ NothingForgotten'
  <1>1. path \in Paths /\ Root \in Paths
    BY HeadCall, DiscoveryAssumption DEF IInv
  <1>2. /\ pending' \in Seq(Calls)
        /\ \A k \in 1..Len(pending') : pending'[k] = pending[k + 1] /\ k + 1 \in 1..Len(pending)
        /\ \A k \in 1..Len(pending') : pending'[k].depth <= MaxDepth + 1
        /\ \A p \in Paths : Waiting(p) => p = path \/ Waiting(p)'
    <2>1. Len(pending) \in Nat
      BY HeadCall DEF IInv
    <2>2. QED
      BY <2>1, TailWaits DEF IInv, Waiting
  <1>3. \A p : Waiting(p)' => Waiting(p)
    BY <1>2 DEF Waiting
  <1>4. tree' = tree
    BY DEF walked
  <1>5. TypeOK'
    BY <1>1, <1>2 DEF IInv, TypeOK, walked
  <1>6. CallsOK'
    BY <1>3, <1>4 DEF IInv, CallsOK, Targets
  <1>7. NothingForgotten'
    <2>1. SUFFICES ASSUME NEW p \in file_mapping \union {Root}, NEW q \in Targets(p) \ Foreign
                   PROVE  Key(q) \in visited_urls' \/ q \in cut' \/ Waiting(q)'
      BY <1>4 DEF NothingForgotten, Waiting, Targets
    <2>2. Key(q) \in visited_urls \/ q \in cut \/ Waiting(q)
      BY DEF IInv, NothingForgotten, Waiting
    <2>3. q \in Paths
      <3>1. p \in Paths
        BY <1>1 DEF IInv, TypeOK
      <3>2. QED
        BY <3>1, TreeType DEF IInv
    <2>4. QED
      BY <1>2, <2>2, <2>3
  <1>8. QED
    BY <1>5, <1>6, <1>7

LEMMA DropStep == IInv /\ (DropDeep \/ DropFiltered \/ DropIgnored) => IInv'
  <1>. SUFFICES ASSUME IInv, DropDeep \/ DropFiltered \/ DropIgnored PROVE IInv'
    OBVIOUS
  <1>1. /\ pc = "walk" /\ pending # <<>> /\ pending' = Tail(pending) /\ pc' = pc
        /\ UNCHANGED <<walked, file_mapping, gets>>
    BY DEF DropDeep, DropFiltered, DropIgnored, Return
  <1>2. resource_path = Key(path) /\ path \in Paths
    BY <1>1, HeadCall DEF IInv
  <1>3. /\ visited_urls' \in {visited_urls, visited_urls \union {Key(path)}}
        /\ cut' \in {cut, cut \union {path}}
        /\ path \in Foreign \/ Key(path) \in visited_urls' \/ path \in cut'
        /\ visited_urls' # visited_urls => path \in Filtered
    BY <1>2 DEF DropDeep, DropFiltered, DropIgnored, Skipped, Ignored
  <1>4. gets' \in [Paths -> Nat]
    BY <1>1 DEF IInv, TypeOK
  <1>5. TypeOK' /\ CallsOK' /\ NothingForgotten'
    BY <1>1, <1>3, <1>4, DropKeeps
  <1>6. MarksOK'
    <2>1. \A p \in Walkable : p \notin Filtered
      BY DEF Walkable
    <2>2. \A p \in Walkable : Key(p) \in visited_urls' => Key(p) \in visited_urls
      BY <1>3, <2>1, KeysDiffer
    <2>3. QED
      BY <1>1, <1>3, <2>2 DEF IInv, MarksOK
  <1>7. QED
    BY <1>5, <1>6 DEF IInv

\* A resource that is asked for has not been asked for before.
LEMMA GetStep ==
    ASSUME IInv, pc = "walk", pending # <<>>, pc' = pc, Get,
           visited_urls' = visited_urls \union {resource_path}
    PROVE  /\ path \in Walkable /\ gets[path] = 0 /\ gets' = [gets EXCEPT ![path] = 1]
           /\ resource_path = Key(path) /\ path \in Paths
           /\ gets' \in [Paths -> Nat]
           /\ MarksOK'
  <1>1. resource_path = Key(path) /\ path \in Paths
    BY HeadCall DEF IInv
  <1>2. path \notin Filtered /\ path \notin Foreign /\ Key(path) \notin visited_urls
    BY <1>1 DEF Get, Skipped, Ignored
  <1>3. path # Root /\ path # Composition
    BY <1>2 DEF IInv, MarksOK
  <1>4. path \in Walkable
    BY <1>1, <1>2, <1>3 DEF Walkable
  <1>5. gets \in [Paths -> Nat] /\ gets[path] = 0
    BY <1>1, <1>2 DEF IInv, MarksOK, TypeOK
  <1>6. gets' = [gets EXCEPT ![path] = 1]
    BY <1>1, <1>5 DEF Get
  <1>7. \A p \in Paths : gets'[p] = IF p = path THEN 1 ELSE gets[p]
    BY <1>5, <1>6
  <1>8. \A p \in Paths : Key(p) \in visited_urls' <=> Key(p) \in visited_urls \/ p = path
    BY <1>1, KeysDiffer
  <1>9. Walkable \subseteq Paths
    BY DEF Walkable
  <1>10. MarksOK'
    BY <1>7, <1>8, <1>9 DEF IInv, MarksOK
  <1>11. QED
    BY <1>1, <1>4, <1>5, <1>6, <1>10

LEMMA FailStep == IInv /\ VisitFails => IInv'
  <1>. SUFFICES ASSUME IInv, VisitFails PROVE IInv'
    OBVIOUS
  <1>1. /\ pc = "walk" /\ pending # <<>> /\ pending' = Tail(pending) /\ pc' = pc
        /\ UNCHANGED <<walked, file_mapping, cut>> /\ Get
        /\ visited_urls' = visited_urls \union {resource_path}
    BY DEF VisitFails, Return, Get
  <1>2. resource_path = Key(path) /\ gets' \in [Paths -> Nat] /\ MarksOK'
    BY <1>1, GetStep
  <1>3. TypeOK' /\ CallsOK' /\ NothingForgotten'
    BY <1>1, <1>2, DropKeeps
  <1>4. QED
    BY <1>2, <1>3 DEF IInv

LEMMA VisitStep == IInv /\ Visit => IInv'
  <1>. SUFFICES ASSUME IInv, Visit PROVE IInv'
    OBVIOUS
  <1>. DEFINE refs == References(path, call.depth + 1)
              rest == Tail(pending)
  <1>1. /\ pc = "walk" /\ pending # <<>> /\ pending' = refs \o rest /\ pc' = pc
        /\ UNCHANGED <<walked, cut>> /\ Get /\ file_mapping' = file_mapping \union {path}
        /\ visited_urls' = visited_urls \union {resource_path}
    BY DEF Visit, Return, Get
  <1>2. /\ resource_path = Key(path) /\ gets' \in [Paths -> Nat] /\ MarksOK' /\ path \in Paths
    BY <1>1, GetStep
  <1>3. call.depth \in Nat /\ call.depth <= MaxDepth /\ MaxDepth \in Nat
    BY <1>1, HeadCall, DiscoveryAssumption DEF IInv, Get, TooDeep
  <1>4. /\ refs \in Seq(Calls) /\ Len(refs) = Len(tree[path])
        /\ \A k \in 1..Len(tree[path]) :
              refs[k].depth = call.depth + 1 /\ refs[k].spelling = tree[path][k]
    <2>1. call.depth + 1 \in Nat
      BY <1>3
    <2>2. QED
      BY <1>2, <2>1, ReferencesType DEF IInv
  <1>5. /\ rest \in Seq(Calls)
        /\ \A k \in 1..Len(rest) : rest[k] = pending[k + 1] /\ k + 1 \in 1..Len(pending)
        /\ \A k \in 1..Len(rest) : rest[k].depth <= MaxDepth + 1
        /\ \A p \in Paths : Waiting(p) =>
              p = path \/ \E k \in 1..Len(rest) : rest[k].spelling.path = p
    <2>1. Len(pending) \in Nat
      BY <1>1, HeadCall DEF IInv
    <2>2. QED
      BY <1>1, <2>1, TailWaits DEF IInv
  <1>6. /\ pending' \in Seq(Calls) /\ Len(pending') = Len(refs) + Len(rest)
        /\ Len(refs) \in Nat /\ Len(rest) \in Nat
        /\ \A k \in 1..Len(refs) : pending'[k] = refs[k]
        /\ \A k \in 1..Len(rest) : pending'[Len(refs) + k] = rest[k]
    <2>. HIDE DEF refs, rest
    <2>1. pending' = refs \o rest /\ refs \in Seq(Calls) /\ rest \in Seq(Calls)
      BY <1>1, <1>4, <1>5
    <2>2. QED
      BY <2>1, Joined
  <1>7. \A k \in 1..Len(pending') :
           \/ k \in 1..Len(refs) /\ pending'[k] = refs[k]
           \/ \E m \in 1..Len(rest) : pending'[k] = rest[m]
    <2>. HIDE DEF refs, rest
    <2>1. TAKE k \in 1..Len(pending')
    <2>2. CASE k > Len(refs)
      <3>1. k - Len(refs) \in 1..Len(rest) /\ Len(refs) + (k - Len(refs)) = k
        BY <1>6, <2>2
      <3>2. QED
        BY <1>6, <3>1
    <2>3. CASE ~(k > Len(refs))
      BY <1>6, <2>3
    <2>4. QED
      BY <2>2, <2>3
  <1>8. tree' = tree
    BY <1>1 DEF walked
  <1>9. TypeOK'
    <2>1. \A k \in 1..Len(pending') : pending'[k].depth <= MaxDepth + 1
      <3>1. \A k \in 1..Len(refs) : refs[k].depth <= MaxDepth + 1
        BY <1>3, <1>4
      <3>2. QED
        BY <1>5, <1>7, <3>1
    <2>2. visited_urls' \subseteq {Key(p) : p \in Paths} /\ file_mapping' \subseteq Paths
      BY <1>1, <1>2 DEF IInv, TypeOK
    <2>3. QED
      BY <1>1, <1>2, <1>6, <2>1, <2>2 DEF IInv, TypeOK, walked
  <1>10. \A p \in Targets(path) : Waiting(p)'
    <2>1. TAKE p \in Targets(path)
    <2>2. PICK k \in 1..Len(tree[path]) : p = tree[path][k].path
      BY DEF Targets
    <2>3. k \in 1..Len(refs) /\ refs[k].spelling = tree[path][k]
      BY <1>4, <2>2
    <2>4. k \in 1..Len(pending') /\ pending'[k] = refs[k]
      <3>. HIDE DEF refs, rest
      <3>1. QED
        BY <1>6, <2>3
    <2>5. QED
      BY <2>2, <2>3, <2>4 DEF Waiting
  <1>11. \A p \in Paths : Waiting(p) => p = path \/ Waiting(p)'
    <2>1. SUFFICES ASSUME NEW p \in Paths, Waiting(p), p # path PROVE Waiting(p)'
      OBVIOUS
    <2>2. PICK k \in 1..Len(rest) : rest[k].spelling.path = p
      BY <1>5, <2>1
    <2>3. Len(refs) + k \in 1..Len(pending') /\ pending'[Len(refs) + k] = rest[k]
      BY <1>6, <2>2
    <2>4. QED
      BY <2>2, <2>3 DEF Waiting
  <1>12. \A p \in Paths : Waiting(p)' => Waiting(p) \/ p \in Targets(path)
    <2>1. SUFFICES ASSUME NEW p \in Paths, Waiting(p)' PROVE Waiting(p) \/ p \in Targets(path)
      OBVIOUS
    <2>2. PICK k \in 1..Len(pending') : pending'[k].spelling.path = p
      BY <2>1 DEF Waiting
    <2>3. CASE k \in 1..Len(refs) /\ pending'[k] = refs[k]
      BY <1>4, <2>2, <2>3 DEF Targets
    <2>4. CASE \E m \in 1..Len(rest) : pending'[k] = rest[m]
      BY <1>5, <2>2, <2>4 DEF Waiting
    <2>5. QED
      BY <1>7, <2>3, <2>4
  <1>13. CallsOK'
    BY <1>1, <1>8, <1>12 DEF IInv, CallsOK, Targets
  <1>14. NothingForgotten'
    <2>1. SUFFICES ASSUME NEW p \in file_mapping \union {path, Root}, NEW q \in Targets(p) \ Foreign
                   PROVE  Key(q) \in visited_urls' \/ q \in cut' \/ Waiting(q)'
      <3>1. (file_mapping \union (IF pc = "walk" THEN {Root} ELSE {}))'
               \subseteq file_mapping \union {path, Root}
        BY <1>1
      <3>2. \A p : Targets(p)' = Targets(p)
        BY <1>8 DEF Targets
      <3>3. \A p \in file_mapping \union {path, Root} : \A q \in Targets(p)' \ Foreign :
               Key(q) \in visited_urls' \/ q \in cut' \/ Waiting(q)'
        BY <2>1, <3>2
      <3>4. QED
        BY <3>1, <3>3 DEF NothingForgotten, Waiting
    <2>2. CASE p = path
      BY <1>10, <2>1, <2>2
    <2>3. CASE p # path
      <3>1. p \in file_mapping \union {Root}
        BY <2>1, <2>3
      <3>2. Key(q) \in visited_urls \/ q \in cut \/ Waiting(q)
        BY <1>1, <2>1, <3>1 DEF IInv, NothingForgotten, Waiting
      <3>3. q \in Paths
        <4>1. p \in Paths
          BY <3>1, DiscoveryAssumption DEF IInv, TypeOK
        <4>2. QED
          BY <2>1, <4>1, TreeType DEF IInv
      <3>4. QED
        BY <1>1, <1>2, <1>11, <3>2, <3>3
    <2>4. QED
      BY <2>2, <2>3
  <1>15. QED
    BY <1>2, <1>9, <1>13, <1>14 DEF IInv

LEMMA NextStep == IInv /\ [Next]_vars => IInv'
  <1>. SUFFICES ASSUME IInv, [Next]_vars PROVE IInv'
    OBVIOUS
  <1>1. CASE Execute \/ ExecuteFails
    BY <1>1, ExecuteStep
  <1>2. CASE Save
    BY <1>2, SaveStep
  <1>3. CASE DropDeep \/ DropFiltered \/ DropIgnored
    BY <1>3, DropStep
  <1>4. CASE Visit
    BY <1>4, VisitStep
  <1>5. CASE VisitFails
    BY <1>5, FailStep
  <1>6. CASE UNCHANGED vars
    <2>1. TypeOK' /\ CallsOK' /\ MarksOK'
      BY <1>6 DEF IInv, vars, TypeOK, CallsOK, MarksOK, Waiting, Targets
    <2>2. NothingForgotten'
      BY <1>6 DEF IInv, vars, NothingForgotten, Targets
    <2>3. QED
      BY <2>1, <2>2 DEF IInv
  <1>7. QED
    BY <1>1, <1>2, <1>3, <1>4, <1>5, <1>6 DEF Next, Walk

LEMMA Invariance == Spec => []IInv
  <1>1. QED
    BY InitHolds, NextStep, PTL DEF Spec

\* Every variable keeps its type, and the walk stays within one level of the
\* bound (cmd_discovery.py:138).
THEOREM TypeCorrect == Spec => []TypeOK
  <1>1. IInv => TypeOK
    BY DEF IInv
  <1>2. QED
    BY <1>1, Invariance, PTL

\* cmd_discovery.py:175-180: no failure in the recursion loses a reference.
THEOREM LosesNothing == Spec => []NothingForgotten
  <1>1. IInv => NothingForgotten
    BY DEF IInv
  <1>2. QED
    BY <1>1, Invariance, PTL

-----------------------------------------------------------------------------
(* The refinement *)

\* What the contract knows of: the walkable references of saved documents.
LEMMA KnownIs ==
    ASSUME IInv
    PROVE  \A q \in Walkable :
              q \in Crawl!Known <=> \E p \in file_mapping \union {Root} : q \in Targets(p)
  <1>1. file_mapping \union {Root} \subseteq Paths
    BY DiscoveryAssumption DEF IInv, TypeOK
  <1>2. Crawl!Known = (UNION {Targets(p) : p \in file_mapping \union {Root}}) \intersect Walkable
    BY <1>1 DEF Crawl!Known
  <1>3. QED
    BY <1>2

LEMMA InitRefines == Init => Crawl!Init
  <1>. SUFFICES ASSUME Init PROVE Crawl!Init
    OBVIOUS
  <1>1. TypeOK
    BY InitHolds DEF IInv
  <1>2. \A p \in Paths : Targets(p) \subseteq Paths
    BY <1>1, TreeType
  <1>3. [p \in Paths |-> Targets(p)] \in [Paths -> SUBSET Paths]
    BY <1>2
  <1>4. QED
    BY <1>3 DEF Init, Crawl!Init

LEMMA TargetsKept == tree' = tree => [p \in Paths |-> Targets(p)]' = [p \in Paths |-> Targets(p)]
  BY DEF Targets

LEMMA GetRefines ==
    ASSUME IInv, pc = "walk", pending # <<>>, pc' = pc, Get,
           visited_urls' = visited_urls \union {resource_path},
           file_mapping' \in {file_mapping, file_mapping \union {path}}
    PROVE  Crawl!Next
  <1>1. path \in Walkable /\ gets[path] = 0 /\ gets' = [gets EXCEPT ![path] = 1] /\ path \in Paths
    BY GetStep
  <1>2. Waiting(path)
    BY HeadCall DEF IInv
  <1>3. path \in Crawl!Known
    BY <1>1, <1>2, KnownIs DEF IInv, CallsOK
  <1>4. UNCHANGED <<tree, cut, written>>
    BY DEF Get, walked
  <1>5. Crawl!Get(path)
    BY <1>1, <1>3, <1>4, TargetsKept DEF Crawl!Get
  <1>6. QED
    BY <1>1, <1>5 DEF Crawl!Next

LEMMA SaveRefines == IInv /\ Save => [Crawl!Next]_Crawl!contractVars
  <1>. SUFFICES ASSUME IInv, Save PROVE [Crawl!Next]_Crawl!contractVars
    OBVIOUS
  <1>1. pc = "walk" /\ pending = <<>> /\ UNCHANGED <<tree, file_mapping, gets, cut>>
    BY DEF Save
  <1>2. CASE written' = file_mapping
    <2>1. ASSUME NEW q \in Crawl!Known PROVE gets[q] = 1 \/ q \in cut
      <3>1. q \in Walkable /\ \E p \in file_mapping \union {Root} : q \in Targets(p)
        BY <2>1, KnownIs DEF Crawl!Known
      <3>2. PICK p \in file_mapping \union {Root} : q \in Targets(p) \ Foreign
        BY <3>1 DEF Walkable
      <3>3. Key(q) \in visited_urls \/ q \in cut \/ Waiting(q)
        BY <1>1, <3>2 DEF IInv, NothingForgotten, Waiting
      <3>4. ~Waiting(q)
        BY <1>1 DEF Waiting
      <3>5. QED
        BY <3>1, <3>3, <3>4 DEF IInv, MarksOK
    <2>2. Crawl!Write
      BY <1>1, <1>2, <2>1, TargetsKept DEF Crawl!Write
    <2>3. QED
      BY <2>2 DEF Crawl!Next
  <1>3. CASE written' = written
    BY <1>1, <1>3, TargetsKept DEF Crawl!contractVars
  <1>4. QED
    BY <1>2, <1>3 DEF Save

LEMMA StepRefines == IInv /\ [Next]_vars => [Crawl!Next]_Crawl!contractVars
  <1>. SUFFICES ASSUME IInv, [Next]_vars PROVE [Crawl!Next]_Crawl!contractVars
    OBVIOUS
  <1>1. CASE Execute \/ ExecuteFails \/ DropFiltered \/ DropIgnored \/ UNCHANGED vars
    <2>1. UNCHANGED <<tree, gets, file_mapping, cut, written>>
      BY <1>1 DEF Execute, ExecuteFails, DropFiltered, DropIgnored, vars, walked
    <2>2. QED
      BY <2>1, TargetsKept DEF Crawl!contractVars
  <1>2. CASE DropDeep
    <2>1. path \in Paths
      BY <1>2, HeadCall DEF IInv, DropDeep, Return
    <2>2. cut' = cut \union {path} /\ UNCHANGED <<tree, gets, file_mapping, written>>
      BY <1>2 DEF DropDeep, walked
    <2>3. Crawl!GiveUp(path)
      BY <2>1, <2>2, TargetsKept DEF Crawl!GiveUp
    <2>4. QED
      BY <2>1, <2>3 DEF Crawl!Next
  <1>3. CASE Visit
    BY <1>3, GetRefines DEF Visit, Return
  <1>4. CASE VisitFails
    BY <1>4, GetRefines DEF VisitFails, Return
  <1>5. CASE Save
    BY <1>5, SaveRefines
  <1>6. QED
    BY <1>1, <1>2, <1>3, <1>4, <1>5 DEF Next, Walk

\* The walk implements the contract: each resource is asked for once, only
\* when a saved document refers to it, and the map is written when none is
\* left (cmd_discovery.py:120-182, 213-230).
THEOREM Implements == Spec => Contract
  <1>1. Spec => []IInv
    BY Invariance
  <1>2. QED
    BY <1>1, InitRefines, StepRefines, PTL DEF Spec, Contract, Crawl!Spec

-----------------------------------------------------------------------------
(* What is given up at the bound *)

\* A chain of references leads to q at this depth, along visited resources.
Reached(q, depth) ==
    \E c \in Chains(depth + 1) :
       c[depth + 1] = q /\ \A i \in 1..depth : Key(c[i]) \in visited_urls

\* The depth of a call is the length of the chain that led to it.
DepthsOK ==
    \A k \in 1..Len(pending), q \in Paths \ {Root}, d \in Nat :
       pending[k].spelling.path = q /\ pending[k].depth = d => Reached(q, d)

\* What a step leaves of a chain: the tree never changes and marks stay.
LEMMA ChainsKept == tree' = tree => \A n : Chains(n)' = Chains(n)
  <1>1. tree' = tree => \A p : Targets(p)' = Targets(p)
    BY DEF Targets
  <1>2. QED
    BY <1>1 DEF Chains

LEMMA ReachedKept ==
    ASSUME NEW q, NEW d, Reached(q, d), tree' = tree, visited_urls \subseteq visited_urls'
    PROVE  Reached(q, d)'
  BY ChainsKept DEF Reached

LEMMA FarKept == OnlyFarIsCut /\ UNCHANGED <<tree, cut>> => OnlyFarIsCut'
  BY ChainsKept DEF OnlyFarIsCut

\* A reference of the root begins a chain.
LEMMA ChainBegins ==
    ASSUME NEW q \in Targets(Root), q \in Paths, q # Root
    PROVE  Reached(q, 0)
  <1>. DEFINE c == [i \in 1..1 |-> q]
  <1>1. c \in [1..1 -> Paths \ {Root}] /\ c[1] = q
    OBVIOUS
  <1>2. c \in Chains(1)
    BY <1>1 DEF Chains
  <1>3. 0 + 1 = 1 /\ 1..0 = {}
    OBVIOUS
  <1>4. QED
    BY <1>1, <1>2, <1>3 DEF Reached

\* A resource visited for the first time repeats nothing of the chain that
\* leads to it, so each of its references prolongs the chain.
LEMMA ChainGrows ==
    ASSUME NEW q \in Paths, NEW d \in Nat, Reached(q, d), Key(q) \notin visited_urls,
           NEW r \in Targets(q), r \in Paths, r # Root,
           tree' = tree, visited_urls' = visited_urls \union {Key(q)}
    PROVE  Reached(r, d + 1)'
  <1>1. PICK c \in Chains(d + 1) : c[d + 1] = q /\ \A i \in 1..d : Key(c[i]) \in visited_urls
    BY DEF Reached
  <1>. DEFINE e == [i \in 1..(d + 2) |-> IF i = d + 2 THEN r ELSE c[i]]
  <1>2. /\ c \in [1..(d + 1) -> Paths \ {Root}] /\ c[1] \in Targets(Root)
        /\ \A i \in 1..d : c[i + 1] \in Targets(c[i])
        /\ \A i, j \in 1..d : c[i] = c[j] => i = j
    BY <1>1 DEF Chains
  <1>3. /\ e \in [1..(d + 2) -> Paths \ {Root}] /\ e[d + 2] = r
        /\ \A i \in 1..(d + 1) : e[i] = c[i]
    BY <1>2
  <1>4. \A i \in 1..(d + 1) : e[i + 1] \in Targets(e[i])
    <2>1. TAKE i \in 1..(d + 1)
    <2>2. CASE i = d + 1
      <3>1. e[i + 1] = r /\ e[i] = q
        BY <1>1, <1>3, <2>2
      <3>2. QED
        BY <3>1
    <2>3. CASE i # d + 1
      <3>1. i \in 1..d /\ i + 1 \in 1..(d + 1)
        BY <2>3
      <3>2. e[i + 1] = c[i + 1] /\ e[i] = c[i]
        BY <1>3, <3>1
      <3>3. QED
        BY <1>2, <3>1, <3>2
    <2>4. QED
      BY <2>2, <2>3
  <1>5. \A i \in 1..d : c[i] # q
    BY <1>1
  <1>6. \A i, j \in 1..(d + 1) : e[i] = e[j] => i = j
    <2>1. SUFFICES ASSUME NEW i \in 1..(d + 1), NEW j \in 1..(d + 1), c[i] = c[j] PROVE i = j
      BY <1>3
    <2>2. \A k \in 1..(d + 1) : k # d + 1 => k \in 1..d
      OBVIOUS
    <2>3. QED
      BY <1>1, <1>2, <1>5, <2>1, <2>2
  <1>7. e[1] \in Targets(Root)
    BY <1>2, <1>3
  <1>8. d + 1 + 1 = d + 2 /\ d + 2 - 1 = d + 1
    OBVIOUS
  <1>9. e \in Chains(d + 2)
    <2>. HIDE DEF e
    <2>1. QED
      BY <1>3, <1>4, <1>6, <1>7, <1>8 DEF Chains
  <1>10. \A i \in 1..(d + 1) : Key(e[i]) \in visited_urls'
    BY <1>1, <1>3
  <1>11. Reached(r, d + 1)' <=> \E x \in Chains(d + 2) :
            x[d + 2] = r /\ \A i \in 1..(d + 1) : Key(x[i]) \in visited_urls'
    BY <1>8, ChainsKept DEF Reached
  <1>12. QED
    BY <1>3, <1>9, <1>10, <1>11

LEMMA DepthsInit == Init => DepthsOK /\ OnlyFarIsCut
  BY DEF Init, DepthsOK, OnlyFarIsCut

LEMMA DepthsTail ==
    ASSUME IInv, DepthsOK, pending # <<>>, pending' = Tail(pending),
           tree' = tree, visited_urls \subseteq visited_urls'
    PROVE  DepthsOK'
  <1>1. Len(pending) \in Nat
    BY HeadCall DEF IInv
  <1>2. \A k \in 1..Len(pending') : pending'[k] = pending[k + 1] /\ k + 1 \in 1..Len(pending)
    BY <1>1, TailWaits DEF IInv
  <1>3. SUFFICES ASSUME NEW k \in 1..Len(pending'), NEW q \in Paths \ {Root}, NEW d \in Nat,
                        pending'[k].spelling.path = q, pending'[k].depth = d
                 PROVE  Reached(q, d)'
    BY DEF DepthsOK
  <1>4. Reached(q, d)
    BY <1>2, <1>3 DEF DepthsOK
  <1>5. QED
    BY <1>4, ReachedKept

\* What the depth of the call at the head says of its path.
LEMMA HeadReached ==
    ASSUME IInv, DepthsOK, pending # <<>>, path # Root
    PROVE  Reached(path, call.depth)
  <1>1. call = pending[1] /\ call \in Calls /\ 1 \in 1..Len(pending)
    BY HeadCall DEF IInv
  <1>2. call.spelling \in Spelling
    BY <1>1 DEF Calls
  <1>3. path = call.spelling.path
    BY <1>2, NormalizeIsKey DEF path, resource_path, Key
  <1>4. path \in Paths \ {Root} /\ call.depth \in Nat
    BY HeadCall DEF IInv
  <1>5. QED
    BY <1>1, <1>3, <1>4 DEF DepthsOK

LEMMA DepthsExecute == IInv /\ DepthsOK /\ OnlyFarIsCut /\ Execute => DepthsOK' /\ OnlyFarIsCut'
  <1>. SUFFICES ASSUME IInv, OnlyFarIsCut, Execute PROVE DepthsOK' /\ OnlyFarIsCut'
    OBVIOUS
  <1>1. OnlyFarIsCut'
    BY FarKept DEF Execute
  <1>2. /\ Root \in Paths /\ Targets(Root) \subseteq Paths
        /\ \A k \in 1..Len(tree[Root]) : tree[Root][k] \in Spelling
    BY TreeType, DiscoveryAssumption DEF IInv
  <1>3. pending' = References(Root, 0) /\ tree' = tree /\ visited_urls \subseteq visited_urls'
    BY DEF Execute
  <1>4. /\ Len(pending') = Len(tree[Root])
        /\ \A k \in 1..Len(tree[Root]) : pending'[k].depth = 0 /\ pending'[k].spelling = tree[Root][k]
    BY <1>2, <1>3, ReferencesType DEF IInv
  <1>5. SUFFICES ASSUME NEW k \in 1..Len(tree[Root]), NEW q \in Paths \ {Root},
                        tree[Root][k].path = q
                 PROVE  Reached(q, 0)'
    BY <1>1, <1>4 DEF DepthsOK
  <1>6. q \in Targets(Root)
    BY <1>5 DEF Targets
  <1>7. Reached(q, 0)
    BY <1>6, ChainBegins
  <1>8. QED
    BY <1>3, <1>7, ReachedKept

\* A path is given up by a call at depth MaxDepth + 1, the end of a chain of
\* MaxDepth + 2 references.
LEMMA DepthsDeep == IInv /\ DepthsOK /\ OnlyFarIsCut /\ DropDeep => DepthsOK' /\ OnlyFarIsCut'
  <1>. SUFFICES ASSUME IInv, DepthsOK, OnlyFarIsCut, DropDeep PROVE DepthsOK' /\ OnlyFarIsCut'
    OBVIOUS
  <1>1. /\ pending # <<>> /\ pending' = Tail(pending) /\ TooDeep /\ cut' = cut \union {path}
        /\ tree' = tree /\ visited_urls' = visited_urls
    BY DEF DropDeep, Return, walked
  <1>2. DepthsOK'
    BY <1>1, DepthsTail
  <1>3. call.depth = MaxDepth + 1 /\ MaxDepth \in Nat
    BY <1>1, HeadCall, DiscoveryAssumption DEF IInv, TooDeep
  <1>4. ASSUME path # Root PROVE \E c \in Chains(MaxDepth + 2) : c[MaxDepth + 2] = path
    <2>1. Reached(path, call.depth)
      BY <1>1, <1>4, HeadReached
    <2>2. call.depth + 1 = MaxDepth + 2
      BY <1>3
    <2>3. QED
      BY <2>1, <2>2 DEF Reached
  <1>5. \A q \in cut' \ {Root} : \E c \in Chains(MaxDepth + 2) : c[MaxDepth + 2] = q
    BY <1>1, <1>4 DEF OnlyFarIsCut
  <1>6. OnlyFarIsCut'
    BY <1>1, <1>5, ChainsKept DEF OnlyFarIsCut
  <1>7. QED
    BY <1>2, <1>6

LEMMA DepthsVisit == IInv /\ DepthsOK /\ OnlyFarIsCut /\ Visit => DepthsOK' /\ OnlyFarIsCut'
  <1>. SUFFICES ASSUME IInv, DepthsOK, OnlyFarIsCut, Visit PROVE DepthsOK' /\ OnlyFarIsCut'
    OBVIOUS
  <1>. DEFINE refs == References(path, call.depth + 1)
              rest == Tail(pending)
  <1>1. /\ pc = "walk" /\ pending # <<>> /\ pending' = refs \o rest /\ pc' = pc
        /\ tree' = tree /\ cut' = cut /\ Get /\ ~TooDeep
        /\ visited_urls' = visited_urls \union {resource_path}
    BY DEF Visit, Return, Get, walked
  <1>2. OnlyFarIsCut'
    BY <1>1, FarKept
  <1>3. /\ resource_path = Key(path) /\ path \in Paths /\ path \in Walkable
        /\ call.depth \in Nat
    BY <1>1, GetStep, HeadCall DEF IInv
  <1>4. path # Root /\ Key(path) \notin visited_urls
    BY <1>1, <1>3 DEF Walkable, Get, Ignored
  <1>5. Reached(path, call.depth)
    BY <1>1, <1>4, HeadReached
  <1>6. Targets(path) \subseteq Paths
    BY <1>3, TreeType DEF IInv
  <1>7. /\ refs \in Seq(Calls) /\ Len(refs) = Len(tree[path])
        /\ \A k \in 1..Len(tree[path]) :
              refs[k].depth = call.depth + 1 /\ refs[k].spelling = tree[path][k]
    <2>1. call.depth + 1 \in Nat
      BY <1>3
    <2>2. QED
      BY <1>3, <2>1, ReferencesType DEF IInv
  <1>8. /\ rest \in Seq(Calls)
        /\ \A k \in 1..Len(rest) : rest[k] = pending[k + 1] /\ k + 1 \in 1..Len(pending)
    <2>1. Len(pending) \in Nat
      BY <1>1, HeadCall DEF IInv
    <2>2. QED
      BY <1>1, <2>1, TailWaits DEF IInv
  <1>9. \A k \in 1..Len(pending') :
           \/ k \in 1..Len(refs) /\ pending'[k] = refs[k]
           \/ \E m \in 1..Len(rest) : pending'[k] = rest[m]
    <2>. HIDE DEF refs, rest
    <2>1. /\ Len(pending') = Len(refs) + Len(rest) /\ Len(refs) \in Nat /\ Len(rest) \in Nat
          /\ \A k \in 1..Len(refs) : pending'[k] = refs[k]
          /\ \A k \in 1..Len(rest) : pending'[Len(refs) + k] = rest[k]
      <3>1. pending' = refs \o rest /\ refs \in Seq(Calls) /\ rest \in Seq(Calls)
        BY <1>1, <1>7, <1>8
      <3>2. QED
        BY <3>1, Joined
    <2>2. TAKE k \in 1..Len(pending')
    <2>3. CASE k > Len(refs)
      <3>1. k - Len(refs) \in 1..Len(rest) /\ Len(refs) + (k - Len(refs)) = k
        BY <2>1, <2>3
      <3>2. QED
        BY <2>1, <3>1
    <2>4. CASE ~(k > Len(refs))
      BY <2>1, <2>4
    <2>5. QED
      BY <2>3, <2>4
  <1>10. SUFFICES ASSUME NEW k \in 1..Len(pending'), NEW q \in Paths \ {Root}, NEW d \in Nat,
                         pending'[k].spelling.path = q, pending'[k].depth = d
                  PROVE  Reached(q, d)'
    BY <1>2 DEF DepthsOK
  <1>11. CASE k \in 1..Len(refs) /\ pending'[k] = refs[k]
    <2>1. q \in Targets(path) /\ d = call.depth + 1
      BY <1>7, <1>10, <1>11 DEF Targets
    <2>2. visited_urls' = visited_urls \union {Key(path)}
      BY <1>1, <1>3
    <2>3. SUFFICES ASSUME NEW p \in Paths, p = path, NEW e \in Nat, e = call.depth
                   PROVE  Reached(q, e + 1)'
      BY <1>3, <2>1
    <2>4. Reached(p, e) /\ Key(p) \notin visited_urls /\ q \in Targets(p)
          /\ visited_urls' = visited_urls \union {Key(p)}
      BY <1>4, <1>5, <2>1, <2>2, <2>3
    <2>5. QED
      BY <1>1, <2>4, ChainGrows
  <1>12. CASE \E m \in 1..Len(rest) : pending'[k] = rest[m]
    <2>1. Reached(q, d)
      BY <1>8, <1>10, <1>12 DEF DepthsOK
    <2>2. QED
      BY <1>1, <2>1, ReachedKept
  <1>13. QED
    BY <1>9, <1>11, <1>12

LEMMA DepthsStep ==
    IInv /\ DepthsOK /\ OnlyFarIsCut /\ [Next]_vars => DepthsOK' /\ OnlyFarIsCut'
  <1>. SUFFICES ASSUME IInv, DepthsOK, OnlyFarIsCut, [Next]_vars PROVE DepthsOK' /\ OnlyFarIsCut'
    OBVIOUS
  <1>1. CASE Execute
    BY <1>1, DepthsExecute
  <1>2. CASE ExecuteFails \/ Save \/ UNCHANGED vars
    <2>1. UNCHANGED <<tree, pending, visited_urls, cut>>
      BY <1>2 DEF ExecuteFails, Save, vars
    <2>2. QED
      BY <2>1, FarKept, ChainsKept DEF DepthsOK, Reached
  <1>3. CASE DropDeep
    BY <1>3, DepthsDeep
  <1>4. CASE DropFiltered \/ DropIgnored \/ VisitFails
    <2>1. /\ pending # <<>> /\ pending' = Tail(pending) /\ UNCHANGED <<tree, cut>>
          /\ visited_urls \subseteq visited_urls'
      BY <1>4 DEF DropFiltered, DropIgnored, VisitFails, Get, Return, walked
    <2>2. QED
      BY <2>1, DepthsTail, FarKept
  <1>5. CASE Visit
    BY <1>5, DepthsVisit
  <1>6. QED
    BY <1>1, <1>2, <1>3, <1>4, <1>5 DEF Next, Walk

\* cmd_discovery.py:138: for every tree and bound, a resource is given up only
\* at the end of a chain of MaxDepth + 2 references that repeats no resource.
THEOREM OnlyTheFarIsGivenUp == Spec => []OnlyFarIsCut
  <1>1. Spec => [](DepthsOK /\ OnlyFarIsCut)
    BY Invariance, DepthsInit, DepthsStep, PTL DEF Spec
  <1>2. QED
    BY <1>1, PTL

-----------------------------------------------------------------------------
(* The exporter: types *)

\* Where the program is tells how it was started, and whom it serves.
PhaseOK ==
    /\ phase \in {"push", "sleep"} => mode = "push"
    /\ phase \in {"listen", "request", "reply", "error"} => mode = "serve"
    /\ mode = "serve" /\ phase \in {"scrape", "vendor", "read"} => serving # Nobody
    /\ ended # "none" => phase = "done"

Typed == ExporterTypeOK /\ PhaseOK

\* What the steps of the program leave alone.
LEMMA SetupStays ==
    ASSUME [ExporterNext]_exporterVars
    PROVE  UNCHANGED setup
BY DEF ExporterNext, Step, Client, Launch, Begin, Label, Read, LeafFails, SourceFails, Build, Push,
       Wake, Accept, Receive, Reply, Change, Connect, Ask, HangUp, exporterVars

LEMMA GaugeTyped ==
    ASSUME NEW s \in Sources, NEW x
    PROVE  Gauge(s, x) \subseteq {"on", "off"}
<1>1. CASE s = "network"
  BY <1>1 DEF Gauge
<1>2. CASE s \in {"nvlink", "integrity"}
  BY <1>2 DEF Gauge
<1>3. CASE s \in {"environment", "sensors", "metric_reports"}
  BY <1>3 DEF Gauge
<1> QED BY <1>1, <1>2, <1>3 DEF Sources

\* A sample is one of a row.
LEMMA SampleOfRow ==
    ASSUME NEW x \in Samples
    PROVE  \E r \in rows : /\ x.leaf = r.leaf /\ x.generation = r.generation
                           /\ x.value \in Gauge(r.leaf.source, r.reading)
                           /\ x = [leaf |-> r.leaf, value |-> x.value, generation |-> r.generation]
<1>1. PICK r \in rows : \E v \in Gauge(r.leaf.source, r.reading) :
         x = [leaf |-> r.leaf, value |-> v, generation |-> r.generation]
  BY DEF Samples
<1> PICK v \in Gauge(r.leaf.source, r.reading) :
      x = [leaf |-> r.leaf, value |-> v, generation |-> r.generation]
  BY <1>1
<1>2. x.leaf = r.leaf /\ x.value = v /\ x.generation = r.generation
  BY <1>1
<1> QED BY <1>1, <1>2

LEMMA SamplesTyped ==
    ASSUME ExporterTypeOK
    PROVE  Samples \subseteq [leaf : Leaf, value : {"on", "off"}, generation : 0..MaxGeneration]
<1> SUFFICES ASSUME NEW x \in Samples
             PROVE  x \in [leaf : Leaf, value : {"on", "off"}, generation : 0..MaxGeneration]
  OBVIOUS
<1>1. PICK r \in rows : /\ x.value \in Gauge(r.leaf.source, r.reading)
                        /\ x = [leaf |-> r.leaf, value |-> x.value, generation |-> r.generation]
  BY SampleOfRow
<1>2. r.leaf \in Leaf /\ r.leaf.source \in Sources /\ r.generation \in 0..MaxGeneration
  BY DEF ExporterTypeOK, Leaf
<1>3. x.value \in {"on", "off"}
  BY <1>1, <1>2, GaugeTyped
<1> QED BY <1>1, <1>2, <1>3

LEMMA ExporterInitTyped == ExporterInit => Typed
<1> SUFFICES ASSUME ExporterInit PROVE Typed
  OBVIOUS
<1>1. 0 \in 0..MaxGeneration /\ 0 \in 0..MaxFaults
  BY ExporterAssumption
<1>2. ExporterTypeOK
  BY <1>1 DEF ExporterInit, ExporterTypeOK
<1> QED BY <1>2 DEF ExporterInit, PhaseOK, Typed

\* The readings of the controller are those of the model.
LEMMA ShowsTyped ==
    ASSUME ExporterTypeOK
    PROVE  /\ shows[generation] \in Readings
           /\ \A k \in todo : Leaves[k] \in Leaf /\ Leaves[k] \in Everything
<1>1. shows \in [0..MaxGeneration -> Readings] /\ generation \in 0..MaxGeneration
  BY ExporterAssumption DEF ExporterTypeOK
<1>2. \A k \in 1..Len(Leaves) : Leaves[k] \in Leaf
  BY ExporterAssumption
<1> QED BY <1>1, <1>2 DEF ExporterTypeOK, Everything

LEMMA ExporterNextTyped == Typed /\ [ExporterNext]_exporterVars => Typed'
<1> SUFFICES ASSUME Typed, [ExporterNext]_exporterVars PROVE Typed'
  OBVIOUS
<1> USE DEF Typed
<1>1. UNCHANGED setup /\ Fault => faults' \in 0..MaxFaults
  <2>1. faults \in 0..MaxFaults /\ MaxFaults \in Nat
    BY ExporterAssumption DEF ExporterTypeOK
  <2> QED BY <2>1 DEF Fault
<1>2. UNCHANGED setup
  BY SetupStays
<1>3. CASE Launch
  BY <1>2, <1>3 DEF Launch, Goto, End, ExporterTypeOK, PhaseOK, setup, scrape, server
<1>4. CASE Begin
  <2>1. began' \in 0..MaxGeneration
    BY <1>4 DEF Begin, ExporterTypeOK
  <2>2. ExporterTypeOK'
    BY <1>2, <1>4, <2>1 DEF Begin, Goto, ExporterTypeOK, setup, server
  <2> QED BY <1>2, <1>4, <2>2 DEF Begin, Goto, PhaseOK, ExporterTypeOK, setup, server
<1>5. CASE Label
  <2>1. faults' \in 0..MaxFaults
    BY <1>1, <1>2, <1>5 DEF Label, ExporterTypeOK
  <2>2. {label', kept'} \subseteq {"none", "given", "named", "unknown"}
    BY <1>5 DEF Label, Detected, ExporterTypeOK
  <2>3. ExporterTypeOK'
    BY <1>2, <1>5, <2>1, <2>2 DEF Label, Goto, ExporterTypeOK, setup, server
  <2> QED BY <1>2, <1>5, <2>3 DEF Label, Goto, PhaseOK, ExporterTypeOK, setup, server
<1>6. CASE Read
  <2>1. PICK k \in todo : rows' = rows \union {Row(Leaves[k], shows[generation])} /\ todo' = todo \ {k}
    BY <1>6 DEF Read
  <2>2. Row(Leaves[k], shows[generation])
          \in [leaf : Leaf, reading : Readings \union {"unread"}, generation : 0..MaxGeneration]
    BY ShowsTyped DEF Row, ExporterTypeOK
  <2>3. ExporterTypeOK'
    BY <1>2, <1>6, <2>1, <2>2 DEF Read, ExporterTypeOK, setup, server
  <2> QED BY <1>2, <1>6, <2>3 DEF Read, PhaseOK, setup, server
<1>7. CASE LeafFails
  <2>1. PICK k \in todo : /\ failed' = failed \union {Leaves[k]} /\ todo' = todo \ {k}
                          /\ UNCHANGED rows \/ rows' = rows \union {Row(Leaves[k], "unread")}
    BY <1>7 DEF LeafFails
  <2>2. Row(Leaves[k], "unread")
          \in [leaf : Leaf, reading : Readings \union {"unread"}, generation : 0..MaxGeneration]
    BY ShowsTyped DEF Row, ExporterTypeOK
  <2>3. faults' \in 0..MaxFaults
    BY <1>1, <1>2, <1>7 DEF LeafFails
  <2>4. ExporterTypeOK'
    BY <1>2, <1>7, <2>1, <2>2, <2>3, ShowsTyped DEF LeafFails, ExporterTypeOK, setup, server
  <2> QED BY <1>2, <1>7, <2>4 DEF LeafFails, PhaseOK, setup, server
<1>8. CASE SourceFails
  <2>1. faults' \in 0..MaxFaults
    BY <1>1, <1>2, <1>8 DEF SourceFails
  <2>2. rows' \subseteq rows /\ todo' \subseteq todo /\ failed' \subseteq Everything
    BY <1>8 DEF SourceFails, Of, ExporterTypeOK
  <2>3. ExporterTypeOK'
    BY <1>2, <1>8, <2>1, <2>2 DEF SourceFails, ExporterTypeOK, setup, server
  <2> QED BY <1>2, <1>8, <2>3 DEF SourceFails, PhaseOK, setup, server
<1>9. CASE Build
  <2>1. faults' \in 0..MaxFaults
    BY <1>1, <1>2, <1>9 DEF Build, ExporterTypeOK
  <2>2. samples' \subseteq [leaf : Leaf, value : {"on", "off"}, generation : 0..MaxGeneration]
    BY <1>9, SamplesTyped DEF Build, ExporterTypeOK
  <2>3. phase = "read"
    BY <1>9 DEF Build
  <2>4. \/ phase' \in {"reply", "error"} /\ mode = "serve" /\ serving # Nobody /\ UNCHANGED ended
        \/ phase' = "push" /\ mode = "push" /\ UNCHANGED ended
        \/ phase' = "done" /\ ended' \in {"returned", "raised"}
    BY <1>9, <2>3 DEF Build, Goto, End, Serving, PhaseOK
  <2>5. ExporterTypeOK'
    BY <1>2, <1>9, <2>1, <2>2, <2>4 DEF Build, ExporterTypeOK, setup, server
  <2> QED BY <1>2, <1>9, <2>3, <2>4, <2>5 DEF Build, PhaseOK, setup, server
<1>10. CASE Push \/ Wake
  <2>1. faults' \in 0..MaxFaults
    BY <1>1, <1>2, <1>10 DEF Push, Wake, ExporterTypeOK
  <2> QED BY <1>2, <1>10, <2>1 DEF Push, Wake, Goto, End, ExporterTypeOK, PhaseOK, setup, scrape, server
<1>11. CASE Accept
  <2>1. Head(queue) \in Clients /\ Tail(queue) \in Seq(Clients)
    BY <1>11 DEF Accept, ExporterTypeOK
  <2>2. serving' # Nobody
    BY <1>11, <2>1, ExporterAssumption DEF Accept
  <2> QED BY <1>2, <1>11, <2>1, <2>2 DEF Accept, Goto, ExporterTypeOK, PhaseOK, setup, scrape
<1>12. CASE Receive \/ Reply
  <2>1. serving \in Clients /\ phase \in {"request", "reply", "error"}
    BY <1>12 DEF Receive, Reply, ExporterTypeOK
  <2>2. answers' \in [Clients -> {"none", "200", "404", "500"}]
    BY <1>12, <2>1 DEF Receive, Reply, Answer, ExporterTypeOK
  <2>3. /\ \/ phase' = "scrape" /\ UNCHANGED <<serving, ended>>
           \/ phase' = "listen" /\ serving' = Nobody /\ UNCHANGED ended
        /\ published' \in {label, published}
        /\ UNCHANGED <<setup, generation, scrape, clients, arrived, queue, faults>>
    BY <1>12 DEF Receive, Reply, Release, Goto
  <2>4. ExporterTypeOK'
    BY <2>1, <2>2, <2>3 DEF ExporterTypeOK, setup, scrape
  <2> QED BY <2>1, <2>3, <2>4, ExporterAssumption DEF PhaseOK, setup
<1>13. CASE Change
  <2>1. generation' \in 0..MaxGeneration
    BY <1>13, ExporterAssumption DEF Change, ExporterTypeOK
  <2> QED BY <1>13, <2>1 DEF Change, ExporterTypeOK, PhaseOK, setup, scrape, server
<1>14. CASE Connect
  <2>1. PICK c \in Clients : /\ clients' = [clients EXCEPT ![c] = "connected"]
                             /\ arrived' = [arrived EXCEPT ![c] = generation]
                             /\ queue' = Append(queue, c)
    BY <1>14 DEF Connect
  <2>2. /\ clients' \in [Clients -> {"away", "connected", "metrics", "other", "gone"}]
        /\ arrived' \in [Clients -> 0..MaxGeneration]
        /\ queue' \in Seq(Clients)
    BY <2>1 DEF ExporterTypeOK
  <2> QED BY <1>14, <2>2 DEF Connect, ExporterTypeOK, PhaseOK, setup, scrape
<1>15. CASE \E c \in Clients : Ask(c) \/ HangUp(c)
  <2>1. clients' \in [Clients -> {"away", "connected", "metrics", "other", "gone"}]
    BY <1>15 DEF Ask, HangUp, ExporterTypeOK
  <2>2. UNCHANGED <<setup, generation, phase, scrape, arrived, queue, serving, answers, published,
                    faults, ended>>
    BY <1>15 DEF Ask, HangUp
  <2> QED BY <2>1, <2>2 DEF ExporterTypeOK, PhaseOK, setup, scrape
<1>16. CASE UNCHANGED exporterVars
  BY <1>16 DEF exporterVars, setup, scrape, server, ExporterTypeOK, PhaseOK
<1> QED BY <1>3, <1>4, <1>5, <1>6, <1>7, <1>8, <1>9, <1>10, <1>11, <1>12, <1>13, <1>14, <1>15, <1>16
        DEF ExporterNext, Step, Client

\* Every variable of the exporter keeps its type, and the request handler works
\* for a client while it works.
THEOREM ExporterTypeCorrect == ExporterFairSpec => []ExporterTypeOK
<1>1. Typed => ExporterTypeOK
  BY DEF Typed
<1> QED BY <1>1, ExporterInitTyped, ExporterNextTyped, PTL DEF ExporterFairSpec, ExporterSpec

-----------------------------------------------------------------------------
(* The exporter: what was read, and when *)

\* No row and no sample is from before the scrape was asked for.
FreshInv ==
    /\ \A c \in Clients : arrived[c] <= generation
    /\ began <= generation
    /\ \A r \in rows : began <= r.generation /\ r.generation <= generation
    /\ \A x \in samples : began <= x.generation /\ x.generation <= generation

LEMMA FreshInit == ExporterInit => FreshInv
BY DEF ExporterInit, FreshInv

LEMMA FreshNext == Typed /\ FreshInv /\ [ExporterNext]_exporterVars => FreshInv'
<1> SUFFICES ASSUME Typed, FreshInv, [ExporterNext]_exporterVars PROVE FreshInv'
  OBVIOUS
<1> USE DEF Typed
<1>1. /\ generation \in Nat /\ began \in Nat /\ \A c \in Clients : arrived[c] \in Nat
      /\ \A r \in rows : r.generation \in Nat
      /\ \A x \in samples : x.generation \in Nat
  BY ExporterAssumption DEF ExporterTypeOK
<1>2. CASE Begin
  <2>1. began' <= generation
    BY <1>1, <1>2 DEF Begin, FreshInv, ExporterTypeOK
  <2> QED BY <1>1, <1>2, <2>1 DEF Begin, FreshInv, server
<1>3. CASE Read \/ LeafFails \/ SourceFails
  <2>1. \A l, v : Row(l, v).generation = generation
    BY DEF Row
  <2>2. \A r \in rows' : r \in rows \/ r.generation = generation
    BY <1>3, <2>1 DEF Read, LeafFails, SourceFails
  <2>3. UNCHANGED <<generation, began, samples, arrived>>
    BY <1>3 DEF Read, LeafFails, SourceFails, server
  <2> QED BY <1>1, <2>2, <2>3 DEF FreshInv
<1>4. CASE Build
  <2>1. \A x \in Samples : \E r \in rows : x.generation = r.generation
    BY SampleOfRow
  <2>2. \A x \in samples' : began <= x.generation /\ x.generation <= generation
    BY <1>4, <2>1 DEF Build, FreshInv
  <2> QED BY <1>4, <2>2 DEF Build, FreshInv, server
<1>5. CASE Change
  <2>1. generation' = generation + 1 /\ UNCHANGED <<began, rows, samples, arrived>>
    BY <1>5 DEF Change, scrape, server
  <2> QED BY <1>1, <2>1 DEF FreshInv
<1>6. CASE Connect
  <2>1. PICK c \in Clients : arrived' = [arrived EXCEPT ![c] = generation]
    BY <1>6 DEF Connect
  <2>2. \A d \in Clients : arrived'[d] = arrived[d] \/ arrived'[d] = generation
    BY <2>1 DEF ExporterTypeOK
  <2> QED BY <1>1, <1>6, <2>2 DEF Connect, FreshInv, scrape
<1>7. CASE Launch \/ Label \/ Push \/ Wake \/ Accept \/ Receive \/ Reply
           \/ (\E c \in Clients : Ask(c) \/ HangUp(c)) \/ UNCHANGED exporterVars
  <2>1. UNCHANGED <<generation, began, rows, samples, arrived>>
    BY <1>7 DEF Launch, Label, Push, Wake, Accept, Receive, Reply, Ask, HangUp, exporterVars, scrape, server
  <2> QED BY <2>1 DEF FreshInv
<1> QED BY <1>2, <1>3, <1>4, <1>5, <1>6, <1>7 DEF ExporterNext, Step, Client

\* What is given away was read for whoever asked, after he asked: nothing of an
\* earlier scrape, nothing from before a client connected, however long it waited.
THEOREM NothingOldIsGiven == ExporterFairSpec => []Fresh
<1>1. Typed /\ FreshInv => Fresh
  <2> SUFFICES ASSUME Typed, FreshInv, NEW x \in samples PROVE x.generation >= began
    BY DEF Fresh
  <2>1. began \in Nat /\ x.generation \in Nat /\ began <= x.generation
    BY ExporterAssumption DEF Typed, ExporterTypeOK, FreshInv
  <2> QED BY <2>1
<1> QED BY <1>1, ExporterInitTyped, ExporterNextTyped, FreshInit, FreshNext, PTL
        DEF ExporterFairSpec, ExporterSpec

-----------------------------------------------------------------------------
(* The exporter: a failure costs its own samples *)

\* While the leaves are read, each is still to come, has failed, or has the row
\* of what it showed; and a leaf still to come has no row and has not failed.
RowsOK ==
    phase = "read" =>
       /\ \A k \in 1..Len(Leaves) :
             \/ k \in todo
             \/ Leaves[k] \in failed
             \/ \E r \in rows : /\ r.leaf = Leaves[k] /\ r.reading = shows[r.generation]
                                /\ r.generation \in began..generation
       /\ \A k \in todo : Leaves[k] \notin failed /\ \A r \in rows : r.leaf # Leaves[k]
       /\ \A r \in rows : \/ r.reading = shows[r.generation] /\ (~do_async => r.leaf \notin failed)
                          \/ r.reading = "unread" /\ r.leaf \in failed /\ do_async
       /\ \A r, q \in rows : r.leaf = q.leaf => r = q

\* At the start of a scrape there is neither a row nor a failure.
EmptyOK == phase = "vendor" => rows = {} /\ failed = {} /\ todo = 1..Len(Leaves)

\* A row that was read gives the sample the properties speak of.
LEMMA SampleOfReading ==
    ASSUME ExporterTypeOK, NEW r \in rows, r.reading = shows[r.generation]
    PROVE  /\ shows[r.generation] # "missing" =>
                 \E x \in Samples : x.leaf = r.leaf /\ x.generation = r.generation
           /\ r.leaf.source \in {"environment", "sensors", "metric_reports"} =>
                 Gauge(r.leaf.source, r.reading) \subseteq {shows[r.generation]}
<1>1. /\ r.generation \in 0..MaxGeneration /\ r.leaf.source \in Sources
      /\ shows[r.generation] \in Readings
  BY ExporterAssumption DEF ExporterTypeOK, Leaf
<1>2. /\ r.leaf.source \in {"environment", "sensors", "metric_reports"} =>
            Gauge(r.leaf.source, r.reading) = {r.reading} \intersect {"on", "off"}
      /\ r.leaf.source \in {"nvlink", "integrity"} =>
            Gauge(r.leaf.source, r.reading) = {IF r.reading = "on" THEN "on" ELSE "off"}
      /\ r.leaf.source = "network" => Gauge(r.leaf.source, r.reading) = {"on"}
  BY DEF Gauge
<1>3. ASSUME shows[r.generation] # "missing"
      PROVE  \E x \in Samples : x.leaf = r.leaf /\ x.generation = r.generation
  <2>1. r.reading \in {"on", "off"}
    BY <1>1, <1>3 DEF Readings
  <2>2. \E v : v \in Gauge(r.leaf.source, r.reading)
    <3>1. r.reading \in {r.reading} \intersect {"on", "off"}
      BY <2>1
    <3> QED BY <1>1, <1>2, <3>1 DEF Sources
  <2>3. PICK v : v \in Gauge(r.leaf.source, r.reading)
    BY <2>2
  <2> DEFINE x == [leaf |-> r.leaf, value |-> v, generation |-> r.generation]
  <2>4. x \in {[leaf |-> r.leaf, value |-> w, generation |-> r.generation] :
                  w \in Gauge(r.leaf.source, r.reading)}
    BY <2>3
  <2>5. x \in Samples
    <3> HIDE DEF x
    <3> QED BY <2>4 DEF Samples
  <2>6. x.leaf = r.leaf /\ x.generation = r.generation
    OBVIOUS
  <2> QED BY <2>5, <2>6
<1> QED BY <1>2, <1>3

\* What becomes of the leaf that is due.
LEMMA RowsNext ==
    ASSUME Typed, FreshInv, RowsOK, Read \/ LeafFails \/ SourceFails
    PROVE  RowsOK'
<1> USE DEF Typed
<1>1. /\ phase = "read" /\ phase' = "read" /\ UNCHANGED <<shows, generation, began, do_async>>
      /\ todo \subseteq 1..Len(Leaves) /\ began \in Nat /\ generation \in Nat /\ began <= generation
  BY ExporterAssumption DEF Read, LeafFails, SourceFails, ExporterTypeOK, FreshInv, setup
<1>2. \A j, k \in 1..Len(Leaves) : Leaves[j] = Leaves[k] => j = k
  BY ExporterAssumption
<1>3. \A l, v : /\ Row(l, v).leaf = l /\ Row(l, v).reading = v
                /\ Row(l, v).generation = generation
  BY DEF Row
<1>4. shows[generation] # "unread"
  BY ShowsTyped DEF Readings
<1>5. /\ \A k \in 1..Len(Leaves) :
            \/ k \in todo
            \/ Leaves[k] \in failed
            \/ \E r \in rows : /\ r.leaf = Leaves[k] /\ r.reading = shows[r.generation]
                               /\ r.generation \in began..generation
      /\ \A k \in todo : Leaves[k] \notin failed /\ \A r \in rows : r.leaf # Leaves[k]
      /\ \A r \in rows : \/ r.reading = shows[r.generation] /\ (~do_async => r.leaf \notin failed)
                         \/ r.reading = "unread" /\ r.leaf \in failed /\ do_async
      /\ \A r, q \in rows : r.leaf = q.leaf => r = q
  BY <1>1 DEF RowsOK
<1>6. CASE Read
  <2>1. PICK k \in todo : /\ rows' = rows \union {Row(Leaves[k], shows[generation])}
                          /\ todo' = todo \ {k} /\ UNCHANGED failed
    BY <1>6 DEF Read
  <2> DEFINE new == Row(Leaves[k], shows[generation])
  <2>2. /\ new.leaf = Leaves[k] /\ new.reading = shows[new.generation]
        /\ new.generation = generation /\ generation \in began..generation
    BY <1>1, <1>3
  <2>3. rows' = rows \union {new}
    BY <2>1
  <2> HIDE DEF new
  <2>4. \A j \in 1..Len(Leaves) :
           \/ j \in todo'
           \/ Leaves[j] \in failed
           \/ \E r \in rows' : /\ r.leaf = Leaves[j] /\ r.reading = shows[r.generation]
                               /\ r.generation \in began..generation
    BY <1>5, <2>1, <2>2, <2>3
  <2>5. \A j \in todo' : Leaves[j] \notin failed /\ \A r \in rows' : r.leaf # Leaves[j]
    BY <1>1, <1>2, <1>5, <2>1, <2>2, <2>3
  <2>6. \A r \in rows' : \/ r.reading = shows[r.generation] /\ (~do_async => r.leaf \notin failed)
                         \/ r.reading = "unread" /\ r.leaf \in failed /\ do_async
    BY <1>5, <2>1, <2>2, <2>3
  <2>7. \A r, q \in rows' : r.leaf = q.leaf => r = q
    BY <1>5, <2>1, <2>2, <2>3
  <2> QED BY <1>1, <2>1, <2>4, <2>5, <2>6, <2>7 DEF RowsOK
<1>7. CASE LeafFails
  <2>1. PICK k \in todo :
          /\ failed' = failed \union {Leaves[k]} /\ todo' = todo \ {k}
          /\ UNCHANGED rows \/ (do_async /\ rows' = rows \union {Row(Leaves[k], "unread")})
    BY <1>7 DEF LeafFails
  <2>2. \A r \in rows' : \/ r \in rows
                         \/ /\ r = Row(Leaves[k], "unread") /\ r.leaf = Leaves[k]
                            /\ r.reading = "unread" /\ do_async
    BY <1>3, <2>1
  <2>3. rows \subseteq rows'
    BY <2>1
  <2>4. \A j \in 1..Len(Leaves) :
           \/ j \in todo'
           \/ Leaves[j] \in failed'
           \/ \E r \in rows' : /\ r.leaf = Leaves[j] /\ r.reading = shows[r.generation]
                               /\ r.generation \in began..generation
    BY <1>5, <2>1, <2>3
  <2>5. \A j \in todo' : Leaves[j] \notin failed' /\ \A r \in rows' : r.leaf # Leaves[j]
    BY <1>1, <1>2, <1>5, <2>1, <2>2
  <2>6. \A r \in rows' : \/ r.reading = shows[r.generation] /\ (~do_async => r.leaf \notin failed')
                         \/ r.reading = "unread" /\ r.leaf \in failed' /\ do_async
    BY <1>5, <2>1, <2>2
  <2>7. \A r, q \in rows' : r.leaf = q.leaf => r = q
    BY <1>5, <2>1, <2>2
  <2> QED BY <1>1, <2>4, <2>5, <2>6, <2>7 DEF RowsOK
<1>8. CASE SourceFails
  <2>1. PICK k \in todo :
          LET theirs == Of(Leaves[k].source) IN
             /\ failed' = failed \union theirs
             /\ rows' = {r \in rows : r.leaf \notin theirs}
             /\ todo' = {j \in todo : Leaves[j] \notin theirs}
    BY <1>8 DEF SourceFails
  <2> DEFINE theirs == Of(Leaves[k].source)
  <2>2. /\ failed' = failed \union theirs
        /\ rows' = {r \in rows : r.leaf \notin theirs}
        /\ todo' = {j \in todo : Leaves[j] \notin theirs}
    BY <2>1
  <2> HIDE DEF theirs
  <2>3. \A j \in 1..Len(Leaves) :
           \/ j \in todo'
           \/ Leaves[j] \in failed'
           \/ \E r \in rows' : /\ r.leaf = Leaves[j] /\ r.reading = shows[r.generation]
                               /\ r.generation \in began..generation
    BY <1>5, <2>2
  <2>4. \A j \in todo' : Leaves[j] \notin failed' /\ \A r \in rows' : r.leaf # Leaves[j]
    BY <1>5, <2>2
  <2>5. \A r \in rows' : \/ r.reading = shows[r.generation] /\ (~do_async => r.leaf \notin failed')
                         \/ r.reading = "unread" /\ r.leaf \in failed' /\ do_async
    BY <1>5, <2>2
  <2>6. \A r, q \in rows' : r.leaf = q.leaf => r = q
    BY <1>5, <2>2
  <2> QED BY <1>1, <2>3, <2>4, <2>5, <2>6 DEF RowsOK
<1> QED BY <1>6, <1>7, <1>8

\* The samples of what was read are those the property asks for.
LEMMA BuiltOwn ==
    ASSUME Typed, RowsOK, phase = "read", todo = {}
    PROVE  /\ ~do_async => \A x \in Samples : x.leaf \notin failed
           /\ \A l \in Everything \ failed : \E g \in began..generation :
                 /\ shows[g] # "missing" => \E x \in Samples : x.leaf = l /\ x.generation = g
                 /\ \A x \in Samples : x.leaf = l =>
                       /\ x.generation = g
                       /\ l.source \in {"environment", "sensors", "metric_reports"} =>
                             x.value = shows[g]
<1> USE DEF Typed
<1>1. /\ \A k \in 1..Len(Leaves) :
            \/ Leaves[k] \in failed
            \/ \E r \in rows : /\ r.leaf = Leaves[k] /\ r.reading = shows[r.generation]
                               /\ r.generation \in began..generation
      /\ \A r \in rows : \/ r.reading = shows[r.generation] /\ (~do_async => r.leaf \notin failed)
                         \/ r.reading = "unread" /\ r.leaf \in failed /\ do_async
      /\ \A r, q \in rows : r.leaf = q.leaf => r = q
  BY DEF RowsOK
<1>2. ~do_async => \A x \in Samples : x.leaf \notin failed
  <2>1. \A x \in Samples : \E r \in rows : x.leaf = r.leaf
    BY SampleOfRow
  <2> QED BY <1>1, <2>1
<1>3. ASSUME NEW l \in Everything \ failed
      PROVE  \E g \in began..generation :
                 /\ shows[g] # "missing" => \E x \in Samples : x.leaf = l /\ x.generation = g
                 /\ \A x \in Samples : x.leaf = l =>
                       /\ x.generation = g
                       /\ l.source \in {"environment", "sensors", "metric_reports"} =>
                             x.value = shows[g]
  <2>1. PICK r \in rows : /\ r.leaf = l /\ r.reading = shows[r.generation]
                          /\ r.generation \in began..generation
    BY <1>1 DEF Everything
  <2>2. shows[r.generation] # "missing" =>
           \E x \in Samples : x.leaf = l /\ x.generation = r.generation
    BY <2>1, SampleOfReading
  <2>3. ASSUME NEW x \in Samples, x.leaf = l
        PROVE  /\ x.generation = r.generation
               /\ l.source \in {"environment", "sensors", "metric_reports"} =>
                     x.value = shows[r.generation]
    <3>1. PICK q \in rows : /\ x.leaf = q.leaf /\ x.generation = q.generation
                            /\ x.value \in Gauge(q.leaf.source, q.reading)
      BY SampleOfRow
    <3>2. q = r
      BY <1>1, <2>1, <2>3, <3>1
    <3>3. l.source \in {"environment", "sensors", "metric_reports"} =>
             Gauge(l.source, r.reading) \subseteq {shows[r.generation]}
      BY <2>1, SampleOfReading
    <3> QED BY <2>1, <3>1, <3>2, <3>3
  <2> QED BY <2>1, <2>2, <2>3
<1> QED BY <1>2, <1>3

OwnInv == Typed /\ FreshInv /\ EmptyOK /\ RowsOK /\ OwnSamplesOnly

LEMMA OwnNext == OwnInv /\ [ExporterNext]_exporterVars => OwnInv'
<1> SUFFICES ASSUME OwnInv, [ExporterNext]_exporterVars PROVE OwnInv'
  OBVIOUS
<1> USE DEF OwnInv, Typed
<1>1. Typed' /\ FreshInv' /\ UNCHANGED setup
  BY ExporterNextTyped, FreshNext, SetupStays
<1>2. UNCHANGED <<do_async, shows>>
  BY <1>1 DEF setup
<1>3. ended = "returned" => phase = "done"
  BY DEF PhaseOK
<1>4. CASE Launch \/ Push \/ Wake \/ Accept \/ Receive \/ Reply
  <2>1. /\ phase \in {"launch", "push", "sleep", "listen", "request", "reply", "error"}
        /\ phase' \notin {"vendor", "read", "reply", "push"}
        /\ ended' # "returned"
    BY <1>3, <1>4 DEF Launch, Push, Wake, Accept, Receive, Reply, Release, Goto, End
  <2> QED BY <1>1, <2>1 DEF EmptyOK, RowsOK, OwnSamplesOnly, Given
<1>5. CASE Begin
  <2>1. /\ phase = "scrape" /\ phase' = "vendor" /\ UNCHANGED ended
        /\ rows' = {} /\ failed' = {} /\ todo' = 1..Len(Leaves)
    BY <1>5 DEF Begin, Goto
  <2> QED BY <1>1, <1>3, <2>1 DEF EmptyOK, RowsOK, OwnSamplesOnly, Given
<1>6. CASE Label
  <2>1. /\ phase = "vendor" /\ phase' = "read" /\ UNCHANGED <<ended, rows, failed, todo>>
        /\ rows = {} /\ failed = {} /\ todo = 1..Len(Leaves)
    BY <1>6 DEF Label, Goto, EmptyOK
  <2> QED BY <1>1, <1>3, <2>1 DEF EmptyOK, RowsOK, OwnSamplesOnly, Given
<1>7. CASE Read \/ LeafFails \/ SourceFails
  <2>1. phase = "read" /\ phase' = "read" /\ UNCHANGED ended
    BY <1>7 DEF Read, LeafFails, SourceFails
  <2>2. RowsOK'
    BY <1>7, RowsNext
  <2> QED BY <1>1, <1>3, <2>1, <2>2 DEF EmptyOK, OwnSamplesOnly, Given
<1>8. CASE Build
  <2>1. /\ phase = "read" /\ todo = {} /\ phase' \notin {"vendor", "read"}
        /\ UNCHANGED <<generation, began, failed>>
        /\ Given' => samples' = Samples
    BY <1>3, <1>8 DEF Build, Goto, End, Given
  <2>2. OwnSamplesOnly'
    BY <1>2, <2>1, BuiltOwn DEF OwnSamplesOnly
  <2> QED BY <1>1, <2>1, <2>2 DEF EmptyOK, RowsOK
<1>9. CASE Change
  <2>1. /\ generation' = generation + 1
        /\ UNCHANGED <<phase, ended, began, rows, failed, todo, samples>>
    BY <1>9 DEF Change, scrape
  <2>2. began \in Nat /\ generation \in Nat /\ began..generation \subseteq began..generation'
    BY <2>1, ExporterAssumption DEF ExporterTypeOK
  <2>3. OwnSamplesOnly'
    BY <1>2, <2>1, <2>2 DEF OwnSamplesOnly, Given
  <2>4. RowsOK'
    BY <1>2, <2>1, <2>2 DEF RowsOK
  <2> QED BY <1>1, <2>1, <2>3, <2>4 DEF EmptyOK
<1>10. CASE Client \/ UNCHANGED exporterVars
  <2>1. UNCHANGED <<generation, phase, ended, began, rows, failed, todo, samples>>
    BY <1>10 DEF Client, Connect, Ask, HangUp, exporterVars, scrape
  <2> QED BY <1>1, <1>2, <2>1 DEF EmptyOK, RowsOK, OwnSamplesOnly, Given
<1> QED BY <1>4, <1>5, <1>6, <1>7, <1>8, <1>9, <1>10 DEF ExporterNext, Step

\* A failing resource costs its own samples and nothing else: each one that was
\* read has the sample of what it showed at one moment of this scrape, and none
\* of another moment, and in sync mode there is no sample of one not read.
THEOREM FailuresCostTheirOwn == ExporterFairSpec => []OwnSamplesOnly
<1>1. ExporterInit => OwnInv
  <2> SUFFICES ASSUME ExporterInit PROVE OwnInv
    OBVIOUS
  <2>1. EmptyOK /\ RowsOK /\ OwnSamplesOnly
    BY DEF ExporterInit, EmptyOK, RowsOK, OwnSamplesOnly, Given
  <2> QED BY <2>1, ExporterInitTyped, FreshInit DEF OwnInv
<1>2. OwnInv => OwnSamplesOnly
  BY DEF OwnInv
<1> QED BY <1>1, <1>2, OwnNext, PTL DEF ExporterFairSpec, ExporterSpec

-----------------------------------------------------------------------------
(* The exporter: the vendor dimension *)

\* A vendor that was read is kept, and a scrape after that has its label.
LabelInv ==
    /\ label = "named" => kept = "named"
    /\ phase \in {"read", "reply", "push"} =>
          /\ vendor_given => label = "given"
          /\ ~vendor_given => label # "given" /\ (kept # "none" => label = kept)
    /\ kept # "given"
    /\ published = "given" => vendor_given
    /\ published = "named" => ~vendor_given /\ kept = "named"

LEMMA LabelNext == LabelInv /\ [ExporterNext]_exporterVars => LabelInv'
<1> SUFFICES ASSUME LabelInv, [ExporterNext]_exporterVars PROVE LabelInv'
  OBVIOUS
<1> USE DEF LabelInv
<1>1. UNCHANGED vendor_given
  BY SetupStays DEF setup
<1>2. CASE Label
  BY <1>1, <1>2 DEF Label, Goto, Detected
<1>3. CASE Push \/ Reply
  BY <1>1, <1>3 DEF Push, Reply, Release, Goto, End, scrape
<1>4. CASE Build
  BY <1>1, <1>4 DEF Build, Goto, End
<1>5. CASE Read \/ LeafFails \/ SourceFails \/ Change \/ Client \/ UNCHANGED exporterVars
  BY <1>1, <1>5 DEF Read, LeafFails, SourceFails, Change, Client, Connect, Ask, HangUp,
                    exporterVars, scrape
<1>6. CASE Launch \/ Begin \/ Wake \/ Accept \/ Receive
  BY <1>1, <1>6 DEF Launch, Begin, Wake, Accept, Receive, Release, Goto, End, scrape
<1> QED BY <1>2, <1>3, <1>4, <1>5, <1>6 DEF ExporterNext, Step

\* Once samples have been given away under the name the controller gives itself,
\* they are never given away under another, whatever GETs fail later.
THEOREM LabelIsKept == ExporterFairSpec => LabelStays
<1>1. ExporterInit => LabelInv
  BY DEF ExporterInit, LabelInv
<1>2. LabelInv /\ [ExporterNext]_exporterVars =>
         [(published \in {"named", "given"}) => (published' = published)]_exporterVars
  <2> SUFFICES ASSUME LabelInv, ExporterNext, published \in {"named", "given"}
               PROVE  published' = published
    OBVIOUS
  <2>1. CASE Push \/ Reply
    BY <2>1 DEF Push, Reply, LabelInv
  <2>2. CASE ~(Push \/ Reply)
    BY <2>2 DEF ExporterNext, Step, Client, Launch, Begin, Label, Read, LeafFails, SourceFails,
                Build, Wake, Accept, Receive, Change, Connect, Ask, HangUp
  <2> QED BY <2>1, <2>2
<1> QED BY <1>1, <1>2, LabelNext, PTL DEF ExporterFairSpec, ExporterSpec, LabelStays
=============================================================================
