--------------------------- MODULE RunCommandProofs ---------------------------
(***************************************************************************)
(* What one invocation of the command line guarantees whatever plan the    *)
(* commands follow, as long as the plans are written as PlanAssumption     *)
(* says, for collections of any size and any number of failures.           *)
(***************************************************************************)
EXTENDS RunCommand, SequenceTheorems, TLAPS

-----------------------------------------------------------------------------
(* Paths of nodes *)

\* A child is below what its parent is below, and above nothing but itself
\* that its parent is not above of.
LEMMA Children1 ==
    ASSUME NEW m \in Nodes, NEW x \in Nodes, NEW i \in Nat
    PROVE  /\ Append(m, i) \in Nodes
           /\ Below(m, m)
           /\ Below(Append(m, i), m)
           /\ ~Below(m, Append(m, i))
           /\ Below(x, Append(m, i)) => Below(x, m)
           /\ Below(Append(m, i), x) => Below(m, x) \/ x = Append(m, i)
<1> DEFINE c == Append(m, i)
<1>1. /\ c \in Seq(Nat) /\ Len(c) = Len(m) + 1
      /\ \A k \in 1..Len(m) : c[k] = m[k]
      /\ c[Len(m) + 1] = i
  BY DEF Nodes
<1>2. \A s, t \in Nodes : Below(s, t) <=> Len(t) <= Len(s) /\ \A k \in 1..Len(t) : s[k] = t[k]
  <2> TAKE s \in Nodes, t \in Nodes
  <2>1. CASE Len(t) <= Len(s)
    <3>1. /\ SubSeq(s, 1, Len(t)) \in Seq(Nat) /\ Len(SubSeq(s, 1, Len(t))) = Len(t)
          /\ \A k \in 1..Len(t) : SubSeq(s, 1, Len(t))[k] = s[k]
      BY <2>1 DEF Nodes
    <3>2. SubSeq(s, 1, Len(t)) = t <=> \A k \in 1..Len(t) : s[k] = t[k]
      BY <3>1, SeqEqual DEF Nodes
    <3> QED BY <2>1, <3>2 DEF Below
  <2> QED BY <2>1 DEF Below
<1>3. c \in Nodes /\ m \in Nodes /\ Len(m) \in Nat
  BY <1>1 DEF Nodes
<1> HIDE DEF c
<1>4. Below(m, m) /\ Below(c, m) /\ ~Below(m, c)
  BY <1>1, <1>2, <1>3
<1>5. ASSUME Below(x, c) PROVE Below(x, m)
  <2>1. Len(c) <= Len(x) /\ \A k \in 1..Len(c) : x[k] = c[k]
    BY <1>2, <1>3, <1>5
  <2>2. Len(m) <= Len(x) /\ \A k \in 1..Len(m) : k \in 1..Len(c)
    BY <1>1, <1>3, <2>1 DEF Nodes
  <2>3. \A k \in 1..Len(m) : x[k] = m[k]
    BY <1>1, <2>1, <2>2
  <2> QED BY <1>2, <1>3, <2>2, <2>3
<1>6. ASSUME Below(c, x) PROVE Below(m, x) \/ x = c
  <2>1. Len(x) <= Len(m) + 1 /\ \A k \in 1..Len(x) : c[k] = x[k]
    BY <1>1, <1>2, <1>3, <1>6
  <2>2. CASE Len(x) <= Len(m)
    BY <1>1, <1>2, <1>3, <2>1, <2>2 DEF Nodes
  <2>3. CASE Len(x) = Len(m) + 1
    BY <1>1, <2>1, <2>3 DEF Nodes
  <2> QED BY <2>1, <2>2, <2>3 DEF Nodes
<1> QED BY <1>3, <1>4, <1>5, <1>6 DEF c

Incomparable(a, b) == ~Below(a, b) /\ ~Below(b, a)

\* The child of a node is apart from what the node is apart from.
LEMMA ChildApart ==
    ASSUME NEW m \in Nodes, NEW x \in Nodes, NEW i \in Nat, Incomparable(m, x)
    PROVE  Incomparable(Append(m, i), x)
<1>1. CASE x = Append(m, i)
  BY <1>1, Children1 DEF Incomparable
<1> QED BY <1>1, Children1 DEF Incomparable

\* A node has one parent, and its place among the children of that parent.
LEMMA OneParent ==
    ASSUME NEW m \in Nodes, NEW x \in Nodes, NEW i \in Nat, NEW j \in Nat,
           Append(m, i) = Append(x, j)
    PROVE  m = x /\ i = j
BY AppendInjective DEF Nodes

\* Two children of a node are apart.
LEMMA SiblingsApart ==
    ASSUME NEW m \in Nodes, NEW i \in Nat, NEW j \in Nat, i # j
    PROVE  Incomparable(Append(m, i), Append(m, j))
<1>1. Append(m, i) # Append(m, j)
  BY OneParent
<1>2. Append(m, i) \in Nodes /\ Append(m, j) \in Nodes
  BY Children1
<1> QED BY <1>1, <1>2, Children1 DEF Incomparable

-----------------------------------------------------------------------------
(* The branches still to be followed *)

\* Where the elements of r come from, and two of them, when r is q with its
\* head replaced by a.
Spliced(q, a, r) ==
    /\ Len(r) = Len(a) + Len(q) - 1
    /\ \A k \in 1..Len(r) :
          \/ \E j \in 2..Len(q) : r[k] = q[j]
          \/ \E j \in 1..Len(a) : r[k] = a[j]
    /\ \A j \in 2..Len(q) : \E k \in 1..Len(r) : r[k] = q[j]
    /\ \A j \in 1..Len(a) : \E k \in 1..Len(r) : r[k] = a[j]
    /\ \A k, l \in 1..Len(r) : k # l =>
          \/ \E i, j \in 2..Len(q) : i # j /\ r[k] = q[i] /\ r[l] = q[j]
          \/ \E i, j \in 1..Len(a) : i # j /\ r[k] = a[i] /\ r[l] = a[j]
          \/ \E i \in 2..Len(q), j \in 1..Len(a) :
                \/ r[k] = q[i] /\ r[l] = a[j]
                \/ r[l] = q[i] /\ r[k] = a[j]

\* The head may be replaced in front or behind.
LEMMA Splicing ==
    ASSUME NEW S, NEW q \in Seq(S), q # <<>>, NEW a \in Seq(S), NEW r,
           r = a \o Tail(q) \/ r = Tail(q) \o a
    PROVE  r \in Seq(S) /\ Spliced(q, a, r)
<1> DEFINE t == Tail(q)
<1>1. /\ t \in Seq(S) /\ Len(t) = Len(q) - 1 /\ Len(q) \in Nat \ {0}
      /\ \A j \in 1..Len(t) : t[j] = q[j + 1]
  OBVIOUS
<1> HIDE DEF t
<1>2. CASE r = a \o t
  <2>1. /\ r \in Seq(S) /\ Len(r) = Len(a) + Len(t) /\ Len(a) \in Nat
        /\ \A k \in 1..Len(a) : r[k] = a[k]
        /\ \A k \in Len(a) + 1..Len(r) : r[k] = t[k - Len(a)]
    BY <1>1, <1>2
  <2>2. \A k \in Len(a) + 1..Len(r) :
            \E j \in 2..Len(q) : j = (k - Len(a)) + 1 /\ r[k] = q[j]
    <3> TAKE k \in Len(a) + 1..Len(r)
    <3>0. Len(a) \in Nat /\ Len(t) \in Nat /\ Len(r) = Len(a) + Len(t)
      BY <1>1, <2>1
    <3> DEFINE i == k - Len(a)
    <3>1. i \in 1..Len(t) /\ i = k - Len(a) /\ r[k] = t[i]
      BY <2>1, <3>0
    <3> HIDE DEF i
    <3>2. r[k] = t[i] /\ t[i] = q[i + 1]
      BY <1>1, <3>1
    <3>3. i + 1 \in 2..Len(q) /\ i + 1 = (k - Len(a)) + 1
      BY <1>1, <3>1
    <3> QED BY <3>2, <3>3
  <2>3. \A j \in 2..Len(q) : Len(a) + (j - 1) \in Len(a) + 1..Len(r) /\ r[Len(a) + (j - 1)] = q[j]
    <3> TAKE j \in 2..Len(q)
    <3>1. j - 1 \in 1..Len(t) /\ (Len(a) + (j - 1)) - Len(a) = j - 1 /\ (j - 1) + 1 = j
      BY <1>1, <2>1
    <3>2. Len(a) + (j - 1) \in Len(a) + 1..Len(r)
      BY <2>1, <3>1
    <3>3. r[Len(a) + (j - 1)] = t[j - 1] /\ t[j - 1] = q[j]
      BY <1>1, <2>1, <3>1, <3>2
    <3> QED BY <3>2, <3>3
  <2>4. \A k \in 1..Len(r) : k \in 1..Len(a) \/ k \in Len(a) + 1..Len(r)
    BY <2>1
  <2>5. ASSUME NEW k \in 1..Len(r), NEW l \in 1..Len(r), k # l
        PROVE  \/ \E i, j \in 2..Len(q) : i # j /\ r[k] = q[i] /\ r[l] = q[j]
               \/ \E i, j \in 1..Len(a) : i # j /\ r[k] = a[i] /\ r[l] = a[j]
               \/ \E i \in 2..Len(q), j \in 1..Len(a) :
                     \/ r[k] = q[i] /\ r[l] = a[j]
                     \/ r[l] = q[i] /\ r[k] = a[j]
    <3>1. CASE k \in 1..Len(a) /\ l \in 1..Len(a)
      BY <2>1, <2>5, <3>1
    <3>2. CASE k \in 1..Len(a) /\ l \in Len(a) + 1..Len(r)
      BY <2>1, <2>2, <3>2
    <3>3. CASE l \in 1..Len(a) /\ k \in Len(a) + 1..Len(r)
      BY <2>1, <2>2, <3>3
    <3>4. CASE k \in Len(a) + 1..Len(r) /\ l \in Len(a) + 1..Len(r)
      <4>1. PICK i \in 2..Len(q) : i = (k - Len(a)) + 1 /\ r[k] = q[i]
        BY <2>2, <3>4
      <4>2. PICK j \in 2..Len(q) : j = (l - Len(a)) + 1 /\ r[l] = q[j]
        BY <2>2, <3>4
      <4>3. i = (k - Len(a)) + 1 /\ j = (l - Len(a)) + 1 /\ Len(a) \in Nat
        BY <2>1, <4>1, <4>2
      <4>4. i # j
        BY <2>5, <4>3
      <4> QED BY <4>1, <4>2, <4>4
    <3> QED BY <2>4, <3>1, <3>2, <3>3, <3>4
  <2>6. Len(r) = Len(a) + Len(q) - 1
    BY <1>1, <2>1
  <2>7. \A j \in 1..Len(a) : \E k \in 1..Len(r) : r[k] = a[j]
    BY <1>1, <2>1
  <2>8. \A j \in 2..Len(q) : \E k \in 1..Len(r) : r[k] = q[j]
    <3> TAKE j \in 2..Len(q)
    <3>1. Len(a) + (j - 1) \in 1..Len(r) /\ r[Len(a) + (j - 1)] = q[j]
      BY <2>1, <2>3
    <3> QED BY <3>1
  <2>9. \A k \in 1..Len(r) : \/ \E j \in 2..Len(q) : r[k] = q[j]
                             \/ \E j \in 1..Len(a) : r[k] = a[j]
    BY <2>1, <2>2, <2>4
  <2> QED BY <2>1, <2>5, <2>6, <2>7, <2>8, <2>9 DEF Spliced
<1>3. CASE r = t \o a
  <2>1. /\ r \in Seq(S) /\ Len(r) = Len(a) + Len(t) /\ Len(a) \in Nat
        /\ \A k \in 1..Len(t) : r[k] = t[k]
        /\ \A k \in Len(t) + 1..Len(r) : r[k] = a[k - Len(t)]
    BY <1>1, <1>3
  <2>2. \A k \in 1..Len(t) : k + 1 \in 2..Len(q) /\ r[k] = q[k + 1]
    BY <1>1, <2>1
  <2>3. \A j \in 2..Len(q) : j - 1 \in 1..Len(t) /\ r[j - 1] = q[j]
    BY <1>1, <2>1
  <2>4. \A k \in Len(t) + 1..Len(r) : k - Len(t) \in 1..Len(a)
    BY <2>1
  <2>5. \A j \in 1..Len(a) : \E k \in 1..Len(r) : r[k] = a[j]
    <3> TAKE j \in 1..Len(a)
    <3>1. j + Len(t) \in Len(t) + 1..Len(r) /\ (j + Len(t)) - Len(t) = j
      BY <1>1, <2>1
    <3>2. r[j + Len(t)] = a[j]
      BY <2>1, <3>1
    <3> QED BY <1>1, <2>1, <3>1, <3>2
  <2>6. \A k \in 1..Len(r) : k \in 1..Len(t) \/ k \in Len(t) + 1..Len(r)
    BY <1>1, <2>1
  <2>7. ASSUME NEW k \in 1..Len(r), NEW l \in 1..Len(r), k # l
        PROVE  \/ \E i, j \in 2..Len(q) : i # j /\ r[k] = q[i] /\ r[l] = q[j]
               \/ \E i, j \in 1..Len(a) : i # j /\ r[k] = a[i] /\ r[l] = a[j]
               \/ \E i \in 2..Len(q), j \in 1..Len(a) :
                     \/ r[k] = q[i] /\ r[l] = a[j]
                     \/ r[l] = q[i] /\ r[k] = a[j]
    <3>1. CASE k \in 1..Len(t) /\ l \in 1..Len(t)
      <4>1. k + 1 # l + 1
        BY <2>7
      <4> QED BY <2>2, <3>1, <4>1
    <3>2. CASE k \in 1..Len(t) /\ l \in Len(t) + 1..Len(r)
      BY <2>1, <2>2, <2>4, <3>2
    <3>3. CASE l \in 1..Len(t) /\ k \in Len(t) + 1..Len(r)
      BY <2>1, <2>2, <2>4, <3>3
    <3>4. CASE k \in Len(t) + 1..Len(r) /\ l \in Len(t) + 1..Len(r)
      <4>1. k - Len(t) # l - Len(t)
        BY <1>1, <2>7
      <4> QED BY <2>1, <2>4, <3>4, <4>1
    <3> QED BY <2>6, <3>1, <3>2, <3>3, <3>4
  <2>8. \A j \in 2..Len(q) : \E k \in 1..Len(r) : r[k] = q[j]
    BY <1>1, <2>1, <2>3
  <2>9. \A k \in 1..Len(r) : \/ \E j \in 2..Len(q) : r[k] = q[j]
                             \/ \E j \in 1..Len(a) : r[k] = a[j]
    BY <2>1, <2>2, <2>4, <2>6
  <2>10. Len(r) = Len(a) + Len(q) - 1
    BY <1>1, <2>1
  <2> QED BY <2>1, <2>5, <2>7, <2>8, <2>9, <2>10 DEF Spliced
<1> QED BY <1>2, <1>3 DEF t

\* Which element is where when it is replaced in front.
InFront(q, a, r) ==
    /\ Len(a) \in Nat /\ Len(r) = (Len(a) + Len(q)) - 1
    /\ \A k \in 1..Len(a) : r[k] = a[k]
    /\ \A k \in Len(a) + 1..Len(r) :
          \E j \in 2..Len(q) : j = (k - Len(a)) + 1 /\ r[k] = q[j]

LEMMA SplicedInFront ==
    ASSUME NEW S, NEW q \in Seq(S), q # <<>>, NEW a \in Seq(S), NEW r, r = a \o Tail(q)
    PROVE  InFront(q, a, r)
<1> DEFINE t == Tail(q)
<1>1. /\ t \in Seq(S) /\ Len(t) = Len(q) - 1 /\ Len(q) \in Nat \ {0}
      /\ \A j \in 1..Len(t) : t[j] = q[j + 1]
  OBVIOUS
<1> HIDE DEF t
<1>2. /\ Len(r) = Len(a) + Len(t) /\ Len(a) \in Nat
      /\ \A k \in 1..Len(a) : r[k] = a[k]
      /\ \A k \in Len(a) + 1..Len(r) : r[k] = t[k - Len(a)]
  BY <1>1 DEF t
<1>3. ASSUME NEW k \in Len(a) + 1..Len(r)
      PROVE  \E j \in 2..Len(q) : j = (k - Len(a)) + 1 /\ r[k] = q[j]
  <2> DEFINE i == k - Len(a)
  <2>1. i \in 1..Len(t) /\ i = k - Len(a) /\ r[k] = t[i]
    BY <1>1, <1>2
  <2> HIDE DEF i
  <2>2. r[k] = q[i + 1]
    BY <1>1, <2>1
  <2>3. i + 1 \in 2..Len(q) /\ i + 1 = (k - Len(a)) + 1
    BY <1>1, <2>1
  <2> QED BY <2>2, <2>3
<1> QED BY <1>1, <1>2, <1>3 DEF InFront

-----------------------------------------------------------------------------
(* What a step does to the branches, the rows and the history of the walk *)

AddsRow == \E v \in BOOLEAN : rows' = rows \union {[node |-> branch.node, read |-> v]}

\* The step the head of pending is at has one of ops.
Here(ops) == branch.step \in DOMAIN plan /\ step.op \in ops

Kept == UNCHANGED <<pending, rows, read_from, given_up>>

Skipped ==
    /\ Here({"get"})
    /\ Leave
    /\ given_up' = given_up \union (IF branch.stray THEN {} ELSE {branch.node})
    /\ UNCHANGED <<rows, read_from>>

\* What was read and found on the way of a branch that goes on: less by a GET the
\* command does not insist on, or at a root.
GoesOn(v, w) ==
    \/ Here({"get"}) /\ "go" \in {step.lacks, step.then}
    \/ (v = branch.read \/ v = TRUE) /\ (w => Here(Roots) \/ (branch.nowhere /\ ~Here({"get"})))

Went ==
    /\ Here(Reads \union {"if_no_row", "send", "watch", "await", "reboot", "unless", "else"})
    /\ \E v, w \in BOOLEAN : Follow([next EXCEPT !.read = v, !.nowhere = w]) /\ GoesOn(v, w)
    /\ UNCHANGED <<rows, read_from, given_up>>

Jumped ==
    /\ Here({"unless", "else"})
    /\ Follow([branch EXCEPT !.step = step.to, !.read = TRUE, !.nowhere = FALSE])
    /\ UNCHANGED <<rows, read_from, given_up>>

Rowed ==
    /\ Here({"get", "row"})
    /\ Leave /\ AddsRow
    /\ UNCHANGED <<read_from, given_up>>

Repeated ==
    /\ Here({"again"})
    /\ pending' = Append(Tail(pending), [branch EXCEPT !.step = @ - 1, !.stray = TRUE])
    /\ AddsRow
    /\ UNCHANGED <<read_from, given_up>>

Walked ==
    /\ \/ Here({"each"}) /\ pending' = Children \o Tail(pending)
       \/ Here({"gather"}) /\ pending' = Tail(pending) \o Children
    /\ read_from' = read_from \union {branch.node}
    /\ UNCHANGED <<rows, given_up>>

Split ==
    /\ Here({"fork"})
    /\ pending' = Forked \o Tail(pending)
    /\ UNCHANGED <<rows, read_from, given_up>>

Dropped ==
    /\ Here({"if_no_row", "end"}) \/ branch.step > Len(plan)
    /\ Leave
    /\ UNCHANGED <<rows, read_from, given_up>>

Moved ==
    /\ phase = "execute" /\ pending # <<>>
    /\ \/ Skipped \/ Went \/ Jumped \/ Rowed \/ Repeated
       \/ Walked \/ Split \/ Dropped

\* The plan that is followed is one of the command's, and written as assumed.
LEMMA PlanFacts ==
    ASSUME TypeOK
    PROVE  /\ plan \in Seq(Steps) /\ Len(plan) \in Nat /\ DOMAIN plan = 1..Len(plan)
           /\ JumpsForward(plan) /\ AsksAgain(plan) /\ Insists(plan)
           /\ ActsOnce(plan) /\ MembersHaveRows(plan)
<1>1. plan \in Seq(Steps)
  BY RunCommandAssumption DEF TypeOK
<1> QED BY <1>1, PlanAssumption DEF TypeOK

\* The head of pending is a branch, and the rest are branches.
LEMMA HeadFacts ==
    ASSUME TypeOK, pending # <<>>
    PROVE  /\ pending \in Seq(Branches) /\ Len(pending) \in Nat \ {0}
           /\ branch = pending[1] /\ branch \in Branches
           /\ Tail(pending) \in Seq(Branches)
BY DEF TypeOK, branch

\* An operation is that of a step of the plan.
LEMMA AtFacts ==
    ASSUME TypeOK, NEW op, At(op)
    PROVE  /\ phase = "execute" /\ pending # <<>> /\ branch \in Branches
           /\ branch.step \in DOMAIN plan /\ step \in Steps /\ step.op = op
<1>1. branch \in Branches /\ pending # <<>>
  BY HeadFacts DEF At
<1>2. branch.step \in 1..Len(plan)
  BY <1>1, PlanFacts DEF At, Branches
<1> QED BY <1>1, <1>2, PlanFacts DEF At, step

\* What becomes of a branch whose GET gave nothing is one of the moves.
LEMMA HandleMoves ==
    ASSUME TypeOK, At("get"), NEW how, how = "go" => how \in {step.lacks, step.then},
           Handle(how), UNCHANGED read_from
    PROVE  Kept \/ (Moved /\ (Skipped \/ Went \/ Rowed))
<1>1. phase = "execute" /\ pending # <<>> /\ Here({"get"}) /\ branch \in Branches
  BY AtFacts DEF Here
<1>2. CASE how = "skip"
  BY <1>1, <1>2 DEF Handle, Exceptions, Moved, Skipped
<1>3. CASE how = "go"
  <2>1. /\ Follow([next EXCEPT !.read = FALSE]) /\ UNCHANGED <<rows, read_from, given_up>>
        /\ GoesOn(FALSE, branch.nowhere)
    BY <1>1, <1>3 DEF Handle, Exceptions, GoesOn
  <2>2. /\ [next EXCEPT !.read = FALSE] = [next EXCEPT !.read = FALSE, !.nowhere = branch.nowhere]
        /\ branch.nowhere \in BOOLEAN
    BY <1>1 DEF next, Branches
  <2>3. Went
    BY <1>1, <2>1, <2>2 DEF Went, Here, Reads, Roots
  <2> QED BY <1>1, <2>3 DEF Moved
<1>4. CASE how = "row"
  BY <1>1, <1>4 DEF Handle, Exceptions, Moved, Rowed, Here, AddsRow
<1>5. CASE how \notin {"skip", "go", "row"}
  BY <1>5 DEF Handle, Kept
<1> QED BY <1>2, <1>3, <1>4, <1>5

\* Which failure a GET has makes the branch one of those.
LEMMA FailsMoves ==
    ASSUME TypeOK, At("get"), NEW f \in Failures, Fails(f), UNCHANGED read_from
    PROVE  Kept \/ (Moved /\ (Skipped \/ Went \/ Rowed))
<1>1. Raises(f) # "go"
  BY DEF Failures, Raises
<1>2. CASE Handle(step.lacks)
  BY <1>2, HandleMoves
<1>3. CASE Handle(step.then)
  BY <1>3, HandleMoves
<1>4. CASE Handle(Raises(f))
  BY <1>1, <1>4, HandleMoves
<1> QED BY <1>2, <1>3, <1>4 DEF Fails

\* A branch that goes on as it is has gone.
LEMMA FollowMoves ==
    ASSUME TypeOK, NEW op \in {"get", "if_no_row", "send", "watch", "await", "reboot"},
           At(op), op = "get" => ~branch.nowhere,
           Follow(next), UNCHANGED <<rows, read_from, given_up>>
    PROVE  Moved /\ Went
<1>1. phase = "execute" /\ pending # <<>> /\ Here({op}) /\ branch \in Branches
  BY AtFacts DEF Here
<1>2. /\ next = [next EXCEPT !.read = branch.read, !.nowhere = branch.nowhere]
      /\ branch.read \in BOOLEAN /\ branch.nowhere \in BOOLEAN
  BY <1>1 DEF next, Branches
<1>3. GoesOn(branch.read, branch.nowhere)
  BY <1>1 DEF GoesOn, Here
<1>4. Went
  BY <1>1, <1>2, <1>3 DEF Went, Here, Reads, Roots
<1> QED BY <1>1, <1>4 DEF Moved

\* So has one that has found a root, or has not.
LEMMA RootMoves ==
    ASSUME TypeOK, NEW root \in Roots, At(root), NEW w \in BOOLEAN,
           Follow([next EXCEPT !.nowhere = w]), UNCHANGED <<rows, read_from, given_up>>
    PROVE  Moved /\ Went
<1>1. phase = "execute" /\ pending # <<>> /\ Here({root}) /\ branch \in Branches
  BY AtFacts DEF Here
<1>2. /\ [next EXCEPT !.nowhere = w] = [next EXCEPT !.read = branch.read, !.nowhere = w]
      /\ branch.read \in BOOLEAN
  BY <1>1 DEF next, Branches
<1>3. GoesOn(branch.read, w)
  BY <1>1 DEF GoesOn, Here
<1>4. Went
  BY <1>1, <1>2, <1>3 DEF Went, Here, Reads, Roots
<1> QED BY <1>1, <1>4 DEF Moved

\* A jump is a move of the branch it is made in.
LEMMA JumpMoves ==
    ASSUME TypeOK, Jump
    PROVE  Moved /\ (Went \/ Jumped \/ Split \/ Dropped)
<1> USE DEF Jump
<1>1. CASE At("fork") /\ pending' = Forked \o Tail(pending)
  BY <1>1, AtFacts DEF Moved, Split, Here
<1>2. CASE /\ At("unless")
           /\ Follow([next EXCEPT !.read = TRUE, !.nowhere = FALSE, !.step = IF branch.read THEN step.to ELSE @])
  <2>1. Here({"unless", "else"}) /\ phase = "execute" /\ pending # <<>> /\ branch \in Branches
    BY <1>2, AtFacts DEF Here
  <2>2. CASE branch.read
    <3>1. Follow([branch EXCEPT !.step = step.to, !.read = TRUE, !.nowhere = FALSE])
      BY <1>2, <2>1, <2>2 DEF next, Branches
    <3> QED BY <2>1, <3>1 DEF Moved, Jumped
  <2>3. CASE ~branch.read
    <3>1. Follow([next EXCEPT !.read = TRUE, !.nowhere = FALSE])
      BY <1>2, <2>1, <2>3 DEF next, Branches
    <3>2. GoesOn(TRUE, FALSE)
      BY DEF GoesOn
    <3> QED BY <2>1, <3>1, <3>2 DEF Moved, Went, Here
  <2> QED BY <2>2, <2>3
<1>3. CASE /\ At("else")
           /\ Follow([next EXCEPT !.read = TRUE, !.nowhere = FALSE, !.step = IF branch.read THEN @ ELSE step.to])
  <2>1. Here({"unless", "else"}) /\ phase = "execute" /\ pending # <<>> /\ branch \in Branches
    BY <1>3, AtFacts DEF Here
  <2>2. CASE ~branch.read
    <3>1. Follow([branch EXCEPT !.step = step.to, !.read = TRUE, !.nowhere = FALSE])
      BY <1>3, <2>1, <2>2 DEF next, Branches
    <3> QED BY <2>1, <3>1 DEF Moved, Jumped
  <2>3. CASE branch.read
    <3>1. Follow([next EXCEPT !.read = TRUE, !.nowhere = FALSE])
      BY <1>3, <2>1, <2>3 DEF next, Branches
    <3>2. GoesOn(TRUE, FALSE)
      BY DEF GoesOn
    <3> QED BY <2>1, <3>1, <3>2 DEF Moved, Went, Here
  <2> QED BY <2>2, <2>3
<1>4. CASE At("if_no_row") /\ IF rows = {} THEN Follow(next) ELSE Leave
  <2>1. CASE Follow(next)
    BY <1>4, <2>1, FollowMoves
  <2>2. CASE Leave
    BY <1>4, <2>2, AtFacts DEF Moved, Dropped, Here
  <2> QED BY <1>4, <2>1, <2>2
<1>5. CASE At("end") /\ Leave
  BY <1>5, AtFacts DEF Moved, Dropped, Here
<1>6. CASE phase = "execute" /\ pending # <<>> /\ branch.step > Len(plan) /\ Leave
  BY <1>6 DEF Moved, Dropped
<1> QED BY <1>1, <1>2, <1>3, <1>4, <1>5, <1>6

\* So are the loops and the rows.
LEMMA LocalMoves ==
    ASSUME TypeOK, Local
    PROVE  Moved
<1>1. CASE Walk
  <2>1. CASE At("each") /\ pending' = Children \o Tail(pending)
    BY <1>1, <2>1, AtFacts DEF Walk, Moved, Walked, Here
  <2>2. CASE At("gather") /\ pending' = Tail(pending) \o Children
    BY <1>1, <2>2, AtFacts DEF Walk, Moved, Walked, Here
  <2> QED BY <1>1, <2>1, <2>2 DEF Walk
<1>2. CASE AddRow
  <2>1. branch \in Branches => AddsRow
    BY <1>2 DEF AddRow, AddsRow, Branches
  <2>2. CASE At("row") /\ Leave
    BY <1>2, <2>1, <2>2, AtFacts DEF AddRow, Moved, Rowed, Here
  <2>3. CASE /\ At("again")
             /\ pending' = Append(Tail(pending), [branch EXCEPT !.step = @ - 1, !.stray = TRUE])
    BY <1>2, <2>1, <2>3, AtFacts DEF AddRow, Moved, Repeated, Here
  <2> QED BY <1>2, <2>2, <2>3 DEF AddRow
<1>3. CASE Jump
  BY <1>3, JumpMoves
<1> QED BY <1>1, <1>2, <1>3 DEF Local

\* And so is every step that touches the walk.
LEMMA Moves ==
    ASSUME TypeOK, [Next]_vars
    PROVE  /\ UNCHANGED invocation
           /\ Kept \/ Moved
<1>1. UNCHANGED invocation
  BY DEF Next, vars, CheckVersion, CommandReturns, AskVendor, AskVersions, Answered, Incomplete,
         Refused, Stray, AskNowhere, Resolve, Local, LocalError, Sent, SentNowhere, SentInVain,
         WatchTask, RebootHost
<1> SUFFICES Kept \/ Moved
  BY <1>1
<1>2. CASE CheckVersion \/ CommandReturns \/ AskVendor \/ AskVersions \/ LocalError \/ UNCHANGED vars
  BY <1>2 DEF CheckVersion, CommandReturns, AskVendor, AskVersions, LocalError, vars, walk, Kept
<1>3. CASE Answered
  BY <1>3, FollowMoves DEF Answered
<1>4. CASE Incomplete
  BY <1>4, HandleMoves DEF Incomplete
<1>5. CASE Refused \/ Stray
  <2>1. PICK f \in Failures : Fails(f)
    BY <1>5 DEF Refused, Stray, Failures
  <2> QED BY <1>5, <2>1, FailsMoves DEF Refused, Stray
<1>6. CASE Resolve
  <2>1. PICK root \in Roots : FindRoot(root) \/ RootFails(root)
    BY <1>6 DEF Resolve
  <2>2. UNCHANGED <<rows, read_from, given_up>>
    BY <1>6 DEF Resolve
  <2>3. CASE Follow([next EXCEPT !.nowhere = kept'[root] = "nothing"])
    <3>1. At(root) /\ (kept'[root] = "nothing") \in BOOLEAN
      BY <2>1 DEF FindRoot, RootFails
    <3> QED BY <2>2, <2>3, <3>1, RootMoves
  <2>4. CASE UNCHANGED pending
    BY <2>2, <2>4 DEF Kept
  <2> QED BY <2>1, <2>3, <2>4 DEF FindRoot, RootFails
<1>7. CASE Local
  BY <1>7, LocalMoves
<1>8. CASE Sent
  <2>1. At("send") /\ (Follow(next) \/ UNCHANGED pending) /\ UNCHANGED <<rows, read_from, given_up>>
    BY <1>8 DEF Sent, Report
  <2>2. CASE Follow(next)
    BY <2>1, <2>2, FollowMoves
  <2> QED BY <2>1, <2>2 DEF Kept
<1>9. CASE SentInVain \/ SentNowhere
  <2>1. At("send") /\ (Follow(next) \/ UNCHANGED pending) /\ UNCHANGED <<rows, read_from, given_up>>
    BY <1>9 DEF SentInVain, SentNowhere, Report
  <2>2. CASE Follow(next)
    BY <2>1, <2>2, FollowMoves
  <2> QED BY <2>1, <2>2 DEF Kept
<1>10. CASE WatchTask
  <2>1. /\ At("watch") \/ At("await")
        /\ Follow(next) \/ UNCHANGED pending
        /\ UNCHANGED <<rows, read_from, given_up>>
    BY <1>10 DEF WatchTask
  <2>2. CASE Follow(next)
    BY <2>1, <2>2, FollowMoves
  <2> QED BY <2>1, <2>2 DEF Kept
<1>11. CASE RebootHost
  <2>1. /\ At("reboot")
        /\ Follow(next) \/ UNCHANGED pending
        /\ UNCHANGED <<rows, read_from, given_up>>
    BY <1>11 DEF RebootHost
  <2>2. CASE Follow(next)
    BY <2>1, <2>2, FollowMoves
  <2> QED BY <2>1, <2>2 DEF Kept
<1>12. CASE AskNowhere
  <2>1. At("get") /\ UNCHANGED read_from
    BY <1>12 DEF AskNowhere
  <2>2. PICK how : Handle(how) /\ (how = "go" => how \in {step.lacks, step.then})
    <3>1. CASE \E f \in Failures : Fails(f)
      <4>1. \A f \in Failures : Raises(f) # "go"
        BY DEF Failures, Raises
      <4> QED BY <3>1, <4>1 DEF Fails
    <3> QED BY <1>12, <3>1 DEF AskNowhere
  <2> QED BY <2>1, <2>2, HandleMoves
<1> QED BY <1>2, <1>3, <1>4, <1>5, <1>6, <1>7, <1>8, <1>9, <1>10, <1>11, <1>12 DEF Next

-----------------------------------------------------------------------------
(* Types *)

\* The branch one step on.
LEMMA NextBranch ==
    ASSUME branch \in Branches
    PROVE  /\ next \in Branches
           /\ next.step = branch.step + 1 /\ next.node = branch.node
           /\ next.read = branch.read /\ next.stray = branch.stray
           /\ next.nowhere = branch.nowhere
<1>1. branch.step + 1 \in Nat \ {0}
  BY DEF Branches
<1> QED BY <1>1 DEF next, Branches

\* What takes the place of a branch are branches again.
LEMMA ReplacementFacts ==
    ASSUME TypeOK, pending # <<>>
    PROVE  /\ Children \in Seq(Branches) /\ Len(Children) = Fan
           /\ \A i \in 1..Fan : Children[i] = Branch(branch.step + 1, Append(branch.node, i))
           /\ Here({"fork"}) => Forked \in Seq(Branches)
           /\ Len(Forked) = 2
           /\ Forked[1] = [next EXCEPT !.node = Append(@, 1)]
           /\ Forked[2] = Branch(step.to, Append(branch.node, 0))
<1>1. branch \in Branches /\ Fan \in Nat
  BY HeadFacts, RunCommandAssumption
<1>2. \A i \in Nat : Append(branch.node, i) \in Nodes
  BY <1>1, Children1 DEF Branches
<1>3. \A i \in Nat : Branch(branch.step + 1, Append(branch.node, i)) \in Branches
  BY <1>1, <1>2 DEF Branch, Branches
<1>4. Children \in [1..Fan -> Branches]
  BY <1>1, <1>3 DEF Children
<1>5. Children \in Seq(Branches) /\ Len(Children) = Fan
  BY <1>1, <1>4, SeqDef
<1>6. ASSUME Here({"fork"}) PROVE Forked \in Seq(Branches)
  <2>1. step.to \in Nat \ {0}
    <3>1. plan[branch.step].to \in branch.step + 1..Len(plan) /\ branch.step \in Nat
      BY <1>1, <1>6, PlanFacts DEF Here, step, JumpsForward, Branches
    <3> QED BY <3>1, PlanFacts DEF step
  <2>2. /\ Branch(step.to, Append(branch.node, 0)) \in Branches
        /\ [next EXCEPT !.node = Append(@, 1)] \in Branches
    BY <1>1, <1>2, <2>1, NextBranch DEF Branch, Branches
  <2> QED BY <2>2 DEF Forked
<1>7. /\ Len(Forked) = 2
      /\ Forked[1] = [next EXCEPT !.node = Append(@, 1)]
      /\ Forked[2] = Branch(step.to, Append(branch.node, 0))
  BY DEF Forked
<1> QED BY <1>4, <1>5, <1>6, <1>7 DEF Children

\* The branch that asks for one more of a list is a branch.
LEMMA AgainFacts ==
    ASSUME TypeOK, pending # <<>>, Here({"again"})
    PROVE  /\ [branch EXCEPT !.step = @ - 1, !.stray = TRUE] \in Branches
           /\ branch.step - 1 \in DOMAIN plan /\ plan[branch.step - 1].op = "get"
<1>1. branch \in Branches /\ branch.step \in 1..Len(plan)
  BY HeadFacts, PlanFacts DEF Here
<1>2. branch.step > 1 /\ plan[branch.step - 1].op = "get"
  BY PlanFacts DEF Here, step, AsksAgain
<1>3. branch.step - 1 \in 1..Len(plan) /\ branch.step - 1 \in Nat \ {0}
  BY <1>1, <1>2, PlanFacts DEF Branches
<1>4. [branch EXCEPT !.step = @ - 1, !.stray = TRUE] \in Branches
  BY <1>1, <1>3 DEF Branches
<1> QED BY <1>2, <1>3, <1>4, PlanFacts

\* The branches, the rows and the history of the walk keep their types.
LEMMA MovesTyped ==
    ASSUME TypeOK, Moved
    PROVE  /\ pending' \in Seq(Branches)
           /\ read_from' \subseteq Nodes /\ given_up' \subseteq Nodes
           /\ rows' \subseteq [node : Nodes, read : BOOLEAN]
<1>1. /\ pending # <<>> /\ branch \in Branches /\ branch.node \in Nodes
      /\ pending \in Seq(Branches) /\ Tail(pending) \in Seq(Branches)
  BY HeadFacts DEF Moved, Branches
<1>2. /\ read_from \subseteq Nodes /\ given_up \subseteq Nodes
      /\ rows \subseteq [node : Nodes, read : BOOLEAN]
  BY DEF TypeOK
<1>3. AddsRow => rows' \subseteq [node : Nodes, read : BOOLEAN]
  BY <1>1, <1>2 DEF AddsRow
<1>4. CASE Skipped
  BY <1>1, <1>2, <1>4 DEF Skipped, Leave
<1>5. CASE Went
  <2>1. PICK v, w \in BOOLEAN : Follow([next EXCEPT !.read = v, !.nowhere = w])
    BY <1>5 DEF Went
  <2>2. [next EXCEPT !.read = v, !.nowhere = w] \in Branches
    BY <1>1, NextBranch DEF Branches
  <2>3. pending' \in Seq(Branches)
    BY <1>1, <2>1, <2>2 DEF Follow
  <2> QED BY <1>2, <1>5, <2>3 DEF Went
<1>6. CASE Jumped
  <2>1. step.to \in Nat \ {0}
    <3>1. plan[branch.step].to \in branch.step + 1..Len(plan) /\ branch.step \in Nat
      BY <1>1, <1>6, PlanFacts DEF Jumped, Here, step, JumpsForward, Branches
    <3> QED BY <3>1, PlanFacts DEF step
  <2>2. [branch EXCEPT !.step = step.to, !.read = TRUE, !.nowhere = FALSE] \in Branches
    BY <1>1, <2>1 DEF Branches
  <2>3. pending' \in Seq(Branches)
    BY <1>1, <1>6, <2>2 DEF Jumped, Follow
  <2> QED BY <1>2, <1>6, <2>3 DEF Jumped
<1>7. CASE Rowed
  BY <1>1, <1>2, <1>3, <1>7 DEF Rowed, Leave
<1>8. CASE Repeated
  BY <1>1, <1>2, <1>3, <1>8, AgainFacts DEF Repeated
<1>9. CASE Walked
  <2>1. pending' \in Seq(Branches)
    <3>1. Children \in Seq(Branches) /\ Tail(pending) \in Seq(Branches)
      BY <1>1, ReplacementFacts
    <3>2. /\ Children \o Tail(pending) \in Seq(Branches)
          /\ Tail(pending) \o Children \in Seq(Branches)
      BY <3>1
    <3> QED BY <1>9, <3>2 DEF Walked
  <2> QED BY <1>1, <1>2, <1>9, <2>1 DEF Walked
<1>10. CASE Split
  <2>1. pending' \in Seq(Branches)
    BY <1>1, <1>10, ReplacementFacts, ConcatProperties DEF Split
  <2> QED BY <1>2, <1>10, <2>1 DEF Split
<1>11. CASE Dropped
  BY <1>1, <1>2, <1>11 DEF Dropped, Leave
<1> QED BY <1>4, <1>5, <1>6, <1>7, <1>8, <1>9, <1>10, <1>11 DEF Moved

\* base_request_respond gives one of the verdicts, or none when it raises.
LEMMA VerdictTyped ==
    ASSUME NEW c, NEW r
    PROVE  Respond(c, r).verdict \in Verdicts \union {"none"}
<1> DEFINE read == ReadApiRespond(c, r)
<1>1. \A code : Mapped(code) \in {Returned(v) : v \in Verdicts} \/ Mapped(code) = Raised("KeyError")
  BY DEF Mapped, HttpCodeMapping, Verdicts, ApiRespondToString
<1>2. \/ \E v \in Verdicts : read = Returned(v)
      \/ read.kind = "raised" /\ read.verdict = "none"
  <2>1. CASE read = Returned("AcceptedTaskGenerated") \/ read = Mapped(r.code)
    BY <1>1, <2>1 DEF Raised, Verdicts, ApiRespondToString
  <2>2. CASE read = Failed(r)
    <3>1. \/ read = Returned("Error")
          \/ \E e : read = Raised(e)
      BY <2>2 DEF Failed
    <3> QED BY <3>1 DEF Raised, Verdicts, ApiRespondToString
  <2> QED BY <2>1, <2>2 DEF ReadApiRespond
<1> HIDE DEF read
<1>3. CASE \E v \in Verdicts : read = Returned(v)
  BY <1>3 DEF Respond, Returned, Raised, read
<1>4. CASE read.kind = "raised" /\ read.verdict = "none"
  BY <1>4 DEF Respond, read
<1> QED BY <1>2, <1>3, <1>4

LEMMA InitTyped == Init => TypeOK
<1> SUFFICES ASSUME Init PROVE TypeOK
  OBVIOUS
<1>1. <<>> \in Nodes
  BY DEF Nodes
<1>2. Branch(1, <<>>) \in Branches
  BY <1>1 DEF Branch, Branches
<1>3. pending \in Seq(Branches)
  BY <1>2 DEF Init
<1>4. faults \in 0..MaxFaults
  BY RunCommandAssumption DEF Init
<1>5. /\ rows = {} /\ read_from = {} /\ given_up = {} /\ effect = {}
      /\ kept \in [Roots -> {"none", "found", "nothing"}] /\ watched = FALSE
  BY DEF Init
<1>6. /\ command \in DOMAIN Commands /\ plan \in Commands[command] /\ do_async \in BOOLEAN
      /\ phase = "version" /\ verdict = "none" /\ blamed = FALSE /\ outcome = "none"
  BY DEF Init
<1> QED BY <1>3, <1>4, <1>5, <1>6 DEF TypeOK

\* The rest of the state keeps its types, whichever step is taken.
LEMMA RestTyped ==
    ASSUME TypeOK, [Next]_vars
    PROVE  /\ phase' \in {"version", "execute", "vendor", "dell", "done"}
           /\ kept' \in [Roots -> {"none", "found", "nothing"}]
           /\ effect' \subseteq {"applied", "task", "reset"}
           /\ verdict' \in Verdicts \union {"none"} /\ watched' \in BOOLEAN
           /\ faults' \in 0..MaxFaults /\ blamed' \in BOOLEAN
           /\ outcome' \in {"none", "shown", "silent", "error", "traceback"}
<1> DEFINE Ended == phase' \in {phase, "done"} /\ outcome' \in {outcome, "error", "traceback"}
           Counted == faults' \in 0..MaxFaults /\ blamed' \in BOOLEAN
           Verdict == verdict' \in Verdicts \union {"none"}
           Effect == effect' \subseteq {"applied", "task", "reset"}
           Resolved == kept' \in [Roots -> {"none", "found", "nothing"}]
           Watched == watched' \in BOOLEAN
           Ran == phase' \in {"version", "execute", "vendor", "dell", "done"}
                  /\ outcome' \in {"none", "shown", "silent", "error", "traceback"}
<1>1. /\ faults \in 0..MaxFaults /\ MaxFaults \in Nat /\ blamed \in BOOLEAN
      /\ effect \subseteq {"applied", "task", "reset"}
      /\ verdict \in Verdicts \union {"none"}
      /\ kept \in [Roots -> {"none", "found", "nothing"}] /\ watched \in BOOLEAN
      /\ phase \in {"version", "execute", "vendor", "dell", "done"}
      /\ outcome \in {"none", "shown", "silent", "error", "traceback"}
  BY RunCommandAssumption DEF TypeOK
<1>2. (faults < MaxFaults /\ faults' = faults + 1) => faults' \in 0..MaxFaults
  BY <1>1
<1>3. (Fault => Counted) /\ (NoFault => Counted)
  <2>1. NoFault => Counted
    BY <1>1 DEF NoFault
  <2>2. Fault => blamed' \in BOOLEAN
    BY DEF Fault
  <2> QED BY <1>2, <2>1, <2>2 DEF Fault
<1>4. (\A e : Raise(e) => Ended) /\ (Continue => Ended)
  BY DEF Raise, Continue
<1>5. \A how : Handle(how) => Ended
  BY <1>4 DEF Handle
<1>6. \A f : Fails(f) => Ended
  BY <1>5 DEF Fails
<1>7. \A r : Report(r) => Ended /\ Verdict
  BY <1>4, VerdictTyped DEF Report, Returned, Verdicts, ApiRespondToString
<1>8. Ended => Ran
  BY <1>1
<1>9. /\ UNCHANGED acts => Verdict /\ Effect /\ Watched
      /\ UNCHANGED walk => Resolved
  BY <1>1 DEF acts, walk
<1>10. CASE CheckVersion \/ CommandReturns \/ AskVendor \/ AskVersions
  <2>1. Ran
    BY <1>1, <1>4, <1>8, <1>10 DEF CheckVersion, CommandReturns, AskVendor, AskVersions, Show
  <2>2. Counted
    BY <1>1, <1>3, <1>10 DEF CheckVersion, CommandReturns, AskVendor, AskVersions
  <2>3. UNCHANGED acts /\ UNCHANGED walk
    BY <1>10 DEF CheckVersion, CommandReturns, AskVendor, AskVersions
  <2> QED BY <1>9, <2>1, <2>2, <2>3
<1>11. CASE Answered \/ Incomplete \/ Refused \/ Stray \/ AskNowhere
  <2>1. Ended /\ Counted /\ UNCHANGED acts /\ UNCHANGED kept
    BY <1>3, <1>4, <1>5, <1>6, <1>11 DEF Answered, Incomplete, Refused, Stray, AskNowhere
  <2> QED BY <1>1, <1>8, <1>9, <2>1
<1>12. CASE Resolve
  <2>1. PICK root \in Roots : FindRoot(root) \/ RootFails(root)
    BY <1>12 DEF Resolve
  <2>2. Resolved
    BY <1>1, <2>1 DEF FindRoot, RootFails
  <2>3. Ended /\ Counted
    BY <1>3, <1>4, <2>1 DEF FindRoot, RootFails
  <2>4. UNCHANGED acts
    BY <1>12 DEF Resolve
  <2> QED BY <1>8, <1>9, <2>2, <2>3, <2>4
<1>13. CASE Local
  BY <1>1, <1>13 DEF Local, Walk, AddRow, Jump, acts
<1>14. CASE LocalError
  <2>1. Ended
    BY <1>4, <1>14 DEF LocalError
  <2> QED BY <1>1, <1>8, <1>9, <1>14, <2>1 DEF LocalError
<1>15. CASE Sent
  <2>1. Ended /\ Verdict /\ UNCHANGED <<kept, watched>>
    BY <1>7, <1>15 DEF Sent
  <2>2. Effect
    BY <1>1, <1>15 DEF Sent
  <2>3. Counted
    BY <1>3, <1>15 DEF Sent
  <2> QED BY <1>1, <1>8, <2>1, <2>2, <2>3
<1>16. CASE SentInVain
  <2>1. Ended /\ Verdict /\ UNCHANGED <<kept, watched>>
    BY <1>1, <1>4, <1>7, <1>16 DEF SentInVain
  <2>2. Effect
    BY <1>1, <1>16 DEF SentInVain
  <2>3. Counted
    BY <1>2, <1>16 DEF SentInVain
  <2> QED BY <1>1, <1>8, <2>1, <2>2, <2>3
<1>17. CASE WatchTask
  <2>1. Ended /\ Counted /\ UNCHANGED <<effect, verdict, kept>>
    BY <1>3, <1>4, <1>17 DEF WatchTask
  <2>2. Watched
    BY <1>1, <1>17 DEF WatchTask
  <2> QED BY <1>1, <1>8, <2>1, <2>2
<1>18. CASE RebootHost
  <2>1. Ended /\ UNCHANGED <<kept, verdict, watched>>
    BY <1>4, <1>18 DEF RebootHost
  <2>2. Effect
    BY <1>1, <1>18 DEF RebootHost
  <2>3. Counted
    <3>1. blamed' \in BOOLEAN
      BY <1>1, <1>18 DEF RebootHost, NoFault
    <3>2. faults' \in 0..MaxFaults
      BY <1>1, <1>2, <1>18 DEF RebootHost, NoFault
    <3> QED BY <3>1, <3>2
  <2> QED BY <1>1, <1>8, <2>1, <2>2, <2>3
<1>19. CASE SentNowhere
  <2>1. Ended /\ Verdict /\ UNCHANGED <<kept, effect, watched>>
    BY <1>1, <1>4, <1>7, <1>19 DEF SentNowhere
  <2>2. Counted
    BY <1>3, <1>19 DEF SentNowhere
  <2> QED BY <1>1, <1>8, <2>1, <2>2
<1>20. CASE UNCHANGED vars
  BY <1>1, <1>20 DEF vars, walk, acts
<1> QED BY <1>10, <1>11, <1>12, <1>13, <1>14, <1>15, <1>16, <1>17, <1>18, <1>19, <1>20 DEF Next

LEMMA NextTyped == TypeOK /\ [Next]_vars => TypeOK'
<1> SUFFICES ASSUME TypeOK, [Next]_vars PROVE TypeOK'
  OBVIOUS
<1>1. /\ pending' \in Seq(Branches)
      /\ read_from' \subseteq Nodes /\ given_up' \subseteq Nodes
      /\ rows' \subseteq [node : Nodes, read : BOOLEAN]
  <2>1. CASE Kept
    BY <2>1 DEF Kept, TypeOK
  <2>2. CASE Moved
    BY <2>2, MovesTyped
  <2> QED BY <2>1, <2>2, Moves
<1>2. command' \in DOMAIN Commands /\ plan' \in Commands[command'] /\ do_async' \in BOOLEAN
  BY Moves DEF invocation, TypeOK
<1> QED BY <1>1, <1>2, RestTyped DEF TypeOK

\* Every variable of an invocation keeps its type.
THEOREM TypeCorrect == FairSpec => []TypeOK
BY InitTyped, NextTyped, PTL DEF FairSpec, Spec

-----------------------------------------------------------------------------
(* A move replaces the head of pending *)

\* What takes the place of the branch a move is made in.
Replacement(a) ==
    \/ (Skipped \/ Rowed \/ Dropped) /\ a = <<>>
    \/ /\ Went
       /\ \E v, w \in BOOLEAN :
             /\ a = <<[next EXCEPT !.read = v, !.nowhere = w]>>
             /\ GoesOn(v, w)
    \/ Jumped /\ a = <<[branch EXCEPT !.step = step.to, !.read = TRUE, !.nowhere = FALSE]>>
    \/ Repeated /\ a = <<[branch EXCEPT !.step = @ - 1, !.stray = TRUE]>>
    \/ Walked /\ a = Children
    \/ Split /\ a = Forked

\* It is put where the branch was, or behind all others.
Splice(a) ==
    \/ pending' = a \o Tail(pending)
    \/ Here({"gather", "again"}) /\ pending' = Tail(pending) \o a

LEMMA MoveSplices ==
    ASSUME TypeOK, Moved
    PROVE  \E a \in Seq(Branches) : Replacement(a) /\ Splice(a)
<1>1. /\ pending # <<>> /\ branch \in Branches
      /\ pending \in Seq(Branches) /\ Tail(pending) \in Seq(Branches)
  BY HeadFacts DEF Moved
<1>2. <<>> \in Seq(Branches) /\ <<>> \o Tail(pending) = Tail(pending)
  BY <1>1, EmptySeq, ConcatEmptySeq
<1>3. CASE Skipped \/ Rowed \/ Dropped
  BY <1>2, <1>3 DEF Skipped, Rowed, Dropped, Leave, Replacement, Splice
<1>4. CASE Went
  <2>1. PICK v, w \in BOOLEAN :
          /\ Follow([next EXCEPT !.read = v, !.nowhere = w])
          /\ GoesOn(v, w)
    BY <1>4 DEF Went
  <2>2. [next EXCEPT !.read = v, !.nowhere = w] \in Branches
    BY <1>1, NextBranch DEF Branches
  <2>3. <<[next EXCEPT !.read = v, !.nowhere = w]>> \in Seq(Branches)
    BY <2>2
  <2> QED BY <1>4, <2>1, <2>3 DEF Follow, Replacement, Splice
<1>5. CASE Jumped
  <2>1. step.to \in Nat \ {0}
    <3>1. plan[branch.step].to \in branch.step + 1..Len(plan) /\ branch.step \in Nat
      BY <1>1, <1>5, PlanFacts DEF Jumped, Here, step, JumpsForward, Branches
    <3> QED BY <3>1, PlanFacts DEF step
  <2>2. [branch EXCEPT !.step = step.to, !.read = TRUE, !.nowhere = FALSE] \in Branches
    BY <1>1, <2>1 DEF Branches
  <2>3. <<[branch EXCEPT !.step = step.to, !.read = TRUE, !.nowhere = FALSE]>> \in Seq(Branches)
    BY <2>2
  <2> QED BY <1>5, <2>3 DEF Jumped, Follow, Replacement, Splice
<1>6. CASE Repeated
  <2> DEFINE b == [branch EXCEPT !.step = @ - 1, !.stray = TRUE]
  <2>1. b \in Branches
    BY <1>1, <1>6, AgainFacts DEF Repeated
  <2> HIDE DEF b
  <2>2. <<b>> \in Seq(Branches) /\ Append(Tail(pending), b) = Tail(pending) \o <<b>>
    BY <1>1, <2>1, AppendIsConcat
  <2>3. Here({"gather", "again"})
    BY <1>6 DEF Repeated, Here
  <2> QED BY <1>6, <2>2, <2>3 DEF b, Repeated, Replacement, Splice
<1>7. CASE Walked
  BY <1>1, <1>7, ReplacementFacts DEF Walked, Replacement, Splice, Here
<1>8. CASE Split
  BY <1>1, <1>8, ReplacementFacts DEF Split, Replacement, Splice
<1> QED BY <1>3, <1>4, <1>5, <1>6, <1>7, <1>8 DEF Moved

\* Where the branches that are pending then come from.
LEMMA SpliceFacts ==
    ASSUME TypeOK, Moved, NEW a \in Seq(Branches), Splice(a)
    PROVE  pending' \in Seq(Branches) /\ Spliced(pending, a, pending')
<1>1. pending \in Seq(Branches) /\ pending # <<>>
  BY HeadFacts DEF Moved
<1> QED BY <1>1, Splicing DEF Splice

-----------------------------------------------------------------------------
(* A change is sent on what was read *)

\* Going on in the plan past a root, or past anything but a GET.
LEMMA NothingBelowGoesOn ==
    ASSUME NEW k \in Nat \ {0}
    PROVE  /\ plan[k].op \in Roots => NothingBelow(k + 1)
           /\ plan[k].op # "get" /\ NothingBelow(k) => NothingBelow(k + 1)
<1>1. ASSUME plan[k].op \in Roots PROVE NothingBelow(k + 1)
  <2> SUFFICES ASSUME NEW g \in 1..k, plan[g].op = "get"
               PROVE  \E r \in g + 1..k : plan[r].op \in Roots
    BY DEF NothingBelow
  <2>1. g # k
    BY <1>1 DEF Roots
  <2>2. k \in g + 1..k
    BY <2>1
  <2> QED BY <1>1, <2>2
<1>2. ASSUME plan[k].op # "get", NothingBelow(k) PROVE NothingBelow(k + 1)
  <2> SUFFICES ASSUME NEW g \in 1..k, plan[g].op = "get"
               PROVE  \E r \in g + 1..k : plan[r].op \in Roots
    BY DEF NothingBelow
  <2>1. g # k
    BY <1>2
  <2>2. g \in 1..k - 1
    BY <2>1
  <2>3. PICK r \in g + 1..k - 1 : plan[r].op \in Roots
    BY <1>2, <2>2 DEF NothingBelow
  <2>4. r \in g + 1..k
    BY <2>3
  <2> QED BY <2>3, <2>4
<1> QED BY <1>1, <1>2

\* What a branch of a command that sends a change is: at its end, or all was read
\* on the way to it, and nothing when there was nothing to read it below.
Fine(b) ==
    \/ b.read /\ (b.nowhere => NothingBelow(b.step))
    \/ b.step \in DOMAIN plan /\ plan[b.step].op = "end"

EndedUnread == Has(plan, {"send"}) => \A k \in 1..Len(pending) : Fine(pending[k])

LEMMA MoveEndedUnread ==
    ASSUME TypeOK, EndedUnread, Moved, UNCHANGED plan
    PROVE  EndedUnread'
<1> SUFFICES ASSUME Has(plan, {"send"}), NEW k \in 1..Len(pending')
             PROVE  Fine(pending'[k])
  BY DEF EndedUnread, Fine, NothingBelow
<1>1. PICK a \in Seq(Branches) : Replacement(a) /\ Splice(a)
  BY MoveSplices
<1>2. /\ pending \in Seq(Branches) /\ pending # <<>> /\ Len(pending) \in Nat \ {0}
      /\ branch = pending[1] /\ branch \in Branches /\ branch.step \in Nat \ {0}
  BY HeadFacts DEF Moved, Branches
<1>3. \/ \E j \in 2..Len(pending) : pending'[k] = pending[j]
      \/ \E j \in 1..Len(a) : pending'[k] = a[j]
  BY <1>1, SpliceFacts DEF Spliced
<1>4. \A j \in 1..Len(pending) : Fine(pending[j])
  BY DEF EndedUnread
<1>5. branch.step \in DOMAIN plan /\ step.op # "end" =>
         branch.read /\ (branch.nowhere => NothingBelow(branch.step))
  BY <1>2, <1>4 DEF step, Fine
<1>6. /\ step.op \in Roots => NothingBelow(branch.step + 1)
      /\ step.op # "get" /\ NothingBelow(branch.step) => NothingBelow(branch.step + 1)
  BY <1>2, NothingBelowGoesOn DEF step
<1>7. \A j \in 1..Len(a) : Fine(a[j])
  <2>1. CASE (Skipped \/ Rowed \/ Dropped) /\ a = <<>>
    BY <2>1
  <2>2. CASE /\ Went
             /\ \E v, w \in BOOLEAN :
                   a = <<[next EXCEPT !.read = v, !.nowhere = w]>> /\ GoesOn(v, w)
    <3>1. PICK v, w \in BOOLEAN : a = <<[next EXCEPT !.read = v, !.nowhere = w]>> /\ GoesOn(v, w)
      BY <2>2
    <3>2. branch.read /\ (branch.nowhere => NothingBelow(branch.step))
      BY <1>5, <2>2 DEF Went, Here, Reads, Roots
    <3>3. Len(a) = 1 /\ a[1].read = v /\ a[1].nowhere = w /\ a[1].step = branch.step + 1
      BY <1>2, <3>1, NextBranch DEF Branches
    <3>4. CASE Here({"get"}) /\ "go" \in {step.lacks, step.then}
      <4>1. branch.step + 1 \in DOMAIN plan /\ plan[branch.step + 1].op = "end"
        BY <3>4, PlanFacts DEF Here, step, Insists
      <4> QED BY <3>3, <4>1 DEF Fine
    <3>5. CASE /\ v = branch.read \/ v = TRUE
               /\ w => Here(Roots) \/ (branch.nowhere /\ ~Here({"get"}))
      <4>1. a[1].read
        BY <3>2, <3>3, <3>5
      <4>2. w => NothingBelow(branch.step + 1)
        BY <1>6, <2>2, <3>2, <3>5 DEF Here, Went
      <4> QED BY <3>3, <4>1, <4>2 DEF Fine
    <3> QED BY <3>1, <3>4, <3>5 DEF GoesOn
  <2>3. CASE Jumped /\ a = <<[branch EXCEPT !.step = step.to, !.read = TRUE, !.nowhere = FALSE]>>
    <3>1. Len(a) = 1 /\ a[1].read /\ ~a[1].nowhere
      BY <1>2, <2>3 DEF Branches
    <3> QED BY <3>1 DEF Fine
  <2>4. CASE Repeated /\ a = <<[branch EXCEPT !.step = @ - 1, !.stray = TRUE]>>
    <3>1. Len(a) = 1 /\ a[1].read = branch.read /\ a[1].nowhere = branch.nowhere
      BY <1>2, <2>4 DEF Branches
    <3>2. branch.read /\ (branch.nowhere => NothingBelow(branch.step))
      BY <1>5, <2>4 DEF Repeated, Here
    <3>3. ~branch.nowhere
      <4>1. branch.step - 1 \in 1..branch.step - 1 /\ plan[branch.step - 1].op = "get"
        BY <1>2, <2>4, AgainFacts, PlanFacts DEF Repeated
      <4>2. NothingBelow(branch.step) =>
               \E r \in (branch.step - 1) + 1..branch.step - 1 : plan[r].op \in Roots
        BY <4>1 DEF NothingBelow
      <4>3. \A r \in (branch.step - 1) + 1..branch.step - 1 : FALSE
        BY <1>2
      <4> QED BY <3>2, <4>2, <4>3
    <3>4. \A j \in 1..Len(a) : j = 1
      BY <3>1
    <3> QED BY <3>1, <3>2, <3>3, <3>4 DEF Fine
  <2>5. CASE Walked /\ a = Children
    <3>1. \A j \in 1..Len(a) : a[j].read /\ ~a[j].nowhere
      BY <1>2, <2>5, ReplacementFacts DEF Branch
    <3> QED BY <3>1 DEF Fine
  <2>6. CASE Split /\ a = Forked
    <3>1. /\ Len(a) = 2 /\ a[1].read = branch.read /\ a[2].read
          /\ a[1].nowhere = branch.nowhere /\ a[1].step = branch.step + 1 /\ ~a[2].nowhere
      BY <1>2, <2>6, ReplacementFacts, NextBranch DEF Branch, Branches
    <3>2. /\ branch.read /\ (branch.nowhere => NothingBelow(branch.step))
          /\ step.op # "get"
      BY <1>5, <2>6 DEF Split, Here
    <3>3. \A j \in 1..Len(a) : j = 1 \/ j = 2
      BY <3>1
    <3>4. Fine(a[1]) /\ Fine(a[2])
      BY <1>6, <3>1, <3>2 DEF Fine
    <3> QED BY <3>3, <3>4
  <2> QED BY <1>1, <2>1, <2>2, <2>3, <2>4, <2>5, <2>6 DEF Replacement
<1> QED BY <1>2, <1>3, <1>4, <1>7

LEMMA InitEndedUnread == Init => EndedUnread
BY DEF Init, EndedUnread, Fine, Branch

LEMMA NextEndedUnread == TypeOK /\ EndedUnread /\ [Next]_vars => EndedUnread'
<1> SUFFICES ASSUME TypeOK, EndedUnread, [Next]_vars PROVE EndedUnread'
  OBVIOUS
<1>1. UNCHANGED plan
  BY Moves DEF invocation
<1>2. CASE Kept
  BY <1>1, <1>2 DEF Kept, EndedUnread, Fine, NothingBelow
<1> QED BY <1>1, <1>2, Moves, MoveEndedUnread

\* A request that changes the controller goes to a target the command has read:
\* no GET on the way to it failed or lacked what was looked for, and none was to be
\* made below a manager or a system that was not found.
THEOREM ChangesRestOnReads == FairSpec => []SentOnWhatWasRead
<1>1. TypeOK /\ EndedUnread => SentOnWhatWasRead
  <2> SUFFICES ASSUME TypeOK, EndedUnread, At("send")
               PROVE  branch.read /\ (branch.nowhere => NothingBelow(branch.step))
    BY DEF SentOnWhatWasRead
  <2>1. /\ branch.step \in DOMAIN plan /\ plan[branch.step].op = "send"
        /\ branch = pending[1] /\ 1 \in 1..Len(pending)
    BY AtFacts, HeadFacts DEF At, step
  <2>2. Has(plan, {"send"})
    BY <2>1 DEF Has
  <2> QED BY <2>1, <2>2 DEF EndedUnread, Fine
<1> QED BY <1>1, InitTyped, NextTyped, InitEndedUnread, NextEndedUnread, PTL DEF FairSpec, Spec

-----------------------------------------------------------------------------
(* A change is made once, and then the invocation is all but over *)

\* What the steps of a plan that sends a change can be.
LEMMA OnceFacts ==
    ASSUME TypeOK, NEW s \in DOMAIN plan, plan[s].op = "send",
           NEW f \in 0..s, NEW e \in 0..s, Once(plan, s, f, e)
    PROVE  /\ s \in 1..Len(plan) /\ f \in Nat /\ e \in Nat /\ f <= e /\ e < s
           /\ f = 0 => e = 0
           /\ f > 0 => plan[f].op = "fork" /\ plan[f].to = e + 1 /\ plan[e].op = "end" /\ f < e
           /\ \A k \in DOMAIN plan :
                 /\ k < f => plan[k].op \in Reads
                 /\ f < k /\ k <= e => plan[k].op \in Reads \union {"each", "end"}
                 /\ e < k /\ k < s => plan[k].op \in Reads
                 /\ s < k => plan[k].op \in {"watch", "reboot", "end", "fail"}
<1>1. DOMAIN plan = 1..Len(plan) /\ Len(plan) \in Nat
  BY PlanFacts
<1>2. s \in 1..Len(plan) /\ f \in Nat /\ e \in Nat /\ f <= e /\ e < s
  BY <1>1 DEF Once
<1>3. f = 0 => e = 0
  BY <1>2 DEF Once
<1>4. f > 0 => plan[f].op = "fork" /\ plan[f].to = e + 1 /\ plan[e].op = "end"
  BY <1>2 DEF Once
<1>5. f > 0 => f < e
  <2>1. f > 0 => f # e
    BY <1>4
  <2> QED BY <1>2, <2>1
<1>6. ASSUME NEW k \in DOMAIN plan
      PROVE  /\ k < f => plan[k].op \in Reads
             /\ f < k /\ k <= e => plan[k].op \in Reads \union {"each", "end"}
             /\ e < k /\ k < s => plan[k].op \in Reads
             /\ s < k => plan[k].op \in {"watch", "reboot", "end", "fail"}
  <2>1. /\ k < f => k \in 1..f - 1
        /\ f < k /\ k <= e => k \in f + 1..e /\ f # e
        /\ e < k /\ k < s => k \in e + 1..s - 1
        /\ s < k => k \in s + 1..Len(plan)
    BY <1>1, <1>2
  <2>2. f # e => f > 0
    BY <1>2, <1>3
  <2> QED BY <2>1, <2>2 DEF Once
<1> QED BY <1>2, <1>3, <1>4, <1>5, <1>6

\* A plan that sends one sends no other, asks for nothing again and is not that of
\* a command which waits for a job it is given.
LEMMA SendsOnce ==
    ASSUME TypeOK, NEW s \in DOMAIN plan, plan[s].op = "send"
    PROVE  /\ \A k \in DOMAIN plan : plan[k].op = "send" => k = s
           /\ \A k \in DOMAIN plan : plan[k].op \notin {"again", "gather", "await"}
<1>1. PICK f \in 0..s, e \in 0..s : Once(plan, s, f, e)
  BY PlanFacts DEF ActsOnce
<1>2. DOMAIN plan = 1..Len(plan) /\ Len(plan) \in Nat
  BY PlanFacts
<1>3. ASSUME NEW k \in DOMAIN plan, k # s PROVE plan[k].op \notin {"send", "again", "gather", "await"}
  <2>1. k < f \/ k = f \/ (f < k /\ k <= e) \/ (e < k /\ k < s) \/ s < k
    BY <1>1, <1>2, <1>3, OnceFacts
  <2>2. k = f => plan[k].op = "fork"
    BY <1>1, <1>2, OnceFacts
  <2> QED BY <1>1, <2>1, <2>2, OnceFacts DEF Reads, Roots
<1> QED BY <1>3

\* Which branches are pending on the way to step s: those of the loop between
\* the fork and its end, before the one that goes on with the plan.
Shape(f, e) ==
    \A k \in 1..Len(pending) :
        IF k < Len(pending) THEN f < pending[k].step /\ pending[k].step <= e
        ELSE (pending[k].step <= f /\ Len(pending) = 1) \/ e < pending[k].step

OnTheWay ==
    \A s \in DOMAIN plan : plan[s].op = "send" =>
        \A f, e \in 0..s : Once(plan, s, f, e) => Shape(f, e)

\* What has been done was done by a step all branches have left behind.
ActedOnce ==
    effect # {} /\ phase = "execute" =>
        \E s \in DOMAIN plan : plan[s].op = "send" /\ \A k \in 1..Len(pending) : s < pending[k].step

StraysAskAgain == \A k \in 1..Len(pending) : pending[k].stray => Has(plan, {"again"})

\* Where in the plan the branches are that take the place of another.
LEMMA ReplacementSteps ==
    ASSUME TypeOK, Moved, NEW a \in Seq(Branches), Replacement(a)
    PROVE  \/ a = <<>>
           \/ /\ Here(Reads \union {"if_no_row", "send", "watch", "await", "reboot", "unless", "else"})
              /\ Len(a) = 1 /\ a[1].step = branch.step + 1 /\ a[1].stray = branch.stray
           \/ /\ Here({"unless", "else"})
              /\ Len(a) = 1 /\ a[1].step = step.to /\ a[1].stray = branch.stray
           \/ Repeated
           \/ /\ Here({"each", "gather"})
              /\ \A j \in 1..Len(a) : a[j].step = branch.step + 1 /\ ~a[j].stray
           \/ /\ Here({"fork"})
              /\ Len(a) = 2 /\ a[1].step = branch.step + 1 /\ a[1].stray = branch.stray
              /\ a[2].step = step.to /\ ~a[2].stray
<1>1. branch \in Branches
  BY HeadFacts DEF Moved
<1>2. CASE (Skipped \/ Rowed \/ Dropped) /\ a = <<>>
  BY <1>2
<1>3. CASE Went /\ \E v, w \in BOOLEAN : a = <<[next EXCEPT !.read = v, !.nowhere = w]>>
  <2>1. PICK v, w \in BOOLEAN : a = <<[next EXCEPT !.read = v, !.nowhere = w]>>
    BY <1>3
  <2>2. Len(a) = 1 /\ a[1].step = branch.step + 1 /\ a[1].stray = branch.stray
    BY <1>1, <2>1, NextBranch DEF Branches
  <2> QED BY <1>3, <2>2 DEF Went
<1>4. CASE Jumped /\ a = <<[branch EXCEPT !.step = step.to, !.read = TRUE, !.nowhere = FALSE]>>
  <2>1. Len(a) = 1 /\ a[1].step = step.to /\ a[1].stray = branch.stray
    BY <1>1, <1>4 DEF Branches
  <2> QED BY <1>4, <2>1 DEF Jumped
<1>5. CASE Walked /\ a = Children
  <2>1. \A j \in 1..Len(a) : a[j].step = branch.step + 1 /\ ~a[j].stray
    BY <1>5, ReplacementFacts DEF Moved, Branch
  <2> QED BY <1>5, <2>1 DEF Walked, Here
<1>6. CASE Split /\ a = Forked
  <2>1. /\ Len(a) = 2 /\ a[1].step = branch.step + 1 /\ a[1].stray = branch.stray
        /\ a[2].step = step.to /\ ~a[2].stray
    BY <1>1, <1>6, ReplacementFacts, NextBranch DEF Moved, Branch, Branches
  <2> QED BY <1>6, <2>1 DEF Split
<1> QED BY <1>2, <1>3, <1>4, <1>5, <1>6 DEF Replacement

\* They are further in the plan, unless it asks for something again.
LEMMA Forward ==
    ASSUME TypeOK, Moved, NEW a \in Seq(Branches), Replacement(a)
    PROVE  \/ Here({"again"})
           \/ \A j \in 1..Len(a) : branch.step < a[j].step /\ (a[j].stray => branch.stray)
<1>1. branch.step \in Nat
  BY HeadFacts DEF Moved, Branches
<1>2. Here({"unless", "else", "fork"}) => branch.step < step.to
  <2>1. Here({"unless", "else", "fork"}) => plan[branch.step].to \in branch.step + 1..Len(plan)
    BY PlanFacts DEF Here, step, JumpsForward
  <2> QED BY <1>1, <2>1, PlanFacts DEF step
<1>3. CASE Len(a) = 1 /\ a[1].step = branch.step + 1 /\ a[1].stray = branch.stray
  BY <1>1, <1>3
<1>4. CASE /\ Here({"unless", "else"})
           /\ Len(a) = 1 /\ a[1].step = step.to /\ a[1].stray = branch.stray
  <2>1. branch.step < step.to
    BY <1>2, <1>4 DEF Here
  <2> QED BY <1>4, <2>1
<1>5. CASE \A j \in 1..Len(a) : a[j].step = branch.step + 1 /\ ~a[j].stray
  BY <1>1, <1>5
<1>6. CASE /\ Here({"fork"})
           /\ Len(a) = 2 /\ a[1].step = branch.step + 1 /\ a[1].stray = branch.stray
           /\ a[2].step = step.to /\ ~a[2].stray
  <2>1. \A j \in 1..Len(a) : j = 1 \/ j = 2
    BY <1>6
  <2>2. branch.step < step.to
    BY <1>2, <1>6 DEF Here
  <2>3. branch.step < a[1].step /\ branch.step < a[2].step
    BY <1>1, <1>6, <2>2
  <2>4. (a[1].stray => branch.stray) /\ (a[2].stray => branch.stray)
    BY <1>6
  <2> QED BY <2>1, <2>3, <2>4
<1> QED BY <1>3, <1>4, <1>5, <1>6, ReplacementSteps DEF Repeated

LEMMA MoveOnTheWay ==
    ASSUME TypeOK, OnTheWay, Moved, UNCHANGED plan
    PROVE  OnTheWay'
<1> SUFFICES ASSUME NEW s \in DOMAIN plan, plan[s].op = "send",
                    NEW f \in 0..s, NEW e \in 0..s, Once(plan, s, f, e)
             PROVE  Shape(f, e)'
  BY DEF OnTheWay
<1>1. /\ Shape(f, e)
      /\ DOMAIN plan = 1..Len(plan) /\ Len(plan) \in Nat
      /\ pending \in Seq(Branches) /\ pending # <<>> /\ Len(pending) \in Nat \ {0}
      /\ branch = pending[1] /\ branch \in Branches /\ branch.step \in Nat \ {0}
  BY HeadFacts, PlanFacts DEF Moved, OnTheWay, Branches
<1>2. /\ s \in 1..Len(plan) /\ f \in Nat /\ e \in Nat /\ f <= e /\ e < s
      /\ f = 0 => e = 0
      /\ f > 0 => plan[f].op = "fork" /\ plan[f].to = e + 1 /\ plan[e].op = "end" /\ f < e
      /\ \A k \in DOMAIN plan :
            /\ k < f => plan[k].op \in Reads
            /\ f < k /\ k <= e => plan[k].op \in Reads \union {"each", "end"}
            /\ e < k /\ k < s => plan[k].op \in Reads
            /\ s < k => plan[k].op \in {"watch", "reboot", "end", "fail"}
  BY OnceFacts
<1>3. \A k \in DOMAIN plan : plan[k].op \notin {"again", "gather"}
  BY SendsOnce
<1>4. PICK a \in Seq(Branches) : Replacement(a) /\ Splice(a)
  BY MoveSplices
<1>5. ~Here({"again", "gather"})
  BY <1>3 DEF Here, step
<1>6. pending' = a \o Tail(pending)
  BY <1>4, <1>5 DEF Splice, Here
<1>7. /\ Len(a) \in Nat /\ Len(pending') = (Len(a) + Len(pending)) - 1
      /\ \A k \in 1..Len(a) : pending'[k] = a[k]
      /\ \A k \in Len(a) + 1..Len(pending') :
            \E j \in 2..Len(pending) : j = (k - Len(a)) + 1 /\ pending'[k] = pending[j]
  <2>1. InFront(pending, a, pending')
    BY <1>1, <1>6, SplicedInFront
  <2> QED BY <2>1 DEF InFront
<1>8. ~Repeated
  BY <1>5 DEF Repeated, Here
<1>9. CASE Len(pending) > 1
  <2>1. f < branch.step /\ branch.step <= e
    BY <1>1, <1>9 DEF Shape
  <2>2. branch.step \in DOMAIN plan /\ plan[e].op = "end" /\ f > 0
    BY <1>1, <1>2, <2>1
  <2>3. step.op \in Reads \union {"each", "end"} /\ (step.op # "end" => branch.step < e)
    BY <1>1, <1>2, <2>1, <2>2 DEF step
  <2>4. \A j \in 1..Len(a) : a[j].step = branch.step + 1 /\ step.op # "end"
    <3>1. CASE Here({"unless", "else"}) \/ Here({"fork"})
      BY <2>3, <3>1 DEF Here, Reads, Roots
    <3>2. CASE /\ Here(Reads \union {"if_no_row", "send", "watch", "await", "reboot", "unless", "else"})
               /\ Len(a) = 1 /\ a[1].step = branch.step + 1
      BY <3>2 DEF Here, Reads, Roots
    <3>3. CASE /\ Here({"each", "gather"})
               /\ \A j \in 1..Len(a) : a[j].step = branch.step + 1
      BY <3>3 DEF Here
    <3>4. CASE a = <<>>
      <4>1. Len(a) = 0
        BY <3>4
      <4> QED BY <4>1
    <3>5. \/ a = <<>>
          \/ /\ Here(Reads \union {"if_no_row", "send", "watch", "await", "reboot", "unless", "else"})
             /\ Len(a) = 1 /\ a[1].step = branch.step + 1
          \/ Here({"unless", "else"}) \/ Here({"fork"})
          \/ /\ Here({"each", "gather"})
             /\ \A j \in 1..Len(a) : a[j].step = branch.step + 1
      BY <1>4, <1>8, ReplacementSteps
    <3> QED BY <3>1, <3>2, <3>3, <3>4, <3>5
  <2>5. \A j \in 1..Len(a) : f < a[j].step /\ a[j].step <= e
    <3>1. /\ branch.step \in Nat /\ f \in Nat /\ e \in Nat
          /\ branch.step < e => f < branch.step + 1 /\ branch.step + 1 <= e
      BY <1>1, <1>2, <2>1
    <3> QED BY <2>3, <2>4, <3>1
  <2>6. ASSUME NEW k \in 1..Len(pending')
        PROVE  IF k < Len(pending') THEN f < pending'[k].step /\ pending'[k].step <= e
               ELSE (pending'[k].step <= f /\ Len(pending') = 1) \/ e < pending'[k].step
    <3>1. CASE k \in 1..Len(a)
      <4>1. k < Len(pending')
        BY <1>1, <1>7, <1>9, <3>1
      <4> QED BY <1>7, <2>5, <3>1, <4>1
    <3>2. CASE k \in Len(a) + 1..Len(pending')
      <4>1. PICK j \in 2..Len(pending) : j = (k - Len(a)) + 1 /\ pending'[k] = pending[j]
        BY <1>7, <3>2
      <4>2. j < Len(pending) <=> k < Len(pending')
        <5>1. /\ Len(a) \in Nat /\ Len(pending) \in Nat /\ k \in Int
              /\ j = (k - Len(a)) + 1 /\ Len(pending') = (Len(a) + Len(pending)) - 1
          BY <1>1, <1>7, <4>1
        <5> QED BY <5>1
      <4>3. IF j < Len(pending) THEN f < pending[j].step /\ pending[j].step <= e
            ELSE e < pending[j].step
        BY <1>1, <1>9 DEF Shape
      <4> QED BY <4>1, <4>2, <4>3
    <3>3. k \in 1..Len(a) \/ k \in Len(a) + 1..Len(pending')
      BY <1>7
    <3> QED BY <3>1, <3>2, <3>3
  <2> QED BY <2>6 DEF Shape
<1>10. CASE Len(pending) = 1
  <2>1. branch.step <= f \/ e < branch.step
    BY <1>1, <1>10 DEF Shape
  <2>2. /\ Len(pending') = Len(a)
        /\ \A k \in 1..Len(a) : pending'[k] = a[k]
    BY <1>7, <1>10
  <2>3. CASE a = <<>>
    BY <2>2, <2>3 DEF Shape
  <2>4. CASE /\ Here(Reads \union {"if_no_row", "send", "watch", "await", "reboot", "unless", "else"})
             /\ Len(a) = 1 /\ a[1].step = branch.step + 1
    <3>1. branch.step # f
      <4>1. f > 0 => plan[f].op = "fork"
        BY <1>2
      <4> QED BY <1>1, <2>4, <4>1 DEF Here, step, Reads, Roots
    <3>2. a[1].step <= f \/ e < a[1].step
      BY <1>1, <1>2, <2>1, <2>4, <3>1
    <3> QED BY <2>2, <2>4, <3>2 DEF Shape
  <2>5. CASE Here({"unless", "else"})
    <3>1. branch.step < f \/ branch.step = f \/ (e < branch.step /\ branch.step < s)
          \/ branch.step = s \/ s < branch.step
      BY <1>1, <1>2, <2>1
    <3>2. branch.step \in DOMAIN plan /\ plan[branch.step].op \in {"unless", "else"}
      BY <2>5 DEF Here, step
    <3>3. branch.step # s
      BY <1>1, <3>2
    <3>4. ~(branch.step < f) /\ ~(e < branch.step /\ branch.step < s) /\ ~(s < branch.step)
      BY <1>2, <3>2 DEF Reads, Roots
    <3>5. branch.step # f
      BY <1>1, <1>2, <3>2
    <3> QED BY <3>1, <3>3, <3>4, <3>5
  <2>6. CASE Here({"each", "gather"})
    <3>1. branch.step < f \/ branch.step = f \/ (e < branch.step /\ branch.step < s)
          \/ branch.step = s \/ s < branch.step
      BY <1>1, <1>2, <2>1
    <3>2. branch.step \in DOMAIN plan /\ plan[branch.step].op \in {"each", "gather"}
      BY <2>6 DEF Here, step
    <3>3. branch.step # s
      BY <1>1, <3>2
    <3>4. ~(branch.step < f) /\ ~(e < branch.step /\ branch.step < s) /\ ~(s < branch.step)
      BY <1>2, <3>2 DEF Reads, Roots
    <3>5. branch.step # f
      BY <1>1, <1>2, <3>2
    <3> QED BY <3>1, <3>3, <3>4, <3>5
  <2>7. CASE /\ Here({"fork"})
             /\ Len(a) = 2 /\ a[1].step = branch.step + 1 /\ a[2].step = step.to
    <3>1. branch.step < f \/ branch.step = f \/ (e < branch.step /\ branch.step < s)
          \/ branch.step = s \/ s < branch.step
      BY <1>1, <1>2, <2>1
    <3>2. branch.step = f
      BY <1>1, <1>2, <2>7, <3>1 DEF Here, step, Reads, Roots
    <3>3. f > 0 /\ step.to = e + 1 /\ f < e
      BY <1>1, <1>2, <3>2 DEF step
    <3>4. a[1].step = f + 1 /\ a[2].step = e + 1
      BY <2>7, <3>2, <3>3
    <3>5. f < a[1].step /\ a[1].step <= e /\ e < a[2].step
      BY <1>2, <3>3, <3>4
    <3>6. \A k \in 1..Len(a) : k = 1 \/ k = 2
      BY <2>7
    <3> QED BY <2>2, <2>7, <3>5, <3>6 DEF Shape
  <2>8. \/ a = <<>>
        \/ /\ Here(Reads \union {"if_no_row", "send", "watch", "await", "reboot", "unless", "else"})
           /\ Len(a) = 1 /\ a[1].step = branch.step + 1
        \/ Here({"unless", "else"})
        \/ Here({"each", "gather"})
        \/ /\ Here({"fork"})
           /\ Len(a) = 2 /\ a[1].step = branch.step + 1 /\ a[2].step = step.to
    BY <1>4, <1>8, ReplacementSteps
  <2> QED BY <2>3, <2>4, <2>5, <2>6, <2>7, <2>8
<1>11. Len(pending) > 1 \/ Len(pending) = 1
  <2>1. \A n \in Nat \ {0} : n > 1 \/ n = 1
    OBVIOUS
  <2>2. Len(pending) \in Nat \ {0}
    BY HeadFacts DEF Moved
  <2> QED BY <2>1, <2>2
<1> QED BY <1>9, <1>10, <1>11

\* A command that has sent its change, or resets the host, has one branch left.
LEMMA SendsAlone ==
    ASSUME TypeOK, OnTheWay, pending # <<>>, NEW s \in DOMAIN plan, plan[s].op = "send",
           s <= branch.step
    PROVE  Len(pending) = 1
<1>1. PICK f \in 0..s, e \in 0..s : Once(plan, s, f, e)
  BY PlanFacts DEF ActsOnce
<1>2. f \in Nat /\ e \in Nat /\ e < s /\ s \in Nat
  BY <1>1, OnceFacts
<1>3. Shape(f, e)
  BY <1>1 DEF OnTheWay
<1>4. Len(pending) \in Nat \ {0} /\ branch = pending[1] /\ branch.step \in Nat
  BY HeadFacts DEF Branches
<1>5. e < branch.step
  BY <1>2, <1>4
<1>6. 1 \in 1..Len(pending)
  BY <1>4
<1>7. 1 < Len(pending) => branch.step <= e
  BY <1>3, <1>4, <1>6 DEF Shape
<1>8. ~(branch.step <= e)
  BY <1>2, <1>4, <1>5
<1>9. \A n \in Nat \ {0} : 1 < n \/ n = 1
  OBVIOUS
<1> QED BY <1>4, <1>7, <1>8, <1>9

\* What a step does to the controller.
Acts ==
    /\ phase = "execute"
    /\ At("send") \/ At("reboot")
    /\ Follow(next) \/ phase' = "done"

LEMMA EffectOfStep ==
    ASSUME [Next]_vars
    PROVE  UNCHANGED effect \/ Acts
<1>1. CASE Sent \/ SentInVain
  <2>1. At("send") /\ (Follow(next) \/ phase' = "done")
    BY <1>1 DEF Sent, SentInVain, Report, Raise
  <2> QED BY <2>1 DEF Acts, At
<1>2. CASE RebootHost
  <2>1. At("reboot") /\ (Follow(next) \/ phase' = "done")
    BY <1>2 DEF RebootHost, Raise
  <2> QED BY <2>1 DEF Acts, At
<1>3. CASE UNCHANGED vars
  BY <1>3 DEF vars, acts
<1> QED BY <1>1, <1>2, <1>3
        DEF Next, CheckVersion, CommandReturns, AskVendor, AskVersions, Answered, Incomplete,
            Refused, Stray, AskNowhere, Resolve, Local, LocalError, SentNowhere, WatchTask, acts

\* The phases of a step: a command that is executed has been so, or begins.
LEMMA PhaseOfStep ==
    ASSUME [Next]_vars, phase' = "execute"
    PROVE  phase = "execute" \/ (phase = "version" /\ CheckVersion)
<1> SUFFICES ASSUME ~CheckVersion PROVE phase = "execute"
  BY DEF CheckVersion
<1>1. \A e : ~Raise(e)
  BY DEF Raise
<1>2. CASE Sent \/ SentNowhere \/ SentInVain \/ WatchTask \/ RebootHost \/ Resolve
           \/ Answered \/ Incomplete \/ Refused \/ Stray \/ AskNowhere \/ LocalError
  BY <1>2 DEF Sent, SentNowhere, SentInVain, WatchTask, RebootHost, Resolve, FindRoot, RootFails,
              Answered, Incomplete, Refused, Stray, AskNowhere, LocalError, At
<1>3. CASE CommandReturns \/ AskVendor \/ AskVersions
  BY <1>1, <1>3 DEF CommandReturns, AskVendor, AskVersions, Show
<1>4. CASE Local \/ UNCHANGED vars
  BY <1>4 DEF Local, vars
<1> QED BY <1>2, <1>3, <1>4 DEF Next

\* Of the phases before the command, none is after it has acted.
NotYet == phase = "version" => effect = {}

LEMMA NextNotYet == NotYet /\ [Next]_vars => NotYet'
<1> SUFFICES ASSUME NotYet, [Next]_vars, phase' = "version" PROVE effect' = {}
  BY DEF NotYet
<1>1. \A e : ~Raise(e)
  BY DEF Raise
<1>2. phase = "version" \/ ~(UNCHANGED phase)
  OBVIOUS
<1>3. CASE phase = "version"
  BY <1>3, EffectOfStep DEF Acts, NotYet
<1>4. CASE phase # "version"
  <2>1. ~(UNCHANGED phase) /\ ~Continue
    BY <1>4 DEF Continue
  <2>2. \A how : ~Handle(how)
    BY <1>1, <2>1 DEF Handle
  <2>3. \A r : ~Report(r)
    BY <1>1, <2>1 DEF Report
  <2> QED BY <1>1, <2>1, <2>2, <2>3
          DEF Next, CheckVersion, CommandReturns, AskVendor, AskVersions, Show, Answered, Incomplete,
              Fails, Refused, Stray, AskNowhere, Resolve, FindRoot, RootFails, Local, LocalError,
              Sent, SentNowhere, SentInVain, WatchTask, RebootHost, vars
<1> QED BY <1>3, <1>4

LEMMA NextStraysAskAgain == TypeOK /\ StraysAskAgain /\ [Next]_vars => StraysAskAgain'
<1> SUFFICES ASSUME TypeOK, StraysAskAgain, [Next]_vars PROVE StraysAskAgain'
  OBVIOUS
<1>1. UNCHANGED plan
  BY Moves DEF invocation
<1>2. CASE Kept
  BY <1>1, <1>2 DEF Kept, StraysAskAgain
<1>3. CASE Moved
  <2> SUFFICES ASSUME NEW k \in 1..Len(pending'), pending'[k].stray
               PROVE  Has(plan, {"again"})
    BY <1>1 DEF StraysAskAgain
  <2>1. PICK a \in Seq(Branches) : Replacement(a) /\ Splice(a)
    BY <1>3, MoveSplices
  <2>2. \/ \E j \in 2..Len(pending) : pending'[k] = pending[j]
        \/ \E j \in 1..Len(a) : pending'[k] = a[j]
    BY <1>3, <2>1, SpliceFacts DEF Spliced
  <2>3. Len(pending) \in Nat \ {0} /\ branch = pending[1]
    BY <1>3, HeadFacts DEF Moved
  <2>4. CASE Here({"again"})
    BY <2>4 DEF Here, step, Has
  <2>5. CASE \A j \in 1..Len(a) : a[j].stray => branch.stray
    BY <2>2, <2>3, <2>5 DEF StraysAskAgain
  <2> QED BY <1>3, <2>1, <2>4, <2>5, Forward
<1> QED BY <1>2, <1>3, Moves

LEMMA NextOnTheWay == TypeOK /\ OnTheWay /\ [Next]_vars => OnTheWay'
<1> SUFFICES ASSUME TypeOK, OnTheWay, [Next]_vars PROVE OnTheWay'
  OBVIOUS
<1>1. UNCHANGED plan
  BY Moves DEF invocation
<1>2. CASE Kept
  BY <1>1, <1>2 DEF Kept, OnTheWay, Shape
<1> QED BY <1>1, <1>2, Moves, MoveOnTheWay

LEMMA NextActedOnce ==
    TypeOK /\ OnTheWay /\ NotYet /\ ActedOnce /\ [Next]_vars => ActedOnce'
<1> SUFFICES ASSUME TypeOK, OnTheWay, NotYet, ActedOnce, [Next]_vars,
                    effect' # {}, phase' = "execute"
             PROVE  \E s \in DOMAIN plan :
                       plan[s].op = "send" /\ \A k \in 1..Len(pending') : s < pending'[k].step
  BY Moves DEF ActedOnce, invocation
<1>1. CASE phase = "version" /\ CheckVersion
  BY <1>1 DEF CheckVersion, acts, NotYet
<1>2. CASE phase = "execute" /\ UNCHANGED effect
  <2>1. PICK s \in DOMAIN plan : /\ plan[s].op = "send"
                                 /\ \A k \in 1..Len(pending) : s < pending[k].step
    BY <1>2 DEF ActedOnce
  <2>2. CASE Kept
    BY <2>1, <2>2 DEF Kept
  <2>3. CASE Moved
    <3>1. PICK a \in Seq(Branches) : Replacement(a) /\ Splice(a)
      BY <2>3, MoveSplices
    <3>2. /\ Len(pending) \in Nat \ {0} /\ branch = pending[1] /\ branch.step \in Nat
          /\ s \in Nat /\ a \in Seq(Branches)
      BY <2>3, HeadFacts, PlanFacts DEF Moved, Branches
    <3>3. ~Here({"again"})
      BY <2>1, SendsOnce DEF Here, step
    <3>4. \A j \in 1..Len(a) : branch.step < a[j].step /\ a[j].step \in Nat
      <4>1. \A j \in 1..Len(a) : a[j].step \in Nat
        <5>1. \A b \in Branches : b.step \in Nat
          BY DEF Branches
        <5>2. \A j \in 1..Len(a) : a[j] \in Branches
          BY <3>2
        <5> QED BY <5>1, <5>2
      <4>2. \A j \in 1..Len(a) : branch.step < a[j].step
        BY <2>3, <3>1, <3>3, Forward
      <4> QED BY <4>1, <4>2
    <3>5. s < branch.step
      BY <2>1, <3>2
    <3>6. \A k \in 1..Len(pending') : s < pending'[k].step
      <4> TAKE k \in 1..Len(pending')
      <4>1. \/ \E j \in 2..Len(pending) : pending'[k] = pending[j]
            \/ \E j \in 1..Len(a) : pending'[k] = a[j]
        BY <2>3, <3>1, SpliceFacts DEF Spliced
      <4>2. \A j \in 1..Len(a) : s < a[j].step
        BY <3>2, <3>4, <3>5
      <4> QED BY <2>1, <3>2, <4>1, <4>2
    <3> QED BY <2>1, <3>6
  <2> QED BY <2>2, <2>3, Moves
<1>3. CASE Acts
  <2>1. Follow(next) /\ (At("send") \/ At("reboot"))
    BY <1>3 DEF Acts
  <2>2. /\ pending # <<>> /\ branch \in Branches
        /\ branch.step \in DOMAIN plan /\ plan[branch.step].op \in {"send", "reboot"}
    BY <2>1, AtFacts DEF step
  <2>3. DOMAIN plan = 1..Len(plan) /\ Len(plan) \in Nat
    BY PlanFacts
  <2>4. PICK s \in DOMAIN plan : plan[s].op = "send" /\ s <= branch.step
    <3>1. CASE plan[branch.step].op = "send"
      BY <2>2, <2>3, <3>1 DEF Branches
    <3>2. CASE plan[branch.step].op = "reboot"
      <4>1. PICK s \in 1..branch.step - 1 : plan[s].op = "send"
        BY <2>2, <3>2, PlanFacts DEF ActsOnce
      <4>2. s \in DOMAIN plan /\ s <= branch.step
        BY <2>2, <2>3
      <4> QED BY <4>1, <4>2
    <3> QED BY <2>2, <3>1, <3>2
  <2>5. Len(pending) = 1
    BY <2>2, <2>4, SendsAlone
  <2>6. pending' = <<next>>
    <3>1. /\ next \in Branches /\ <<next>> \in Seq(Branches)
          /\ pending \in Seq(Branches)
      BY <2>2, NextBranch, HeadFacts
    <3>2. Tail(pending) = <<>>
      <4>1. Tail(pending) \in Seq(Branches) /\ Len(Tail(pending)) = 0
        BY <2>2, <2>5, <3>1
      <4>2. \A q \in Seq(Branches) : Len(q) = 0 => q = <<>>
        BY EmptySeq
      <4> QED BY <4>1, <4>2
    <3>3. <<next>> \o <<>> = <<next>>
      BY <3>1, ConcatEmptySeq
    <3> QED BY <2>1, <3>2, <3>3 DEF Follow
  <2>7. s < next.step
    BY <2>2, <2>3, <2>4, NextBranch DEF Branches
  <2> QED BY <2>4, <2>6, <2>7
<1> QED BY <1>1, <1>2, <1>3, EffectOfStep, PhaseOfStep DEF Acts

\* A success that was asked for synchronously is given to the caller.
LEMMA SuccessIsReturned ==
    ASSUME NEW c, ~c.async
    PROVE  /\ Respond(c, Reply(202, TRUE, "json")).kind = "returned"
           /\ \A code \in {200, 204} : Respond(c, Reply(code, FALSE, "json")).kind = "returned"
<1>1. Respond(c, Reply(202, TRUE, "json")).kind = "returned"
  <2> DEFINE r == Reply(202, TRUE, "json")
  <2>1. r.location = TRUE
    BY DEF Reply
  <2> HIDE DEF r
  <2>2. ReadApiRespond(c, r) = Returned("AcceptedTaskGenerated")
    BY <2>1 DEF ReadApiRespond
  <2>3. Respond(c, r).kind = "returned"
    BY <2>1, <2>2 DEF Respond, Returned, ApiRespondToString
  <2> QED BY <2>3 DEF r
<1>2. ASSUME NEW code \in {200, 204}
      PROVE  Respond(c, Reply(code, FALSE, "json")).kind = "returned"
  <2> DEFINE r == Reply(code, FALSE, "json")
  <2>1. r.location = FALSE /\ r.code = code /\ code \in 200..299
    BY DEF Reply
  <2> HIDE DEF r
  <2>2. ReadApiRespond(c, r) = Mapped(code)
    BY <2>1 DEF ReadApiRespond
  <2>3. Mapped(code) = Returned("Ok") \/ Mapped(code) = Returned("Success")
    BY DEF Mapped, HttpCodeMapping
  <2>4. Respond(c, r).kind = "returned"
    BY <2>1, <2>2, <2>3 DEF Respond, Returned, ApiRespondToString
  <2> QED BY <2>4 DEF r
<1> QED BY <1>1, <1>2

\* A request is reported as a task only if it was answered with the name of one.
LEMMA TaskIsNamed ==
    ASSUME NEW c, NEW r, Respond(c, r).verdict = "AcceptedTaskGenerated"
    PROVE  r.location
<1> SUFFICES ASSUME ~r.location PROVE FALSE
  OBVIOUS
<1> DEFINE read == ReadApiRespond(c, r)
<1>1. Raised("AttributeError").verdict = "none" /\ Raised("TaskIdUnavailable").verdict = "none"
      /\ Raised("KeyError").verdict = "none"
  BY DEF Raised
<1>2. CASE read.kind # "raised"
  BY <1>1, <1>2 DEF Respond
<1>3. CASE read.kind = "raised"
  <2>1. \A v : Returned(v).kind = "returned"
    BY DEF Returned
  <2>2. \A e : Raised(e).verdict = "none"
    BY DEF Raised
  <2>3. \A code : (\E v : Mapped(code) = Returned(v)) \/ (\E e : Mapped(code) = Raised(e))
    BY DEF Mapped
  <2>4. (\E v : Failed(r) = Returned(v)) \/ (\E e : Failed(r) = Raised(e))
    BY DEF Failed
  <2>5. (\E v : read = Returned(v)) \/ (\E e : read = Raised(e))
    BY <2>3, <2>4 DEF ReadApiRespond
  <2>6. read.verdict = "none"
    BY <1>3, <2>1, <2>2, <2>5
  <2> QED BY <1>3, <2>6 DEF Respond
<1> QED BY <1>2, <1>3

\* What a request was reported as, and what is shown of a watch: of a task the
\* controller has opened, or of the job that a command of no change is given.
Watching ==
    /\ verdict = "AcceptedTaskGenerated" => "task" \in effect
    /\ watched => "task" \in effect \/ Has(plan, {"await"})
    /\ effect # {} => Has(plan, {"send"})

LEMMA NextWatching == TypeOK /\ Watching /\ [Next]_vars => Watching'
<1> SUFFICES ASSUME TypeOK, Watching, [Next]_vars PROVE Watching'
  OBVIOUS
<1>1. UNCHANGED plan
  BY Moves DEF invocation
<1>2. effect' # {} => Has(plan, {"send"})
  <2>1. CASE UNCHANGED effect
    BY <2>1 DEF Watching
  <2>2. CASE Acts
    <3>1. branch.step \in DOMAIN plan /\ plan[branch.step].op \in {"send", "reboot"}
      BY <2>2, AtFacts DEF Acts, step
    <3>2. plan[branch.step].op = "reboot" => \E s \in 1..branch.step - 1 : plan[s].op = "send"
      BY <3>1, PlanFacts DEF ActsOnce
    <3>3. 1..branch.step - 1 \subseteq DOMAIN plan
      BY <3>1, PlanFacts
    <3> QED BY <3>1, <3>2, <3>3 DEF Has
  <2> QED BY <2>1, <2>2, EffectOfStep
<1>3. CASE UNCHANGED acts
  BY <1>1, <1>3 DEF Watching, acts
<1>4. ASSUME NEW reply, Report(reply), verdict' = "AcceptedTaskGenerated" PROVE reply.location
  <2>1. Returned("Ok").verdict = "Ok"
    BY DEF Returned
  <2>2. Respond(call, reply).verdict = "AcceptedTaskGenerated"
    BY <1>4, <2>1 DEF Report
  <2> QED BY <2>2, TaskIsNamed
<1>5. \A code, body : ~Reply(code, FALSE, body).location
  BY DEF Reply
<1>6. CASE Sent \/ SentNowhere \/ SentInVain
  <2>1. /\ verdict' = "AcceptedTaskGenerated" => "task" \in effect'
        /\ effect \subseteq effect' /\ UNCHANGED watched
    <3>1. CASE Sent
      <4>1. effect \subseteq effect' /\ UNCHANGED watched
        BY <3>1 DEF Sent
      <4>2. \/ "task" \in effect'
            \/ \E code, body : Report(Reply(code, FALSE, body))
        BY <3>1 DEF Sent
      <4> QED BY <1>4, <1>5, <4>1, <4>2
    <3>2. CASE SentNowhere
      BY <1>4, <1>5, <3>2 DEF SentNowhere, Watching
    <3>3. CASE SentInVain
      <4>1. effect \subseteq effect' /\ UNCHANGED watched
        BY <3>3 DEF SentInVain
      <4>2. CASE UNCHANGED verdict
        BY <4>1, <4>2 DEF Watching
      <4>3. CASE Report(Reply(500, FALSE, "error")) \/ Report(Reply(202, FALSE, "json"))
        <5>1. \E code, body : Report(Reply(code, FALSE, body))
          BY <4>3
        <5>2. verdict' # "AcceptedTaskGenerated"
          BY <1>4, <1>5, <5>1
        <5> QED BY <4>1, <5>2
      <4> QED BY <3>3, <4>1, <4>2, <4>3 DEF SentInVain
    <3> QED BY <1>6, <3>1, <3>2, <3>3
  <2> QED BY <1>1, <1>2, <2>1 DEF Watching
<1>7. CASE WatchTask
  <2>1. At("await") => Has(plan, {"await"})
    BY AtFacts DEF step, Has
  <2> QED BY <1>1, <1>7, <2>1 DEF WatchTask, Watching
<1>8. CASE RebootHost
  BY <1>1, <1>2, <1>8 DEF RebootHost, Watching
<1> QED BY <1>3, <1>6, <1>7, <1>8
        DEF Next, vars, CheckVersion, CommandReturns, AskVendor, AskVersions, Answered, Incomplete,
            Refused, Stray, AskNowhere, Resolve, Local, LocalError

\* Of a change the controller has made and said so: what there is to show.
ShownInv ==
    /\ TypeOK /\ OnTheWay /\ StraysAskAgain /\ NotYet /\ ActedOnce /\ Watching
    /\ DoneIsShown

\* Before the command acts there is nothing to show, and of its steps after
\* that none ends it but one that fails.
LEMMA NextDoneIsShown ==
    ShownInv /\ [Next]_vars => DoneIsShown'
<1> SUFFICES ASSUME ShownInv, [Next]_vars,
                    phase' = "done", effect' # {}, ~blamed', ~do_async'
             PROVE  \/ outcome' = "shown"
                    \/ outcome' = "silent" /\ "task" \in effect'
                    \/ Has(plan', {"fail"})
  BY DEF DoneIsShown
<1> USE DEF ShownInv
<1>1. UNCHANGED <<plan, do_async>>
  BY Moves DEF invocation
<1>2. phase = "execute" /\ effect # {} =>
         \A op \in Reads \union {"send"} : ~At(op)
  <2> SUFFICES ASSUME phase = "execute", effect # {}
               PROVE  \A op \in Reads \union {"send"} : ~At(op)
    OBVIOUS
  <2>1. PICK s \in DOMAIN plan : /\ plan[s].op = "send"
                                 /\ \A k \in 1..Len(pending) : s < pending[k].step
    BY DEF ActedOnce
  <2>2. ASSUME NEW op \in Reads \union {"send"}, At(op) PROVE FALSE
    <3>1. /\ branch.step \in DOMAIN plan /\ plan[branch.step].op = op
          /\ branch = pending[1] /\ Len(pending) \in Nat \ {0}
      BY <2>2, AtFacts, HeadFacts DEF step
    <3>2. s < branch.step /\ s \in Nat
      BY <2>1, <3>1, PlanFacts
    <3>3. PICK f \in 0..s, e \in 0..s : Once(plan, s, f, e)
      BY <2>1, PlanFacts DEF ActsOnce
    <3>4. plan[branch.step].op \in {"watch", "reboot", "end", "fail"}
      BY <2>1, <3>1, <3>2, <3>3, OnceFacts
    <3> QED BY <3>1, <3>4 DEF Reads, Roots
  <2> QED BY <2>2
<1>3. Fault => effect = {}
  BY DEF Fault
<1>4. Continue => phase = "done"
  BY DEF Continue
<1>5. CASE CheckVersion \/ CommandReturns \/ Local
  BY <1>5 DEF CheckVersion, CommandReturns, Local, Walk, AddRow, Jump, At, NotYet, acts
<1>6. CASE AskVendor \/ AskVersions
  <2>1. UNCHANGED effect /\ effect # {} /\ Show
    BY <1>3, <1>6 DEF AskVendor, AskVersions, acts
  <2>2. ~Has(plan, {"await"})
    <3>1. PICK s \in DOMAIN plan : plan[s].op = "send"
      BY <2>1 DEF Watching, Has
    <3> QED BY <3>1, SendsOnce DEF Has
  <2>3. watched => "task" \in effect
    BY <2>2 DEF Watching
  <2> QED BY <2>1, <2>3 DEF Show
<1>7. CASE Answered \/ Incomplete \/ Refused \/ Resolve
  <2>1. phase = "execute" /\ UNCHANGED effect
    BY <1>7 DEF Answered, Incomplete, Refused, Resolve, FindRoot, RootFails, acts, At
  <2>2. CASE Answered \/ Incomplete \/ Refused
    BY <1>3, <1>4, <2>1, <2>2 DEF Answered, Incomplete, Refused
  <2>3. CASE Resolve
    <3>1. PICK root \in Roots : At(root)
      BY <2>3 DEF Resolve, FindRoot, RootFails
    <3> QED BY <1>2, <2>1, <3>1 DEF Reads
  <2> QED BY <1>7, <2>2, <2>3
<1>15. CASE AskNowhere
  BY <1>2, <1>15 DEF AskNowhere, acts, At, Reads
<1>16. CASE SentNowhere
  BY <1>2, <1>16 DEF SentNowhere, At
<1>8. CASE Stray
  BY <1>2, <1>8 DEF Stray, acts, At, Reads
<1>9. CASE LocalError
  <2>1. At("fail")
    BY <1>9 DEF LocalError
  <2> QED BY <1>1, <2>1, AtFacts DEF step, Has
<1>10. CASE Sent
  <2>1. At("send") /\ phase = "execute" /\ effect = {} /\ ~do_async
    BY <1>1, <1>2, <1>10 DEF Sent, At
  <2>2. ~call.async
    BY <2>1 DEF call
  <2>3. \A r : Report(r) /\ Respond(call, r).kind = "returned" => Continue
    BY DEF Report, Returned
  <2>4. \/ Report(Reply(202, TRUE, "json"))
        \/ \E code \in {200, 204} : Report(Reply(code, FALSE, "json"))
    BY <1>10, <2>1 DEF Sent
  <2>5. /\ Respond(call, Reply(202, TRUE, "json")).kind = "returned"
        /\ \A code \in {200, 204} : Respond(call, Reply(code, FALSE, "json")).kind = "returned"
    BY <2>2, SuccessIsReturned
  <2>6. Continue
    BY <2>3, <2>4, <2>5
  <2> QED BY <1>4, <2>1, <2>6
<1>11. CASE SentInVain
  BY <1>11 DEF SentInVain
<1>12. CASE WatchTask
  BY <1>3, <1>4, <1>12 DEF WatchTask, At, acts
<1>13. CASE RebootHost
  BY <1>4, <1>13 DEF RebootHost, At
<1>14. CASE UNCHANGED vars
  BY <1>1, <1>14 DEF DoneIsShown, vars, acts
<1> QED BY <1>5, <1>6, <1>7, <1>8, <1>9, <1>10, <1>11, <1>12, <1>13, <1>14, <1>15, <1>16 DEF Next

LEMMA InitShown == Init => ShownInv
<1> SUFFICES ASSUME Init PROVE ShownInv
  OBVIOUS
<1>1. /\ TypeOK /\ phase = "version" /\ effect = {}
      /\ Len(pending) = 1 /\ pending[1].step = 1 /\ ~pending[1].stray
  BY InitTyped DEF Init, Branch
<1>2. OnTheWay
  <2> SUFFICES ASSUME NEW s \in DOMAIN plan, plan[s].op = "send",
                      NEW f \in 0..s, NEW e \in 0..s, Once(plan, s, f, e)
               PROVE  Shape(f, e)
    BY DEF OnTheWay
  <2>1. f \in Nat /\ e \in Nat /\ f <= e /\ (f = 0 => e = 0)
    BY <1>1, OnceFacts
  <2>2. 1 <= f \/ e < 1
    BY <2>1
  <2> QED BY <1>1, <2>2 DEF Shape
<1>3. StraysAskAgain
  <2>1. \A k \in 1..Len(pending) : k = 1
    BY <1>1
  <2> QED BY <1>1, <2>1 DEF StraysAskAgain
<1>4. NotYet /\ ActedOnce /\ DoneIsShown
  BY <1>1 DEF NotYet, ActedOnce, DoneIsShown
<1>5. Watching
  BY <1>1 DEF Init, Watching
<1> QED BY <1>1, <1>2, <1>3, <1>4, <1>5 DEF ShownInv

\* A change the controller has made and said so is shown to the caller when
\* nothing fails after it, with two exceptions: a command whose own code cannot
\* finish after the request, and a task that fetch_task has watched, of which
\* nothing is printed.
THEOREM DoneIsAlwaysShown == FairSpec => []DoneIsShown
<1>1. ShownInv /\ [Next]_vars => ShownInv'
  <2> SUFFICES ASSUME ShownInv, [Next]_vars PROVE ShownInv'
    OBVIOUS
  <2>1. DoneIsShown'
    BY NextDoneIsShown
  <2>2. TypeOK' /\ OnTheWay' /\ StraysAskAgain' /\ NotYet' /\ ActedOnce' /\ Watching'
    BY NextTyped, NextOnTheWay, NextStraysAskAgain, NextNotYet, NextActedOnce, NextWatching
       DEF ShownInv
  <2> QED BY <2>1, <2>2 DEF ShownInv
<1>2. ShownInv => DoneIsShown
  BY DEF ShownInv
<1> QED BY <1>1, <1>2, InitShown, PTL DEF FairSpec, Spec

-----------------------------------------------------------------------------
(* What cannot be read costs its own branch *)

\* No pending branch is below another.
Apart ==
    \A k, l \in 1..Len(pending) : k # l => Incomparable(pending[k].node, pending[l].node)

\* A stray branch asks once more for what its list was walked for.
AsksOnly(p, k) ==
    /\ k \in DOMAIN p
    /\ \/ p[k].op = "again"
       \/ p[k].op = "get" /\ k + 1 \in DOMAIN p /\ p[k + 1].op = "again"

\* A branch of plan p is apart from the nodes given up, has nothing below it
\* that was walked or has a row, and gets its row when it is that of a member.
Ahead(b, p, given, read, rowed) ==
    /\ \A g \in given : Incomparable(g, b.node)
    /\ \A r \in read : ~Below(r, b.node)
    /\ IF b.stray THEN b.node \in rowed /\ AsksOnly(p, b.step)
       ELSE \A n \in rowed : ~Below(n, b.node)
    /\ Has(p, {"row", "again"}) =>
          \A r \in read, i \in 1..Fan : b.node = Append(r, i) => ToARow(p, b.step)

AllAhead ==
    \A k \in 1..Len(pending) : Ahead(pending[k], plan, given_up, read_from, RowNodes)

\* After a GET or a loop on the way to a row the row is still to come.
LEMMA ToARowGoesOn ==
    ASSUME NEW p, NEW k \in Nat, ToARow(p, k), Len(p) \in Nat
    PROVE  /\ p[k].op \in {"get", "each", "gather", "row", "again"}
           /\ p[k].op \in {"get", "each", "gather"} => ToARow(p, k + 1)
<1>1. PICK r \in k..Len(p) : /\ p[r].op \in {"row", "again"}
                             /\ \A j \in k..r - 1 : p[j].op \in {"get", "each", "gather"}
  BY DEF ToARow
<1>2. CASE r = k
  BY <1>1, <1>2
<1>3. CASE r # k
  <2>1. k \in k..r - 1 /\ r \in k + 1..Len(p) /\ \A j \in k + 1..r - 1 : j \in k..r - 1
    BY <1>3
  <2> QED BY <1>1, <2>1 DEF ToARow
<1> QED BY <1>2, <1>3

\* What a step adds to the history of the walk is the node of its branch.
LEMMA HistoryOfMove ==
    ASSUME TypeOK, Moved
    PROVE  /\ given_up \subseteq given_up' /\ given_up' \subseteq given_up \union {branch.node}
           /\ read_from \subseteq read_from' /\ read_from' \subseteq read_from \union {branch.node}
           /\ RowNodes \subseteq RowNodes' /\ RowNodes' \subseteq RowNodes \union {branch.node}
<1>1. AddsRow => /\ RowNodes \subseteq RowNodes'
                 /\ RowNodes' \subseteq RowNodes \union {branch.node}
  <2> SUFFICES ASSUME AddsRow
               PROVE  /\ RowNodes \subseteq RowNodes'
                      /\ RowNodes' \subseteq RowNodes \union {branch.node}
    OBVIOUS
  <2>1. PICK v \in BOOLEAN : rows' = rows \union {[node |-> branch.node, read |-> v]}
    BY DEF AddsRow
  <2> QED BY <2>1 DEF RowNodes
<1>2. UNCHANGED rows => RowNodes' = RowNodes
  BY DEF RowNodes
<1>3. /\ given_up \subseteq given_up' /\ given_up' \subseteq given_up \union {branch.node}
      /\ read_from \subseteq read_from' /\ read_from' \subseteq read_from \union {branch.node}
  BY DEF Moved, Skipped, Went, Jumped, Rowed, Repeated, Walked, Split, Dropped
<1>4. UNCHANGED rows \/ AddsRow
  BY DEF Moved, Skipped, Went, Jumped, Rowed, Repeated, Walked, Split, Dropped
<1> QED BY <1>1, <1>2, <1>3, <1>4

\* A branch that waits is apart from the one that moves, and so from what the
\* move leaves behind.
LEMMA OthersAhead ==
    ASSUME TypeOK, Moved, NEW b \in Branches, Incomparable(branch.node, b.node),
           Ahead(b, plan, given_up, read_from, RowNodes)
    PROVE  Ahead(b, plan, given_up', read_from', RowNodes')
<1> DEFINE m == branch.node
<1>1. /\ m \in Nodes /\ b.node \in Nodes
      /\ given_up' \subseteq given_up \union {m}
      /\ read_from' \subseteq read_from \union {m}
      /\ RowNodes \subseteq RowNodes' /\ RowNodes' \subseteq RowNodes \union {m}
  BY HistoryOfMove, HeadFacts DEF Moved, Branches
<1> HIDE DEF m
<1>2. Incomparable(m, b.node)
  BY DEF m
<1>3. \A i \in 1..Fan : b.node # Append(m, i)
  <2>1. Fan \in Nat /\ \A i \in 1..Fan : i \in Nat
    BY RunCommandAssumption
  <2>2. \A i \in Nat : Below(Append(m, i), m)
    BY <1>1, Children1
  <2> QED BY <1>2, <2>1, <2>2 DEF Incomparable
<1>4. \A g \in given_up' : Incomparable(g, b.node)
  BY <1>1, <1>2 DEF Ahead
<1>5. \A r \in read_from' : ~Below(r, b.node)
  BY <1>1, <1>2 DEF Ahead, Incomparable
<1>6. IF b.stray THEN b.node \in RowNodes' /\ AsksOnly(plan, b.step)
      ELSE \A n \in RowNodes' : ~Below(n, b.node)
  BY <1>1, <1>2 DEF Ahead, Incomparable
<1>7. Has(plan, {"row", "again"}) =>
         \A r \in read_from', i \in 1..Fan : b.node = Append(r, i) => ToARow(plan, b.step)
  BY <1>1, <1>3 DEF Ahead
<1> QED BY <1>4, <1>5, <1>6, <1>7 DEF Ahead

\* A node apart from those given up, with nothing walked or reported below it.
Clear(node, given, read, rowed) ==
    /\ \A g \in given : Incomparable(g, node)
    /\ \A r \in read : ~Below(r, node)
    /\ \A n \in rowed : ~Below(n, node)

\* So are its children, once it has been walked itself.
LEMMA ChildClear ==
    ASSUME NEW m \in Nodes, NEW i \in Nat, NEW given \in SUBSET Nodes, NEW read \in SUBSET Nodes,
           NEW rowed \in SUBSET Nodes, Clear(m, given, read, rowed)
    PROVE  /\ Clear(Append(m, i), given, read, rowed)
           /\ Clear(Append(m, i), given, read \union {m}, rowed)
<1>1. \A g \in given : Incomparable(g, Append(m, i))
  BY ChildApart DEF Clear, Incomparable
<1>2. ~Below(m, Append(m, i))
  BY Children1
<1>3. \A x \in Nodes : Below(x, Append(m, i)) => Below(x, m)
  BY Children1
<1> QED BY <1>1, <1>2, <1>3 DEF Clear

\* A branch that is walked or split is no stray one.
LEMMA StraysStay ==
    ASSUME TypeOK, Moved, Ahead(branch, plan, given_up, read_from, RowNodes), branch.stray
    PROVE  /\ branch.step \in DOMAIN plan /\ step.op \in {"get", "again"}
           /\ step.op = "get" => AsksOnly(plan, branch.step + 1)
<1>1. AsksOnly(plan, branch.step)
  BY DEF Ahead
<1> QED BY <1>1 DEF AsksOnly, step

\* A row of the branch that moves is a row of its node.
LEMMA RowOfNode == AddsRow => branch.node \in RowNodes'
<1> SUFFICES ASSUME AddsRow PROVE \E r \in rows' : r.node = branch.node
  BY DEF RowNodes
<1>1. PICK v \in BOOLEAN : rows' = rows \union {[node |-> branch.node, read |-> v]}
  BY DEF AddsRow
<1> DEFINE r == [node |-> branch.node, read |-> v]
<1>2. r \in rows' /\ r.node = branch.node
  BY <1>1
<1> QED BY <1>2

\* What takes the place of a branch is ahead of what it leaves behind.
LEMMA ReplacementAhead ==
    ASSUME TypeOK, Moved, Ahead(branch, plan, given_up, read_from, RowNodes),
           NEW a \in Seq(Branches), Replacement(a), NEW j \in 1..Len(a)
    PROVE  Ahead(a[j], plan, given_up', read_from', RowNodes')
<1> DEFINE m == branch.node
<1>1. /\ branch \in Branches /\ m \in Nodes /\ branch.step \in Nat /\ pending # <<>>
      /\ given_up \subseteq Nodes /\ read_from \subseteq Nodes /\ RowNodes \subseteq Nodes
      /\ plan \in Seq(Steps) /\ Len(plan) \in Nat /\ DOMAIN plan = 1..Len(plan)
  BY HeadFacts, PlanFacts DEF Moved, Branches, TypeOK, RowNodes
<1>2. /\ \A g \in given_up : Incomparable(g, m)
      /\ \A r \in read_from : ~Below(r, m)
      /\ ~branch.stray => \A n \in RowNodes : ~Below(n, m)
      /\ branch.stray => m \in RowNodes
  BY DEF Ahead
<1>3. Has(plan, {"row", "again"}) =>
         \A r \in read_from, i \in 1..Fan : m = Append(r, i) => ToARow(plan, branch.step)
  BY DEF Ahead
<1>4. ToARow(plan, branch.step) =>
         /\ step.op \in {"get", "each", "gather", "row", "again"}
         /\ step.op \in {"get", "each", "gather"} => ToARow(plan, branch.step + 1)
  BY <1>1, ToARowGoesOn DEF step
<1>5. UNCHANGED rows => RowNodes' = RowNodes
  BY DEF RowNodes
<1>6. CASE (Skipped \/ Rowed \/ Dropped) /\ a = <<>>
  BY <1>6
<1>7. CASE Went /\ \E v, w \in BOOLEAN : a = <<[next EXCEPT !.read = v, !.nowhere = w]>>
  <2>1. /\ j = 1 /\ a[1].step = branch.step + 1 /\ a[1].stray = branch.stray /\ a[1].node = m
        /\ a[1] \in Branches
    <3>1. PICK v, w \in BOOLEAN : a = <<[next EXCEPT !.read = v, !.nowhere = w]>>
      BY <1>7
    <3>2. Len(a) = 1 /\ a[1] = [next EXCEPT !.read = v, !.nowhere = w] /\ j = 1
      BY <3>1
    <3>3. a[j] \in Branches
      OBVIOUS
    <3> QED BY <1>1, <3>2, <3>3, NextBranch DEF Branches
  <2>2. /\ UNCHANGED <<rows, read_from, given_up>>
        /\ step.op \notin {"each", "gather", "row", "again"}
    BY <1>7 DEF Went, Here, Reads, Roots
  <2>3. branch.stray => AsksOnly(plan, branch.step + 1)
    BY <2>2, StraysStay
  <2>4. ToARow(plan, branch.step) => ToARow(plan, branch.step + 1)
    BY <1>4, <2>2
  <2> QED BY <1>2, <1>3, <1>5, <2>1, <2>2, <2>3, <2>4 DEF Ahead
<1>8. CASE Jumped /\ a = <<[branch EXCEPT !.step = step.to, !.read = TRUE, !.nowhere = FALSE]>>
  <2>1. j = 1 /\ a[1].stray = branch.stray /\ a[1].node = m
    <3>1. Len(a) = 1 /\ a[1] = [branch EXCEPT !.step = step.to, !.read = TRUE, !.nowhere = FALSE]
      BY <1>8
    <3>2. a[1].stray = branch.stray /\ a[1].node = m
      BY <1>1, <3>1 DEF Branches
    <3> QED BY <3>1, <3>2
  <2>2. UNCHANGED <<rows, read_from, given_up>> /\ step.op \in {"unless", "else"}
    BY <1>8 DEF Jumped, Here
  <2>3. ~branch.stray
    BY <2>2, StraysStay
  <2>4. ~ToARow(plan, branch.step)
    BY <1>4, <2>2
  <2> QED BY <1>2, <1>3, <1>5, <2>1, <2>2, <2>3, <2>4 DEF Ahead
<1>9. CASE Repeated /\ a = <<[branch EXCEPT !.step = @ - 1, !.stray = TRUE]>>
  <2>1. j = 1 /\ a[1].stray /\ a[1].node = m /\ a[1].step = branch.step - 1
    <3>1. Len(a) = 1 /\ a[1] = [branch EXCEPT !.step = @ - 1, !.stray = TRUE]
      BY <1>9
    <3>2. a[1].stray /\ a[1].node = m /\ a[1].step = branch.step - 1
      BY <1>1, <3>1 DEF Branches
    <3> QED BY <3>1, <3>2
  <2>2. UNCHANGED <<read_from, given_up>> /\ Here({"again"}) /\ AddsRow
    BY <1>9 DEF Repeated
  <2>3. m \in RowNodes'
    BY <2>2, RowOfNode
  <2>4. /\ branch.step - 1 \in DOMAIN plan /\ plan[branch.step - 1].op = "get"
        /\ plan[branch.step].op = "again" /\ branch.step \in DOMAIN plan
        /\ (branch.step - 1) + 1 = branch.step
    BY <1>1, <2>2, AgainFacts DEF Here, step
  <2>5. AsksOnly(plan, branch.step - 1)
    BY <2>4 DEF AsksOnly
  <2>6. ToARow(plan, branch.step - 1)
    <3>1. branch.step \in branch.step - 1..Len(plan)
      BY <1>1, <2>4
    <3>2. \A k \in branch.step - 1..branch.step - 1 : k = branch.step - 1
      BY <1>1
    <3> QED BY <2>4, <3>1, <3>2 DEF ToARow
  <2> QED BY <1>2, <2>1, <2>2, <2>3, <2>5, <2>6 DEF Ahead
<1>10. CASE Walked /\ a = Children
  <2>1. /\ j \in 1..Fan /\ Fan \in Nat /\ a[j] = Branch(branch.step + 1, Append(m, j))
        /\ read_from' = read_from \union {m} /\ UNCHANGED <<rows, given_up>>
        /\ step.op \in {"each", "gather"} /\ branch.step \in DOMAIN plan
    BY <1>1, <1>10, ReplacementFacts, RunCommandAssumption DEF Walked, Here
  <2>2. ~branch.stray
    BY <2>1, StraysStay
  <2>3. Clear(Append(m, j), given_up, read_from', RowNodes)
    <3>1. Clear(m, given_up, read_from, RowNodes) /\ j \in Nat
      BY <1>2, <2>1, <2>2 DEF Clear
    <3> QED BY <1>1, <2>1, <3>1, ChildClear
  <2>4. Has(plan, {"row", "again"}) => ToARow(plan, branch.step + 1)
    BY <2>1, PlanFacts DEF MembersHaveRows, step
  <2>5. a[j].node = Append(m, j) /\ ~a[j].stray /\ a[j].step = branch.step + 1
    BY <2>1 DEF Branch
  <2> QED BY <1>5, <2>1, <2>3, <2>4, <2>5 DEF Ahead, Clear
<1>11. CASE Split /\ a = Forked
  <2>1. /\ UNCHANGED <<rows, read_from, given_up>>
        /\ step.op = "fork" /\ branch.step \in DOMAIN plan
    BY <1>11 DEF Split, Here
  <2>2. ~branch.stray
    BY <2>1, StraysStay
  <2>3. PICK i \in {0, 1} : a[j].node = Append(m, i) /\ ~a[j].stray
    <3>0. /\ Len(Forked) = 2
          /\ Forked[1] = [next EXCEPT !.node = Append(@, 1)]
          /\ Forked[2] = Branch(step.to, Append(m, 0))
      BY <1>1, ReplacementFacts
    <3>1. j \in {1, 2} /\ a[1] = [next EXCEPT !.node = Append(@, 1)]
          /\ a[2] = Branch(step.to, Append(m, 0))
      <4>1. j \in 1..2
        BY <1>11, <3>0
      <4> QED BY <1>11, <3>0, <4>1
    <3>2. a[1].node = Append(m, 1) /\ a[1].stray = branch.stray
      BY <1>1, <3>1, NextBranch DEF Branches
    <3>3. a[2].node = Append(m, 0) /\ ~a[2].stray
      BY <3>1 DEF Branch
    <3> QED BY <2>2, <3>1, <3>2, <3>3
  <2>4. i \in Nat
    OBVIOUS
  <2>5. Clear(Append(m, i), given_up, read_from, RowNodes)
    <3>1. Clear(m, given_up, read_from, RowNodes)
      BY <1>2, <2>2 DEF Clear
    <3> QED BY <1>1, <2>4, <3>1, ChildClear
  <2>6. \A r \in read_from, l \in 1..Fan : Append(m, i) # Append(r, l)
    <3> SUFFICES ASSUME NEW r \in read_from, NEW l \in 1..Fan, Append(m, i) = Append(r, l)
                 PROVE  FALSE
      OBVIOUS
    <3>1. r \in Nodes /\ l \in Nat
      BY <1>1, RunCommandAssumption
    <3>2. m = r
      BY <1>1, <2>4, <3>1, OneParent
    <3> QED BY <1>1, <1>2, <2>4, <3>2, Children1
  <2> QED BY <1>5, <2>1, <2>3, <2>5, <2>6 DEF Ahead, Clear
<1> QED BY <1>6, <1>7, <1>8, <1>9, <1>10, <1>11 DEF Replacement

\* The branches that take the place of another are apart, and apart from what
\* it was apart from.
LEMMA ReplacementNodes ==
    ASSUME TypeOK, Moved, NEW a \in Seq(Branches), Replacement(a)
    PROVE  /\ \A x \in Nodes, j \in 1..Len(a) :
                 Incomparable(branch.node, x) => Incomparable(a[j].node, x)
           /\ \A i, j \in 1..Len(a) : i # j => Incomparable(a[i].node, a[j].node)
<1> DEFINE m == branch.node
<1>1. branch \in Branches /\ m \in Nodes /\ pending # <<>> /\ Fan \in Nat
  BY HeadFacts, RunCommandAssumption DEF Moved, Branches
<1>2. CASE Len(a) = 0
  BY <1>2
<1>3. CASE Len(a) = 1 /\ a[1].node = m
  <2>1. \A j \in 1..Len(a) : j = 1
    BY <1>3
  <2> QED BY <1>3, <2>1
<1>4. CASE Walked /\ a = Children
  <2>1. Len(a) = Fan /\ \A j \in 1..Fan : a[j].node = Append(m, j) /\ j \in Nat
    BY <1>1, <1>4, ReplacementFacts DEF Branch
  <2> HIDE DEF m
  <2>2. \A x \in Nodes, j \in Nat : Incomparable(m, x) => Incomparable(Append(m, j), x)
    BY <1>1, ChildApart
  <2>3. \A i, j \in Nat : i # j => Incomparable(Append(m, i), Append(m, j))
    BY <1>1, SiblingsApart
  <2>4. \A x \in Nodes, j \in 1..Len(a) : Incomparable(m, x) => Incomparable(a[j].node, x)
    BY <2>1, <2>2
  <2>5. \A i, j \in 1..Len(a) : i # j => Incomparable(a[i].node, a[j].node)
    BY <2>1, <2>3
  <2> QED BY <2>4, <2>5 DEF m
<1>5. CASE Split /\ a = Forked
  <2>1. /\ Len(Forked) = 2
        /\ Forked[1] = [next EXCEPT !.node = Append(@, 1)]
        /\ Forked[2] = Branch(step.to, Append(m, 0))
    BY <1>1, ReplacementFacts
  <2>2. a[1].node = Append(m, 1)
    BY <1>1, <1>5, <2>1, NextBranch DEF Branches
  <2>3. a[2].node = Append(m, 0)
    BY <1>5, <2>1 DEF Branch
  <2>4. \A j \in 1..Len(a) : j = 1 \/ j = 2
    BY <1>5, <2>1
  <2>5. \A x \in Nodes : Incomparable(m, x) =>
           Incomparable(Append(m, 1), x) /\ Incomparable(Append(m, 0), x)
    BY <1>1, ChildApart
  <2>6. Incomparable(Append(m, 1), Append(m, 0)) /\ Incomparable(Append(m, 0), Append(m, 1))
    BY <1>1, SiblingsApart
  <2> QED BY <2>2, <2>3, <2>4, <2>5, <2>6
<1>6. \/ Len(a) = 0
      \/ Len(a) = 1 /\ a[1].node = m
      \/ Walked /\ a = Children
      \/ Split /\ a = Forked
  <2>1. (\E v, w \in BOOLEAN : a = <<[next EXCEPT !.read = v, !.nowhere = w]>>) => Len(a) = 1 /\ a[1].node = m
    <3> SUFFICES ASSUME NEW v \in BOOLEAN, NEW w \in BOOLEAN,
                        a = <<[next EXCEPT !.read = v, !.nowhere = w]>>
                 PROVE  Len(a) = 1 /\ a[1].node = m
      OBVIOUS
    <3>1. Len(a) = 1 /\ a[1] = [next EXCEPT !.read = v, !.nowhere = w]
      OBVIOUS
    <3> QED BY <1>1, <3>1, NextBranch DEF Branches
  <2>2. a = <<[branch EXCEPT !.step = step.to, !.read = TRUE, !.nowhere = FALSE]>> => Len(a) = 1 /\ a[1].node = m
    <3> HAVE a = <<[branch EXCEPT !.step = step.to, !.read = TRUE, !.nowhere = FALSE]>>
    <3>1. Len(a) = 1 /\ a[1] = [branch EXCEPT !.step = step.to, !.read = TRUE, !.nowhere = FALSE]
      OBVIOUS
    <3>2. a[1].node = m
      BY <1>1, <3>1 DEF Branches
    <3> QED BY <3>1, <3>2
  <2>3. a = <<[branch EXCEPT !.step = @ - 1, !.stray = TRUE]>> => Len(a) = 1 /\ a[1].node = m
    <3> HAVE a = <<[branch EXCEPT !.step = @ - 1, !.stray = TRUE]>>
    <3>1. Len(a) = 1 /\ a[1] = [branch EXCEPT !.step = @ - 1, !.stray = TRUE]
      OBVIOUS
    <3>2. a[1].node = m
      BY <1>1, <3>1 DEF Branches
    <3> QED BY <3>1, <3>2
  <2>4. a = <<>> => Len(a) = 0
    OBVIOUS
  <2> QED BY <2>1, <2>2, <2>3, <2>4 DEF Replacement
<1> QED BY <1>2, <1>3, <1>4, <1>5, <1>6

\* The head of pending is apart from the others.
LEMMA MoveApart ==
    ASSUME TypeOK, Apart, Moved
    PROVE  Apart'
<1> SUFFICES ASSUME NEW k \in 1..Len(pending'), NEW l \in 1..Len(pending'), k # l
             PROVE  Incomparable(pending'[k].node, pending'[l].node)
  BY DEF Apart
<1>1. PICK a \in Seq(Branches) : Replacement(a) /\ Splice(a)
  BY MoveSplices
<1>2. /\ pending \in Seq(Branches) /\ Len(pending) \in Nat \ {0} /\ branch = pending[1]
      /\ \A i \in 1..Len(pending) : pending[i].node \in Nodes
  <2>1. pending \in Seq(Branches) /\ Len(pending) \in Nat \ {0} /\ branch = pending[1]
    BY HeadFacts DEF Moved
  <2>2. \A b \in Branches : b.node \in Nodes
    BY DEF Branches
  <2>3. \A i \in 1..Len(pending) : pending[i] \in Branches
    BY <2>1
  <2> QED BY <2>1, <2>2, <2>3
<1>3. \A i, j \in 2..Len(pending) : i # j => Incomparable(pending[i].node, pending[j].node)
  BY DEF Apart
<1>4. \A i, j \in 1..Len(a) : i # j => Incomparable(a[i].node, a[j].node)
  BY <1>1, ReplacementNodes
<1>5. \A i \in 2..Len(pending), j \in 1..Len(a) :
         /\ Incomparable(a[j].node, pending[i].node)
         /\ Incomparable(pending[i].node, a[j].node)
  <2> TAKE i \in 2..Len(pending), j \in 1..Len(a)
  <2>1. Incomparable(branch.node, pending[i].node) /\ pending[i].node \in Nodes
    BY <1>2 DEF Apart
  <2>2. Incomparable(a[j].node, pending[i].node)
    BY <1>1, <2>1, ReplacementNodes
  <2> QED BY <2>2 DEF Incomparable
<1>6. \/ \E i, j \in 2..Len(pending) : i # j /\ pending'[k] = pending[i] /\ pending'[l] = pending[j]
      \/ \E i, j \in 1..Len(a) : i # j /\ pending'[k] = a[i] /\ pending'[l] = a[j]
      \/ \E i \in 2..Len(pending), j \in 1..Len(a) :
            \/ pending'[k] = pending[i] /\ pending'[l] = a[j]
            \/ pending'[l] = pending[i] /\ pending'[k] = a[j]
  BY <1>1, SpliceFacts DEF Spliced
<1> QED BY <1>3, <1>4, <1>5, <1>6

LEMMA MoveAllAhead ==
    ASSUME TypeOK, Apart, AllAhead, Moved, UNCHANGED plan
    PROVE  AllAhead'
<1> SUFFICES ASSUME NEW k \in 1..Len(pending')
             PROVE  Ahead(pending'[k], plan, given_up', read_from', RowNodes')
  BY DEF AllAhead
<1>1. PICK a \in Seq(Branches) : Replacement(a) /\ Splice(a)
  BY MoveSplices
<1>2. /\ pending \in Seq(Branches) /\ Len(pending) \in Nat \ {0} /\ branch = pending[1]
      /\ \A j \in 1..Len(pending) : pending[j] \in Branches
  BY HeadFacts DEF Moved
<1>3. Ahead(branch, plan, given_up, read_from, RowNodes)
  BY <1>2 DEF AllAhead
<1>4. CASE \E j \in 2..Len(pending) : pending'[k] = pending[j]
  <2>1. PICK j \in 2..Len(pending) : pending'[k] = pending[j]
    BY <1>4
  <2>2. j \in 1..Len(pending) /\ 1 \in 1..Len(pending) /\ j # 1
    BY <1>2
  <2>3. Incomparable(branch.node, pending[j].node)
    BY <1>2, <2>2 DEF Apart
  <2>4. Ahead(pending[j], plan, given_up, read_from, RowNodes)
    BY <2>2 DEF AllAhead
  <2> QED BY <1>2, <2>1, <2>2, <2>3, <2>4, OthersAhead
<1>5. CASE \E j \in 1..Len(a) : pending'[k] = a[j]
  BY <1>1, <1>3, <1>5, ReplacementAhead
<1>6. \/ \E j \in 2..Len(pending) : pending'[k] = pending[j]
      \/ \E j \in 1..Len(a) : pending'[k] = a[j]
  BY <1>1, SpliceFacts DEF Spliced
<1> QED BY <1>4, <1>5, <1>6

\* The branch of a member leaves its node where the rest can be told from.
LEMMA MemberIsKept ==
    ASSUME TypeOK, Moved, Ahead(branch, plan, given_up, read_from, RowNodes),
           ToARow(plan, branch.step)
    PROVE  branch.node \in read_from' \union given_up' \union RowNodes' \union PendingNodes'
<1>1. /\ branch \in Branches /\ branch.step \in Nat /\ Len(plan) \in Nat
      /\ pending \in Seq(Branches) /\ pending # <<>>
  BY HeadFacts, PlanFacts DEF Moved, Branches
<1>2. step.op \in {"get", "each", "gather", "row", "again"} /\ branch.step \in 1..Len(plan)
  <2>1. step.op \in {"get", "each", "gather", "row", "again"}
    BY <1>1, ToARowGoesOn DEF step
  <2>2. \E r \in branch.step..Len(plan) : TRUE
    BY DEF ToARow
  <2>3. branch.step <= Len(plan) /\ branch.step # 0
    BY <1>1, <2>2 DEF Branches
  <2> QED BY <1>1, <2>1, <2>3
<1>3. \A b \in Branches : b.node = branch.node /\ (\E k \in 1..Len(pending') : pending'[k] = b)
                             => branch.node \in PendingNodes'
  BY DEF PendingNodes
<1>4. CASE Skipped
  <2>1. branch.stray => branch.node \in RowNodes'
    BY <1>4, HistoryOfMove DEF Ahead
  <2>2. ~branch.stray => branch.node \in given_up'
    BY <1>4 DEF Skipped
  <2> QED BY <2>1, <2>2
<1>5. CASE Rowed \/ Repeated
  BY <1>5, RowOfNode DEF Rowed, Repeated
<1>6. CASE Walked
  BY <1>6 DEF Walked
<1>7. CASE Went
  <2>1. PICK v, w \in BOOLEAN : pending' = <<[next EXCEPT !.read = v, !.nowhere = w]>> \o Tail(pending)
    BY <1>7 DEF Went, Follow
  <2> DEFINE b == [next EXCEPT !.read = v, !.nowhere = w]
  <2>2. b \in Branches /\ b.node = branch.node
    BY <1>1, NextBranch DEF Branches
  <2>3. \E k \in 1..Len(pending') : pending'[k] = b
    <3> HIDE DEF b
    <3>1. <<b>> \in Seq(Branches) /\ Splice(<<b>>)
      BY <2>1, <2>2 DEF b, Splice
    <3>2. Spliced(pending, <<b>>, pending')
      BY <3>1, SpliceFacts
    <3>3. 1 \in 1..Len(<<b>>) /\ <<b>>[1] = b
      OBVIOUS
    <3> QED BY <3>2, <3>3 DEF Spliced
  <2> QED BY <1>3, <2>2, <2>3
<1>8. ~Jumped /\ ~Split /\ ~Dropped
  BY <1>1, <1>2 DEF Jumped, Split, Dropped, Here
<1> QED BY <1>4, <1>5, <1>6, <1>7, <1>8 DEF Moved

LEMMA MoveCosts ==
    ASSUME TypeOK, Apart, AllAhead, CostsItsOwnBranch, Moved, UNCHANGED plan
    PROVE  CostsItsOwnBranch'
<1> DEFINE Told == read_from' \union given_up' \union RowNodes' \union PendingNodes'
<1> SUFFICES ASSUME Has(plan, {"row", "again"})
             PROVE  /\ \A p \in read_from', i \in 1..Fan : Append(p, i) \in Told
                    /\ \A g \in given_up', n \in RowNodes' : ~Below(n, g)
  <2>1. (\E k \in 1..Len(plan) : plan[k].op \in {"row", "again"}) <=> Has(plan, {"row", "again"})
    BY PlanFacts DEF Has
  <2> QED BY <2>1 DEF CostsItsOwnBranch
<1>1. /\ \A p \in read_from, i \in 1..Fan :
            Append(p, i) \in read_from \union given_up \union RowNodes \union PendingNodes
      /\ \A g \in given_up, n \in RowNodes : ~Below(n, g)
  <2>1. \E k \in 1..Len(plan) : plan[k].op \in {"row", "again"}
    BY PlanFacts DEF Has
  <2> QED BY <2>1 DEF CostsItsOwnBranch
<1>2. PICK a \in Seq(Branches) : Replacement(a) /\ Splice(a)
  BY MoveSplices
<1>3. /\ pending \in Seq(Branches) /\ pending # <<>> /\ Len(pending) \in Nat \ {0}
      /\ branch = pending[1] /\ branch \in Branches
  BY HeadFacts DEF Moved
<1>4. Ahead(branch, plan, given_up, read_from, RowNodes)
  BY <1>3 DEF AllAhead
<1>5. /\ \A j \in 2..Len(pending) : \E k \in 1..Len(pending') : pending'[k] = pending[j]
      /\ \A j \in 1..Len(a) : \E k \in 1..Len(pending') : pending'[k] = a[j]
  BY <1>2, SpliceFacts DEF Spliced
<1>6. ASSUME NEW p \in read_from, NEW i \in 1..Fan
      PROVE  Append(p, i) \in Told
  <2>1. CASE Append(p, i) \in read_from \union given_up \union RowNodes
    BY <2>1, HistoryOfMove
  <2>2. CASE Append(p, i) = branch.node
    <3>1. ToARow(plan, branch.step)
      BY <1>4, <2>2 DEF Ahead
    <3> QED BY <1>4, <2>2, <3>1, MemberIsKept
  <2>3. CASE \E j \in 2..Len(pending) : Append(p, i) = pending[j].node
    BY <1>5, <2>3 DEF PendingNodes
  <2>4. Append(p, i) \in PendingNodes =>
           Append(p, i) = branch.node \/ \E j \in 2..Len(pending) : Append(p, i) = pending[j].node
    <3> SUFFICES ASSUME NEW k \in 1..Len(pending), Append(p, i) = pending[k].node
                 PROVE  \/ Append(p, i) = branch.node
                        \/ \E j \in 2..Len(pending) : Append(p, i) = pending[j].node
      BY DEF PendingNodes
    <3>1. k = 1 \/ k \in 2..Len(pending)
      BY <1>3
    <3> QED BY <1>3, <3>1
  <2> QED BY <1>1, <2>1, <2>2, <2>3, <2>4
<1>7. ASSUME NEW p \in read_from', p \notin read_from, NEW i \in 1..Fan
      PROVE  Append(p, i) \in Told
  <2>1. Walked /\ p = branch.node
    BY <1>7 DEF Moved, Skipped, Went, Jumped, Rowed, Repeated, Walked, Split, Dropped
  <2>2. \E k \in 1..Len(pending') : pending'[k] = Children[i]
    <3>1. /\ Children \in Seq(Branches) /\ Len(Children) = Fan
          /\ Splice(Children)
      BY <1>3, <2>1, ReplacementFacts DEF Walked, Splice, Here
    <3>2. Spliced(pending, Children, pending')
      BY <3>1, SpliceFacts
    <3> QED BY <3>1, <3>2 DEF Spliced
  <2>3. Children[i].node = Append(p, i)
    BY <1>3, <2>1, ReplacementFacts DEF Branch
  <2> QED BY <2>2, <2>3 DEF PendingNodes
<1>8. ASSUME NEW g \in given_up', NEW n \in RowNodes'
      PROVE  ~Below(n, g)
  <2>1. /\ g \in given_up \/ (g = branch.node /\ Skipped /\ ~branch.stray)
    BY <1>8 DEF Moved, Skipped, Went, Jumped, Rowed, Repeated, Walked, Split, Dropped
  <2>2. n \in RowNodes \/ n = branch.node
    BY HistoryOfMove
  <2>3. Skipped => n \in RowNodes
    BY DEF Skipped, RowNodes
  <2>4. CASE g = branch.node /\ ~branch.stray /\ n \in RowNodes
    BY <1>4, <2>4 DEF Ahead
  <2>5. CASE g \in given_up /\ n = branch.node
    BY <1>4, <2>5 DEF Ahead, Incomparable
  <2>6. CASE g \in given_up /\ n \in RowNodes
    BY <1>1, <2>6
  <2> QED BY <2>1, <2>2, <2>3, <2>4, <2>5, <2>6
<1> QED BY <1>6, <1>7, <1>8

\* Each member of a walked list has its row, has been walked or given up itself,
\* or is still to come, and no row comes from below what was given up.
THEOREM OnlyItsOwnBranch == FairSpec => []CostsItsOwnBranch
<1> DEFINE Inv == TypeOK /\ Apart /\ AllAhead /\ CostsItsOwnBranch
<1>1. Init => Inv
  <2> SUFFICES ASSUME Init PROVE Inv
    OBVIOUS
  <2>1. /\ TypeOK /\ rows = {} /\ read_from = {} /\ given_up = {} /\ RowNodes = {}
        /\ Len(pending) = 1 /\ ~pending[1].stray
    BY InitTyped DEF Init, RowNodes, Branch
  <2>2. Apart
    BY <2>1 DEF Apart
  <2>3. AllAhead
    BY <2>1 DEF AllAhead, Ahead
  <2>4. CostsItsOwnBranch
    BY <2>1 DEF CostsItsOwnBranch
  <2> QED BY <2>1, <2>2, <2>3, <2>4
<1>2. Inv /\ [Next]_vars => Inv'
  <2> SUFFICES ASSUME Inv, [Next]_vars PROVE Inv'
    OBVIOUS
  <2>1. TypeOK' /\ UNCHANGED plan
    BY NextTyped, Moves DEF invocation
  <2>2. CASE Kept
    <3>1. UNCHANGED RowNodes /\ UNCHANGED PendingNodes
      BY <2>2 DEF Kept, RowNodes, PendingNodes
    <3>2. Apart'
      BY <2>2 DEF Kept, Apart
    <3>3. AllAhead'
      BY <2>1, <2>2, <3>1 DEF Kept, AllAhead
    <3>4. CostsItsOwnBranch'
      BY <2>1, <2>2, <3>1 DEF Kept, CostsItsOwnBranch
    <3> QED BY <2>1, <3>2, <3>3, <3>4
  <2>3. CASE Moved
    BY <2>1, <2>3, MoveApart, MoveAllAhead, MoveCosts
  <2> QED BY <2>2, <2>3, Moves
<1> QED BY <1>1, <1>2, PTL DEF FairSpec, Spec
=============================================================================
