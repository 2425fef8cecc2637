----------------------------- MODULE Discovery -----------------------------
(***************************************************************************)
(* The discovery command: a depth-first walk over the resources of one     *)
(* controller.  Every spelling of a path is brought to one form, a path is *)
(* marked once it has been fetched or has failed, and the walk goes no     *)
(* deeper than a bound.  The command object is a singleton: what it has    *)
(* visited outlives the invocation.                                        *)
(***************************************************************************)
EXTENDS Naturals, Sequences

CONSTANTS
    Paths,          \* resource paths in canonical form
    Root,           \* /redfish/v1
    Composition,    \* /redfish/v1/CompositionService
    Foreign,        \* paths that do not start with /redfish/v1
    Filtered,       \* paths with a part that default_query_filter names
    Forms,          \* spellings: plain, trailing slash, query, double slash
    Plain,          \* the spelling normalize_resource_path yields
    Trees,          \* the resource trees: a sequence of references per path
    MaxDepth,       \* DEFAULT_DISCOVERY_MAX_DEPTH
    MaxRuns         \* bound of the model: invocations in one process

Spelling == [path : Paths, form : Forms]

ASSUME DiscoveryAssumption ==
    /\ {Root, Composition} \subseteq Paths /\ Plain \in Forms
    /\ Trees \subseteq [Paths -> Seq(Spelling)]
    /\ MaxDepth \in Nat /\ MaxRuns \in Nat

VARIABLES
    tree,           \* the references of each resource: the controller's
    pc,             \* idle | walk
    pending,        \* calls of recursive_discovery still to be made, next first
    visited_urls, file_mapping,    \* attributes of the command
    outcome,        \* how the last invocation ended
    runs,           \* invocations so far
    gets,           \* history: GETs of the walk, per resource
    cut,            \* history: paths dropped at the depth bound
    written         \* the map in rest_api_map.npy

vars == <<tree, pc, pending, visited_urls, file_mapping, outcome, runs, gets, cut, written>>
walked == <<tree, outcome, runs, written>>

-----------------------------------------------------------------------------
(* normalize_resource_path and the tests of recursive_discovery *)

\* Mutant: a query string or a slash is left on the path.
NormalizeNot(s) == s

Normalize(s) == [s EXCEPT !.form = Plain]

Key(p) == [path |-> p, form |-> Plain]

Call(s, depth) == [spelling |-> s, depth |-> depth]

\* Mutant: the depth is counted by the caller and by the callee.
ReferencesTwice(p, depth) ==
    [k \in 1..Len(tree[p]) |-> Call(tree[p][k], IF depth > 0 THEN depth + 1 ELSE 0)]

\* The calls made for the references of a document.
References(p, depth) == [k \in 1..Len(tree[p]) |-> Call(tree[p][k], depth)]

call == Head(pending)
resource_path == Normalize(call.spelling)
path == resource_path.path

TooDeep == call.depth > MaxDepth
Skipped == path \in Filtered
Ignored == resource_path \in visited_urls \/ path \in Foreign

Init ==
    /\ tree \in Trees
    /\ pc = "idle"
    /\ pending = <<>>
    /\ visited_urls = {}
    /\ file_mapping = {}
    /\ outcome = "none"
    /\ runs = 0
    /\ gets = [p \in Paths |-> 0]
    /\ cut = {}
    /\ written = {}

-----------------------------------------------------------------------------
(* execute *)

\* The directory is made and the service root read: the walk starts from its
\* references, with the root and the composition service marked.
Execute ==
    /\ pc = "idle" /\ runs < MaxRuns
    /\ pc' = "walk"
    /\ runs' = runs + 1
    /\ outcome' = "none"
    /\ visited_urls' = visited_urls \union {Key(Root), Key(Composition)}
    /\ pending' = References(Root, 0)
    /\ UNCHANGED <<tree, file_mapping, gets, cut, written>>

\* No directory, or the service root cannot be read.
ExecuteFails ==
    /\ pc = "idle" /\ runs < MaxRuns
    /\ runs' = runs + 1
    /\ outcome' = "raised"
    /\ UNCHANGED <<tree, pc, pending, visited_urls, file_mapping, gets, cut, written>>

\* numpy is imported and the map written only now; either may fail.
Save ==
    /\ pc = "walk" /\ pending = <<>>
    /\ pc' = "idle"
    /\ \/ outcome' = "ok" /\ written' = file_mapping
       \/ outcome' = "raised" /\ UNCHANGED written
    /\ UNCHANGED <<tree, pending, visited_urls, file_mapping, runs, gets, cut>>

-----------------------------------------------------------------------------
(* recursive_discovery *)

Return(calls) == pc = "walk" /\ pending # <<>> /\ pending' = calls /\ UNCHANGED pc

\* if depth > max_depth: return, before the path is looked at.
DropDeep ==
    /\ Return(Tail(pending))
    /\ TooDeep
    /\ cut' = cut \union {path}
    /\ UNCHANGED <<walked, visited_urls, file_mapping, gets>>

DropFiltered ==
    /\ Return(Tail(pending))
    /\ ~TooDeep /\ Skipped
    /\ visited_urls' = visited_urls \union {resource_path}
    /\ UNCHANGED <<walked, file_mapping, gets, cut>>

DropIgnored ==
    /\ Return(Tail(pending))
    /\ ~TooDeep /\ ~Skipped /\ Ignored
    /\ UNCHANGED <<walked, visited_urls, file_mapping, gets, cut>>

Get ==
    /\ ~TooDeep /\ ~Skipped /\ ~Ignored
    /\ gets' = [gets EXCEPT ![path] = @ + 1]
    /\ UNCHANGED <<walked, cut>>

\* The document is fetched and its file written; its references come next.
Visit ==
    /\ Return(References(path, call.depth + 1) \o Tail(pending))
    /\ Get
    /\ visited_urls' = visited_urls \union {resource_path}
    /\ file_mapping' = file_mapping \union {path}

\* Mutant: a failed resource is not marked.
VisitFailsUnmarked ==
    /\ Return(Tail(pending))
    /\ Get
    /\ UNCHANGED <<visited_urls, file_mapping>>

\* Mutant: the exception of a child unwinds to the caller of the walk.
VisitFailsUnwinds ==
    /\ Return(<<>>)
    /\ Get
    /\ visited_urls' = visited_urls \union {resource_path}
    /\ UNCHANGED file_mapping

\* The GET is refused, the answer is no JSON, or the file cannot be written:
\* the path is marked as visited, and what it refers to is not followed.
VisitFails ==
    /\ Return(Tail(pending))
    /\ Get
    /\ visited_urls' = visited_urls \union {resource_path}
    /\ UNCHANGED file_mapping

Walk == DropDeep \/ DropFiltered \/ DropIgnored \/ Visit \/ VisitFails

Next == Execute \/ ExecuteFails \/ Save \/ Walk

Spec == Init /\ [][Next]_vars

-----------------------------------------------------------------------------
(* Properties *)

Calls == [spelling : Spelling, depth : Nat]

\* Every variable keeps the type its code gives it; a call is at most one
\* level below the bound.
TypeOK ==
    /\ tree \in Trees
    /\ pc \in {"idle", "walk"}
    /\ pending \in Seq(Calls)
    /\ \A k \in 1..Len(pending) : pending[k].depth <= MaxDepth + 1
    /\ visited_urls \subseteq {Key(p) : p \in Paths}
    /\ file_mapping \subseteq Paths /\ cut \subseteq Paths /\ written \subseteq Paths
    /\ outcome \in {"none", "ok", "raised"}
    /\ runs \in 0..MaxRuns
    /\ gets \in [Paths -> Nat]

Walkable == Paths \ (Foreign \union Filtered \union {Root, Composition})

Targets(p) == {tree[p][k].path : k \in 1..Len(tree[p])}

Crawl == INSTANCE CrawlContract WITH
    refers <- [p \in Paths |-> Targets(p)],
    saved <- file_mapping,
    far <- cut

\* recursive_discovery's docstring: each logical resource is fetched once,
\* whatever its spellings, cycles, failures and repeated invocations.
Contract == Crawl!Spec

\* At any point each reference of a saved document is dealt with, given up at
\* the bound, or still among the calls to be made: failures and returns in
\* the middle of the recursion lose nothing.
NothingForgotten ==
    \A p \in file_mapping \union (IF pc = "walk" THEN {Root} ELSE {}) :
       \A q \in Targets(p) \ Foreign :
          \/ Key(q) \in visited_urls
          \/ q \in cut
          \/ \E k \in 1..Len(pending) : pending[k].spelling.path = q

\* The chains of references that begin below the root and repeat nothing.
Chains(n) ==
    {c \in [1..n -> Paths \ {Root}] :
        /\ c[1] \in Targets(Root)
        /\ \A i \in 1..(n - 1) : c[i + 1] \in Targets(c[i])
        /\ \A i, j \in 1..(n - 1) : c[i] = c[j] => i = j}

\* Only a resource that some chain reaches below the bound is given up.
OnlyFarIsCut ==
    \A q \in cut \ {Root} : \E c \in Chains(MaxDepth + 2) : c[MaxDepth + 2] = q
=============================================================================
