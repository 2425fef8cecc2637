--------------------------- MODULE CrawlContract ---------------------------
(***************************************************************************)
(* What the discovery command may do to a controller, and what the map it  *)
(* writes is worth: a resource is asked for once in the life of the        *)
(* process, and only when a document already saved, or the service root,   *)
(* refers to it; the map is written when nothing such documents refer to   *)
(* is left, except what was given up for being too far away.               *)
(***************************************************************************)
EXTENDS Naturals

CONSTANTS
    Paths,       \* resources of the controller
    Root,        \* the service root
    Walkable     \* the resources the walk is meant for

VARIABLES
    refers,      \* what the document of each resource refers to
    gets,        \* how often the walk has asked for each resource
    saved,       \* resources whose document is on disk
    far,         \* resources given up at the depth bound
    written      \* the map written last

contractVars == <<refers, gets, saved, far, written>>

Known == (UNION {refers[p] : p \in saved \union {Root}}) \intersect Walkable

Init ==
    /\ refers \in [Paths -> SUBSET Paths]
    /\ gets = [p \in Paths |-> 0]
    /\ saved = {}
    /\ far = {}
    /\ written = {}

Get(p) ==
    /\ p \in Known
    /\ gets[p] = 0
    /\ gets' = [gets EXCEPT ![p] = 1]
    /\ saved' = saved \/ saved' = saved \union {p}
    /\ UNCHANGED <<refers, far, written>>

GiveUp(p) ==
    /\ p \in Paths
    /\ far' = far \union {p}
    /\ UNCHANGED <<refers, gets, saved, written>>

Write ==
    /\ \A p \in Known : gets[p] = 1 \/ p \in far
    /\ written' = saved
    /\ UNCHANGED <<refers, gets, saved, far>>

Next == Write \/ \E p \in Paths : Get(p) \/ GiveUp(p)

Spec == Init /\ [][Next]_contractVars
=============================================================================
