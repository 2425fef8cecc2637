---------------------------- MODULE InvokeAction ----------------------------
(***************************************************************************)
(* The guarded Redfish action (invoke_action).  The client reads a         *)
(* resource, finds the asked action in its Actions block, classifies what  *)
(* it has found, and POSTs it only when the flags of the invocation allow  *)
(* that level.  An operator invokes actions one after another while the    *)
(* controller may change the block at any time.  The POST itself is a      *)
(* request of module ApiRequest.                                           *)
(***************************************************************************)
EXTENDS ApiRequest, Sequences

CONSTANTS
    Types,          \* full "#Type.Action" names
    Names,          \* short action names
    ShortName,      \* the short name of each type that has one
    ActionPolicy,   \* the level of each classified type
    Targets,        \* URLs an action is POSTed to
    NoTarget,       \* the target of an entry that has none
    Performs,       \* what the controller does on a POST to a target
    Blocks          \* Actions blocks the resource may have

Levels == {"read_only", "reversible", "destructive", "irreversible"}

Entries == [type : Types, target : Targets \union {NoTarget}]

Truthful(b) ==
    \A i \in DOMAIN b :
        b[i].target # NoTarget => Performs[b[i].target] = b[i].type

\* A block names, next to each action, the URL that performs that action.
ASSUME InvokeActionAssumption ==
    /\ NoTarget \notin Targets
    /\ "none" \notin Types
    /\ DOMAIN ShortName \subseteq Types
    /\ ActionPolicy \in [DOMAIN ActionPolicy -> Levels]
    /\ Performs \in [Targets -> Types]
    /\ Blocks \subseteq Seq(Entries)
    /\ \A b \in Blocks : Truthful(b)
    /\ 202 \in ExpectedCodes /\ 0 \in IgnoredCodes

VARIABLES
    block,      \* the resource's Actions block, in the controller
    stage,      \* idle | read | resolve | post | done
    request,    \* the arguments of the invocation
    actions,    \* the Actions block the client has read
    chosen,     \* the entry the invocation resolved to
    performed,  \* the types the controller performed for this invocation
    result      \* what the caller gets

invocation == <<stage, request, actions, chosen, result>>
vars == <<block, invocation, performed, requestVars>>

-----------------------------------------------------------------------------
(* Resolution *)

\* The entries named type; full is the empty argument when it names none.
Exact(b, full) ==
    {i \in DOMAIN b : b[i].type = full /\ b[i].target # NoTarget}

SameShortName(b, name) ==
    {i \in DOMAIN b :
        b[i].type \in DOMAIN ShortName /\ ShortName[b[i].type] = name}

\* A map keeps the last of the entries that share its key.
Kept(S) == {i \in S : \A j \in S : j <= i}

\* The short-name map keeps an entry that has no target over one that has.
Fallback(b, name) == {i \in Kept(SameShortName(b, name)) : b[i].target # NoTarget}

\* Mutant: only the short-name map is consulted.
ResolvedByName(b, r) == Fallback(b, r.name)

Resolved(b, r) ==
    IF Exact(b, r.full) # {} THEN Kept(Exact(b, r.full)) ELSE Fallback(b, r.name)

-----------------------------------------------------------------------------
(* The gate *)

\* Mutant: an action nobody has classified runs freely.
ClassifyLoosely(t) ==
    IF t \in DOMAIN ActionPolicy THEN ActionPolicy[t] ELSE "reversible"

Classify(t) == IF t \in DOMAIN ActionPolicy THEN ActionPolicy[t] ELSE "destructive"

Allowed(r, level) ==
    /\ level = "irreversible" => r.confirm /\ r.irreversible
    /\ level = "destructive" => r.confirm
    /\ ~r.dry_run

-----------------------------------------------------------------------------
(* One invocation *)

Requests ==
    [name : Names, full : Types \union {"none"}, async : AsyncModes,
     dry_run : BOOLEAN, confirm : BOOLEAN, irreversible : BOOLEAN]

NoEntry == [type |-> "none", target |-> NoTarget]

\* The arguments of the POST.
PostCall(r) == [expected |-> 202, ignored |-> 0, async |-> r.async]

Init ==
    /\ block \in Blocks
    /\ stage = "idle"
    /\ request \in Requests
    /\ actions = <<>>
    /\ chosen = NoEntry
    /\ performed = {}
    /\ result = "none"
    /\ RequestInit
    /\ call = PostCall(request)

\* The POST is still to be sent, if the invocation gets that far.
NewPost ==
    /\ pc' = "send"
    /\ call' = PostCall(request')
    /\ effect' = "nothing"
    /\ reply' = NoReply
    /\ outcome' = Unanswered

Invoke ==
    /\ stage \in {"idle", "done"}
    /\ stage' = "read"
    /\ request' \in Requests
    /\ actions' = <<>> /\ chosen' = NoEntry
    /\ performed' = {} /\ result' = "none"
    /\ NewPost
    /\ UNCHANGED block

Read ==
    /\ stage = "read"
    /\ \/ stage' = "resolve" /\ actions' = block /\ UNCHANGED result
       \/ stage' = "done" /\ result' = "unreadable" /\ UNCHANGED actions
    /\ UNCHANGED <<block, request, chosen, performed, requestVars>>

NotFound ==
    /\ stage = "resolve"
    /\ Resolved(actions, request) = {}
    /\ stage' = "done"
    /\ result' = "not_found"
    /\ UNCHANGED <<block, request, actions, chosen, performed, requestVars>>

\* A dry run is told what would be POSTed; nothing is.
Resolve ==
    /\ stage = "resolve"
    /\ \E i \in Resolved(actions, request) :
        /\ chosen' = actions[i]
        /\ IF Allowed(request, Classify(actions[i].type))
           THEN stage' = "post" /\ UNCHANGED result
           ELSE stage' = "done" /\ result' = "preview"
    /\ UNCHANGED <<block, request, actions, performed, requestVars>>

Offered == \E i \in DOMAIN block : block[i].target = chosen.target

\* The controller performs what the target stands for, now or in a task; a
\* target that has left the block is not found.
Post ==
    /\ stage = "post"
    /\ \/ Send /\ UNCHANGED <<stage, result>>
       \/ Lose /\ stage' = "done" /\ result' = "raised"
    /\ effect' # "nothing" => Offered
    /\ performed' = IF effect' = "nothing" THEN {} ELSE {Performs[chosen.target]}
    /\ UNCHANGED <<block, request, actions, chosen>>

\* Mutant: only 204 is a success of the POST.
HandlePostStrictly ==
    /\ stage = "post"
    /\ Handle
    /\ stage' = "done"
    /\ result' = IF reply.code = 204 THEN "executed" ELSE "raised"
    /\ UNCHANGED <<block, request, actions, chosen, performed>>

\* Whatever base_post returns is marked executed.
HandlePost ==
    /\ stage = "post"
    /\ Handle
    /\ stage' = "done"
    /\ result' = IF outcome'.kind = "returned" THEN "executed" ELSE "raised"
    /\ UNCHANGED <<block, request, actions, chosen, performed>>

\* A firmware change, a hot plug or another client changes the resource.
ChangeBlock ==
    /\ block' \in Blocks
    /\ UNCHANGED <<invocation, performed, requestVars>>

Next ==
    \/ Invoke \/ Read \/ NotFound \/ Resolve
    \/ Post \/ HandlePost
    \/ ChangeBlock

Spec == Init /\ [][Next]_vars

-----------------------------------------------------------------------------
(* Properties *)

\* Every variable keeps its type.
TypeOK ==
    /\ block \in Blocks /\ actions \in Blocks \union {<<>>}
    /\ stage \in {"idle", "read", "resolve", "post", "done"}
    /\ request \in Requests
    /\ chosen \in Entries \union {NoEntry}
    /\ performed \subseteq Types
    /\ result \in {"none", "unreadable", "not_found", "preview", "executed", "raised"}
    /\ RequestTypeOK

\* Whatever the resource offers, whichever action the request has fallen back
\* to and whatever changes in between, the controller performs only an action
\* that the tokens of this invocation allow at that action's own level: none
\* on a dry run, a destructive or unclassified one only with --confirm, an
\* irreversible one only with both tokens (the gate of invoke_action).
Authorised ==
    \A t \in performed :
        /\ ~request.dry_run
        /\ \/ request.confirm
           \/ t \in DOMAIN ActionPolicy /\ ActionPolicy[t] \in {"read_only", "reversible"}
        /\ \/ request.irreversible
           \/ t \notin DOMAIN ActionPolicy
           \/ ActionPolicy[t] # "irreversible"

\* An action that shares its short name with the one asked for is never
\* performed while the resource the client has read offers the one asked for
\* (the exact match ahead of the short-name map).
NamedIsPreferred ==
    Exact(actions, request.full) # {} => performed \subseteq {request.full}

\* An action the controller has performed, or opened a task for, and confirmed is
\* never given to the caller as a preview, as not found or as refused; it is
\* reported as executed whenever the confirmation can be put into words.
PerformedIsReported ==
    stage = "done" /\ reply.code \in 200..299 =>
        /\ result \in {"executed", "raised"}
        /\ NotDenied(outcome)
        /\ Sayable(call, reply) => result = "executed"
=============================================================================
