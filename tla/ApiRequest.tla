----------------------------- MODULE ApiRequest -----------------------------
(***************************************************************************)
(* One POST, PATCH or DELETE of the client (base_request_respond).  The    *)
(* controller carries the request out, opens a task for it, or refuses it; *)
(* the client only sees a status code, perhaps a Location header and       *)
(* perhaps a body, and either returns a verdict to its caller or raises.   *)
(***************************************************************************)
EXTENDS ApiRespond

CONSTANTS
    DoneCodes,        \* codes of a controller that has carried the request out
    RefusalCodes,     \* codes of a controller that has done nothing
    ExpectedCodes,    \* the expected_status arguments of the callers
    IgnoredCodes,     \* the ignore_error_code arguments, 0 when absent
    AsyncModes,       \* the do_async arguments
    TaskHeaders       \* whether a 202 names its task in a Location header

ASSUME ApiRequestAssumption ==
    /\ DoneCodes \subseteq 200..299
    /\ RefusalCodes \subseteq 300..499
    /\ ExpectedCodes \subseteq 200..299
    /\ IgnoredCodes \subseteq {0} \union 300..499
    /\ AsyncModes \subseteq BOOLEAN
    /\ TaskHeaders \subseteq BOOLEAN

VARIABLES
    pc,         \* send | handle | done
    call,       \* the arguments of the request
    effect,     \* what the controller did: nothing | applied | task
    reply,      \* its answer
    outcome     \* what the caller gets

requestVars == <<pc, call, effect, reply, outcome>>

-----------------------------------------------------------------------------
(* The exchange *)

Calls == [expected : ExpectedCodes, ignored : IgnoredCodes, async : AsyncModes]

NoReply == Reply(0, FALSE, "none")

RequestInit ==
    /\ pc = "send"
    /\ call \in Calls
    /\ effect = "nothing"
    /\ reply = NoReply
    /\ outcome = Unanswered

\* The controller acts on the request and answers truthfully.
Carried ==
    /\ effect' = "applied"
    /\ \E c \in DoneCodes, b \in {"json", "none"} : reply' = Reply(c, FALSE, b)

Queued ==
    /\ effect' = "task"
    /\ \E h \in TaskHeaders, b \in {"json", "none"} : reply' = Reply(202, h, b)

Refused ==
    /\ effect' = "nothing"
    /\ \E c \in RefusalCodes, b \in Bodies : reply' = Reply(c, FALSE, b)

\* A server error tells nothing about what has been done.
Broken ==
    /\ effect' \in {"nothing", "applied", "task"}
    /\ \E c \in {500, 503}, b \in Bodies : reply' = Reply(c, FALSE, b)

Send ==
    /\ pc = "send"
    /\ pc' = "handle"
    /\ Carried \/ Queued \/ Refused \/ Broken
    /\ UNCHANGED <<call, outcome>>

\* The connection breaks before or after the controller has acted.
Lose ==
    /\ pc = "send"
    /\ pc' = "done"
    /\ effect' \in {"nothing", "applied", "task"}
    /\ outcome' = Raised("ConnectionError")
    /\ UNCHANGED <<call, reply>>

Handle ==
    /\ pc = "handle"
    /\ pc' = "done"
    /\ outcome' = Respond(call, reply)
    /\ UNCHANGED <<call, effect, reply>>

RequestNext == Send \/ Lose \/ Handle

RequestSpec == RequestInit /\ [][RequestNext]_requestVars

-----------------------------------------------------------------------------
(* Properties *)

\* Every variable keeps its type.
RequestTypeOK ==
    /\ pc \in {"send", "handle", "done"}
    /\ call \in Calls
    /\ effect \in {"nothing", "applied", "task"}
    /\ reply.code \in Nat /\ reply.location \in BOOLEAN /\ reply.body \in Bodies
    /\ outcome.kind \in {"none", "returned", "raised"}
    /\ outcome.verdict \in Verdicts \union {"none"}

\* A caller is told of success only when the controller has acted, and of a
\* task only when there is one (read_api_respond's verdicts).
SuccessIsTrue ==
    /\ outcome.verdict \in {"Ok", "Success", "Created"} => effect = "applied"
    /\ outcome.verdict = "AcceptedTaskGenerated" => effect = "task"

\* A request the controller has carried out or queued, and said so, is never
\* given to the caller as one it refused, which would invite it to repeat a
\* request that is not idempotent: it is returned as done, or, for the answers
\* that cannot be put into words (201, 206, 202 without a Location, any answer
\* to an async request), raises an exception that no refusal raises
\* (read_api_respond, base_request_respond).
DoneIsReported ==
    pc = "done" /\ reply.code \in 200..299 =>
        /\ NotDenied(outcome)
        /\ Sayable(call, reply) => outcome.kind = "returned"
=============================================================================
