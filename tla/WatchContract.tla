---------------------------- MODULE WatchContract ----------------------------
(***************************************************************************)
(* What a caller of IDracManager.fetch_task may rely on: the watch gives   *)
(* one answer, and that answer is a state the job really has been in (as a *)
(* JobState or as a TaskState), or Unknown, or an exception.  The watch    *)
(* never changes the job.                                                  *)
(***************************************************************************)
EXTENDS BmcJob

CONSTANTS
    JobStateMapping,    \* JobState string -> the enum member fetch_task returns
    TaskStateMapping    \* TaskState string -> the enum member fetch_task returns

VARIABLE outcome        \* what the watch gave its caller

contractVars == <<server, job, passed, outcome>>

Pending == [kind |-> "pending", value |-> "none"]
Returned(type, v) == [kind |-> type, value |-> v]
Raised(e) == [kind |-> "raise", value |-> e]

\* The exceptions that leave fetch_task.
Exceptions ==
    {"ConnectionError", "AuthenticationFailed", "RedfishForbidden",
     "ResourceNotFound", "UnexpectedResponse", "JSONDecodeError", "KeyError",
     "ValueError"}

\* What the controller has said of the job so far, in the client's vocabulary.
Truthful(seen) ==
    {Returned("JobState", JobStateMapping[s]) : s \in seen \intersect DOMAIN JobStateMapping}
    \union
    {Returned("TaskState", TaskStateMapping[TaskView[s]]) :
        s \in {p \in seen : TaskView[p] \in DOMAIN TaskStateMapping}}

Answers(seen) ==
    Truthful(seen)
    \union {Returned("TaskState", "Unknown")}
    \union {Raised(e) : e \in Exceptions}

ContractInit == BmcInit /\ outcome = Pending

\* The watch answers, once.
Answer ==
    /\ outcome = Pending
    /\ outcome' \in Answers(passed)
    /\ UNCHANGED bmcVars

ContractNext ==
    \/ BmcStep /\ UNCHANGED outcome
    \/ Answer

ContractSpec == ContractInit /\ [][ContractNext]_contractVars
=============================================================================
