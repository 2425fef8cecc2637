------------------------------ MODULE FetchTask ------------------------------
(***************************************************************************)
(* IDracManager.fetch_task: the loop that watches one job of the           *)
(* controller until it has an answer for its caller.  The job moves on     *)
(* its own between any two steps of the client (module BmcJob), a reply is *)
(* a snapshot that may be stale when the client handles it, and the server *)
(* may fail, lose the job or ask for a longer pause at any poll.           *)
(***************************************************************************)
EXTENDS BmcJob

CONSTANTS
    DefaultSleep,     \* fetch_task's sleep_time argument
    WaitFor,          \* fetch_task's wait_for argument, 0 when absent
    WaitForState,     \* fetch_task's wait_for_state argument
    RetryAfters       \* the Retry-After values the server uses, in seconds

ASSUME FetchTaskAssumption ==
    /\ DefaultSleep \in Nat
    /\ RetryAfters \subseteq Nat
    /\ WaitFor \in Nat

VARIABLES
    pc,            \* get_job | poll | handle | sleep | done
    task_state,    \* the local variable of fetch_task
    retry_after,   \* the local variable of fetch_task
    sleep_time,    \* the argument, raised by Retry-After
    resp,          \* the reply being handled
    outcome,       \* what fetch_task gave its caller
    asked,         \* history: the pauses the server has asked for
    alarmed        \* history: a task with a TaskStatus other than Ok was handled

clientVars == <<pc, task_state, retry_after, sleep_time, resp, outcome, asked, alarmed>>
vars == <<server, job, passed, pc, task_state, retry_after, sleep_time, resp, outcome, asked,
          alarmed>>

JobStateMapping == [s \in JobStates \ {"New", "Paused"} |-> s]

TaskStateMapping ==
    [s \in {"New", "Running", "Starting", "Suspended", "Interrupted", "Pending",
            "Stopping", "Completed", "Killed", "Exception", "Service",
            "Canceling", "Cancelled"} |->
        IF s = "Running" THEN "Starting" ELSE s]

TaskStates == {TaskStateMapping[s] : s \in DOMAIN TaskStateMapping} \union {"Unknown"}

Contract == INSTANCE WatchContract

-----------------------------------------------------------------------------
(* Replies of the task service *)

NoHeader == -1
HttpDate == -2      \* the header's other form, a date

\* body: "task" carries TaskState and TaskStatus, "other" is JSON without them,
\* "none" is no JSON at all.
Reply(code, body, retry, status) ==
    [code |-> code, body |-> body, retry |-> retry,
     state |-> TaskView[job], status |-> status]

NoReply == [code |-> 0, body |-> "none", retry |-> NoHeader,
            state |-> "Killed", status |-> "Ok"]

Retries == RetryAfters \union {NoHeader, HttpDate}

DescribingCodes ==
    IF job \in Settled THEN {200} ELSE IF server.monitor THEN {202} ELSE {200, 202}

\* What the server may answer now: the task, its absence, or a fault.
Replies ==
    (IF job = "Deleted"
     THEN {Reply(c, b, r, "Ok") : c \in {404, 410}, b \in {"other", "none"}, r \in Retries}
     ELSE {Reply(c, "task", r, t) :
              c \in DescribingCodes, r \in Retries, t \in TaskStatusView[job]})
    \union
    {Reply(c, b, r, "Ok") : c \in server.faults, b \in {"other", "none"}, r \in Retries}

\* get_task_state either yields a state and a status or raises.
ParseError(r) ==
    IF r.body = "other" THEN "UnexpectedResponse"
    ELSE IF r.body = "task" /\ r.state \notin DOMAIN TaskStateMapping THEN "KeyError"
    ELSE "none"

Parsed(r) ==
    IF r.body = "none" THEN [state |-> "Unknown", status |-> "Warning"]
    ELSE [state |-> TaskStateMapping[r.state], status |-> r.status]

-----------------------------------------------------------------------------
(* Leaving the function *)

Return(state) ==
    /\ pc' = "done"
    /\ outcome' = Contract!Returned("TaskState", state)

Raise(e) ==
    /\ pc' = "done"
    /\ outcome' = Contract!Raised(e)

\* return self.get_task_state(resp)[0], which may raise instead.
ReturnParsed ==
    \/ /\ ParseError(resp) # "none"
       /\ Raise(ParseError(resp))
       /\ UNCHANGED task_state
    \/ /\ ParseError(resp) = "none"
       /\ task_state' = Parsed(resp).state
       /\ Return(Parsed(resp).state)

\* Mutant: the last Retry-After replaces the pause, longer or not.
GoToSleepAsTold ==
    /\ pc' = "sleep"
    /\ sleep_time' = IF retry_after' > 0 THEN retry_after' ELSE sleep_time
    /\ UNCHANGED outcome

\* time.sleep(sleep_time), after raising sleep_time to what the server asked.
GoToSleep ==
    /\ pc' = "sleep"
    /\ sleep_time' = IF retry_after' > sleep_time THEN retry_after' ELSE sleep_time
    /\ UNCHANGED outcome

-----------------------------------------------------------------------------
(* The function, from its first request to its answer *)

Init ==
    /\ BmcInit
    /\ pc = "get_job"
    /\ task_state = "Unknown"
    /\ retry_after = 0
    /\ sleep_time = DefaultSleep
    /\ resp = NoReply
    /\ outcome = Contract!Pending
    /\ asked = {}
    /\ alarmed = FALSE

\* get_job: the job may be done already, may be unknown, or cannot be read.
GetJob ==
    /\ pc = "get_job"
    /\ \/ /\ job \in {"Scheduled", "Scheduling", "Running"}
          /\ pc' = "poll"
          /\ UNCHANGED outcome
       \/ /\ job \in DOMAIN JobStateMapping \ {"Scheduled", "Scheduling", "Running"}
          /\ pc' = "done"
          /\ outcome' = Contract!Returned("JobState", JobStateMapping[job])
       \/ /\ job \in {"New", "Paused"}
          /\ Raise("UnexpectedResponse")
       \/ /\ job = "Deleted"
          /\ Raise("ResourceNotFound")
    /\ UNCHANGED <<bmcVars, task_state, retry_after, sleep_time, resp, asked, alarmed>>

\* The reply to get_job carries no JobState: the watch starts all the same.
GetJobWithoutState ==
    /\ pc = "get_job"
    /\ pc' = "poll"
    /\ UNCHANGED <<bmcVars, task_state, retry_after, sleep_time, resp, outcome, asked, alarmed>>

\* The request of get_job fails: default_error_handler, or the transport.
GetJobFails ==
    /\ pc = "get_job"
    /\ \E e \in {"ConnectionError", "AuthenticationFailed", "RedfishForbidden",
                 "ResourceNotFound", "UnexpectedResponse"} : Raise(e)
    /\ UNCHANGED <<bmcVars, task_state, retry_after, sleep_time, resp, asked, alarmed>>

\* One GET on /redfish/v1/TaskService/Tasks/{task_id}.
Poll ==
    /\ pc = "poll"
    /\ resp' \in Replies
    /\ pc' = "handle"
    /\ UNCHANGED <<bmcVars, task_state, retry_after, sleep_time, outcome, asked, alarmed>>

PollFails ==
    /\ pc = "poll"
    /\ Raise("ConnectionError")
    /\ UNCHANGED <<bmcVars, task_state, retry_after, sleep_time, resp, asked, alarmed>>

\* Every branch of the loop body starts by reading the Retry-After header.
Handle ==
    /\ pc = "handle"
    /\ resp.retry # HttpDate
    /\ retry_after' = IF resp.retry = NoHeader THEN retry_after ELSE resp.retry
    /\ asked' = asked \union ({resp.retry} \ {NoHeader})
    /\ alarmed' = (alarmed \/ (resp.body = "task" /\ resp.status # "Ok"))
    /\ resp' = NoReply
    /\ UNCHANGED bmcVars

\* int(resp.headers["Retry-After"]) of a date, whatever else the reply says.
OnHttpDate ==
    /\ pc = "handle"
    /\ resp.retry = HttpDate
    /\ Raise("ValueError")
    /\ resp' = NoReply
    /\ UNCHANGED <<bmcVars, task_state, retry_after, sleep_time, asked, alarmed>>

\* More than 499: give the last state up.
OnServerError ==
    /\ Handle
    /\ resp.code > 499
    /\ Return(task_state)
    /\ UNCHANGED <<task_state, sleep_time>>

\* Mutant: a task that is gone is reported as cancelled.
OnGoneCancelled ==
    /\ Handle
    /\ resp.code \in {404, 410}
    /\ Return("Cancelled")
    /\ UNCHANGED <<task_state, sleep_time>>

\* 404 or 410: the task was cancelled or has expired.
OnGone ==
    /\ Handle
    /\ resp.code \in {404, 410}
    /\ Return(task_state)
    /\ UNCHANGED <<task_state, sleep_time>>

Elsewhere == resp.code <= 499 /\ resp.code \notin {404, 410}
Waited == WaitFor > 0 /\ resp.code = WaitFor

\* The status code the caller passed as wait_for.
OnWaitedCode ==
    /\ Handle
    /\ Elsewhere /\ Waited
    /\ ReturnParsed
    /\ UNCHANGED sleep_time

\* Mutant: 202 is answered like 200.
OnAcceptedReturns ==
    /\ Handle
    /\ Elsewhere /\ ~Waited /\ resp.code = 202
    /\ ReturnParsed
    /\ UNCHANGED sleep_time

\* 202: still in progress.  resp.json() precedes get_task_state, so a reply
\* without JSON raises here and only here.
OnAccepted ==
    /\ Handle
    /\ Elsewhere /\ ~Waited /\ resp.code = 202
    /\ \/ /\ resp.body = "none"
          /\ Raise("JSONDecodeError")
          /\ UNCHANGED <<task_state, sleep_time>>
       \/ /\ resp.body # "none" /\ ParseError(resp) # "none"
          /\ Raise(ParseError(resp))
          /\ UNCHANGED <<task_state, sleep_time>>
       \/ /\ resp.body # "none" /\ ParseError(resp) = "none"
          /\ task_state' = Parsed(resp).state
          /\ \/ /\ Parsed(resp).status \in {"Critical", "Warning"}
                /\ Return(Parsed(resp).state)
                /\ UNCHANGED sleep_time
             \/ /\ Parsed(resp).status \notin {"Critical", "Warning"}
                /\ GoToSleep

OnOk ==
    /\ Handle
    /\ Elsewhere /\ ~Waited /\ resp.code = 200
    /\ ReturnParsed
    /\ UNCHANGED sleep_time

Unforeseen == Elsewhere /\ ~Waited /\ resp.code \notin {200, 202}

\* Any other code while the last state is the awaited one.  Both are Unknown
\* at first, so the first unforeseen code ends a default watch.
OnWaitedState ==
    /\ Handle
    /\ Unforeseen /\ task_state = WaitForState
    /\ ReturnParsed
    /\ UNCHANGED sleep_time

\* Mutant: the awaited state does not end the loop.
OnUnforeseenAlways ==
    /\ Handle
    /\ Unforeseen
    /\ \/ /\ ParseError(resp) # "none"
          /\ Raise(ParseError(resp))
          /\ UNCHANGED <<task_state, sleep_time>>
       \/ /\ ParseError(resp) = "none"
          /\ task_state' = Parsed(resp).state
          /\ GoToSleep

\* Any other code, 401 among them: AuthenticationFailed is built, not raised.
OnUnforeseen ==
    /\ Handle
    /\ Unforeseen /\ task_state # WaitForState
    /\ \/ /\ ParseError(resp) # "none"
          /\ Raise(ParseError(resp))
          /\ UNCHANGED <<task_state, sleep_time>>
       \/ /\ ParseError(resp) = "none"
          /\ task_state' = Parsed(resp).state
          /\ GoToSleep

WakeUp ==
    /\ pc = "sleep"
    /\ pc' = "poll"
    /\ UNCHANGED <<bmcVars, task_state, retry_after, sleep_time, resp, outcome, asked, alarmed>>

Advance == BmcStep /\ UNCHANGED clientVars

Client ==
    \/ GetJob \/ GetJobWithoutState \/ GetJobFails
    \/ Poll \/ PollFails
    \/ OnHttpDate \/ OnServerError \/ OnGone \/ OnWaitedCode \/ OnAccepted \/ OnOk
    \/ OnWaitedState \/ OnUnforeseen
    \/ WakeUp

Next == Client \/ Advance

Spec == Init /\ [][Next]_vars

\* The client is one thread of one process: it runs unless it waits.  Nothing
\* is assumed of the controller.
FairSpec == Spec /\ WF_vars(Client)
-----------------------------------------------------------------------------
(* Properties *)

ReplyRecords ==
    [code : Nat, body : {"task", "other", "none"}, retry : Retries,
     state : {TaskView[s] : s \in DOMAIN TaskView},
     status : {"Ok", "Warning", "Critical"}]

Outcomes ==
    {Contract!Pending}
    \union [kind : {"TaskState"}, value : TaskStates]
    \union [kind : {"JobState"}, value : JobStates]
    \union [kind : {"raise"}, value : Contract!Exceptions]

\* Every variable keeps the type its code gives it.
TypeOK ==
    /\ BmcTypeOK
    /\ pc \in {"get_job", "poll", "handle", "sleep", "done"}
    /\ task_state \in TaskStates
    /\ retry_after \in RetryAfters \union {0}
    /\ asked \subseteq RetryAfters
    /\ alarmed \in BOOLEAN
    /\ sleep_time \in Nat
    /\ resp \in ReplyRecords
    /\ outcome \in Outcomes

\* The client never comes back earlier than any reply of this watch has asked
\* it to, although Retry-After may shrink, vanish and reappear between polls
\* and is also read from replies that the loop then ignores.
NeverPollsEarly ==
    pc = "sleep" =>
        /\ sleep_time >= DefaultSleep
        /\ \A a \in asked : sleep_time >= a

\* The pause, as long as the loop goes on: what NeverPollsEarly needs of the
\* states in which the client does not sleep.
PauseInv ==
    pc # "done" =>
        /\ sleep_time >= DefaultSleep
        /\ \A a \in asked : sleep_time >= a

\* A task state the client holds is Unknown or one the job has shown.
Shown(state) ==
    \/ state = "Unknown"
    \/ \E p \in passed : /\ TaskView[p] \in DOMAIN TaskStateMapping
                         /\ state = TaskStateMapping[TaskView[p]]

\* The inductive invariant behind the refinement: the reply being handled and
\* the remembered state are states the job has been in by now, although the
\* job has moved on since, and the answer is given when the loop is left.
IInv ==
    /\ TypeOK
    /\ PauseInv
    /\ pc = "handle" /\ resp.body = "task" => \E p \in passed : resp.state = TaskView[p]
    /\ Shown(task_state)
    /\ outcome = Contract!Pending <=> pc # "done"

\* A task service that keeps to the monitor protocol (202 until settled) and
\* does not fail.
HonestServer == server = [faults |-> {}, monitor |-> TRUE] /\ WaitFor \notin {200, 202}

\* With an honest task service, an answer with a TaskState while the controller
\* is still working on the job means that the controller has complained of the
\* task (TaskStatus Warning or Critical); no other branch leaves the loop early.
AnswersWhenSettled ==
    HonestServer /\ outcome.kind = "TaskState" => job \in Settled \/ alarmed

\* Whatever the server does, "Completed" is only reported of a job that has
\* finished, though the watch may have seen it much earlier and be answering
\* from a remembered state.
CompletedIsTrue ==
    outcome.value = "Completed" =>
        passed \intersect {"Completed", "CompletedWithErrors", "RebootCompleted"} # {}

\* fetch_task keeps the promise of WatchContract: one answer, made of a state
\* the job has really been in, and no effect on the job.
ImplementsContract == Contract!ContractSpec

\* A watch of a job the controller has stopped working on comes to its end,
\* whatever mixture of faults and expired tasks the server replies with.
SettledIsAnswered == (job \in Settled) ~> (pc = "done")
=============================================================================
