---------------------------- MODULE ConfigChange ----------------------------
(***************************************************************************)
(* The three commands that stage host settings: bios-change,               *)
(* change-boot-order and boot-source-update.  Each checks or commits what  *)
(* is already staged, sends one PATCH, watches the job the controller may  *)
(* answer with or commits the change with job-apply, and reboots the host  *)
(* when told to.  job-apply and the reboot are those of module JobApply.   *)
(***************************************************************************)
EXTENDS JobApply

CONSTANTS
    Requests,           \* the calls of the commands to be considered
    JobForChange        \* whether the controller opens a job for the PATCH

ApplyTimes == {"on-reset", "auto-boot", "none"}

Arguments ==
    [command : {"bios-change", "change-boot-order", "boot-source-update"},
     show : BOOLEAN, commit_pending : BOOLEAN, commit : BOOLEAN,
     reboot : BOOLEAN, apply : ApplyTimes, async : BOOLEAN]

\* change-boot-order has neither --show nor an apply time.
RequestType ==
    {r \in Arguments : r.command = "change-boot-order" => ~r.show /\ r.apply = "none"}

ASSUME ConfigChangeAssumption ==
    /\ Requests \subseteq RequestType
    /\ JobForChange \subseteq BOOLEAN

VARIABLES
    request,        \* the arguments of the command
    sent,           \* history: the mutating requests the command has sent
    unseen,         \* history: settings of others staged since the command has
                    \* last looked or committed, or that its query did not show
    joined,         \* history: the other settings of others, if the PATCH has
                    \* come on top of them
    refused         \* history: job_apply has gone back without committing

ownVars == <<request, sent, unseen, joined, refused>>
vars == <<jobApplyVars, ownVars>>

Calm == UNCHANGED <<hostVars, compute_reset, apply, boot, todo, current, watched, cut>>

\* job_apply is called with its defaults: setting="bios" and no do_async.
CallJobApply(back) ==
    /\ apply' = [setting |-> "bios", async |-> FALSE, back |-> back]
    /\ Goto("jobs")

-----------------------------------------------------------------------------
(* Before the PATCH *)

\* The payload is read or built; an empty or unreadable one ends the command,
\* and so does --show, after the apply time has been worked out.
Prepare ==
    /\ pc = "prepare"
    /\ \/ Raise
       \/ request.command # "change-boot-order" /\ Return(NoResult)
       \/ ~request.show /\ request.command = "bios-change" /\ Goto("pending")
       \/ ~request.show /\ request.command = "boot-source-update" /\ Goto("patch")
       \/ ~request.show /\ request.command = "change-boot-order" /\ Goto("commit_first")
    /\ Calm
    /\ UNCHANGED ownVars

\* Mutant: the flag of change-boot-order is not acted on.
CommitFirstForgotten ==
    /\ pc = "commit_first"
    /\ Goto("patch")
    /\ Calm
    /\ UNCHANGED ownVars

\* change-boot-order commits unseen what may be staged.
CommitFirst ==
    /\ pc = "commit_first"
    /\ IF request.commit_pending THEN CallJobApply("patch")
       ELSE Goto("patch") /\ UNCHANGED apply
    /\ UNCHANGED <<hostVars, compute_reset, boot, todo, current, watched, cut, ownVars>>

\* bios_query_pending answers "nothing" when its query fails for any reason,
\* and gives the whole resource, never empty, when that has no Attributes.
PendingSeen ==
    {staged}
    \union (IF "read" \in Faults THEN {{}} ELSE {})
    \union (IF "bare" \in Faults THEN {Authors} ELSE {})

\* Mutant: pending settings are noticed but do not stop the command.
QueryPendingWarns ==
    /\ pc = "pending"
    /\ Goto("patch")
    /\ Calm
    /\ UNCHANGED ownVars

QueryPending ==
    /\ pc = "pending"
    /\ \E seen \in PendingSeen :
        /\ \/ seen = {} /\ Goto("patch") /\ UNCHANGED apply
           \/ seen # {} /\ request.commit_pending /\ CallJobApply("patch")
           \/ seen # {} /\ ~request.commit_pending /\ Raise /\ UNCHANGED apply
        /\ unseen' = staged \ seen
    /\ UNCHANGED <<hostVars, compute_reset, boot, todo, current, watched, cut>>
    /\ UNCHANGED <<request, sent, joined, refused>>

-----------------------------------------------------------------------------
(* The PATCH *)

\* The controller keeps the change staged, next to what is staged already.
PatchStaged ==
    /\ staged' = staged \union {"mine"}
    /\ \/ /\ ~request.async
          /\ pc' = "settle"
          /\ result' = Result("Success", NoId, "None")
          /\ UNCHANGED outcome
       \/ (request.async \/ "lost" \in Faults) /\ Raise
    /\ UNCHANGED <<power, jobs, applied, interrupted, watched>>

\* The controller opens a configuration job for all that is staged; it waits
\* for a reset, which the controller makes itself only under auto-boot.
PatchQueued ==
    /\ \E j \in Free :
        /\ jobs' = [jobs EXCEPT ![j] = Job("Scheduled", "BIOSConfiguration",
                        staged \union {"mine"}, request.apply = "auto-boot")]
        /\ \/ ~request.async /\ Watch(j, "patched")
           \/ (request.async \/ "lost" \in Faults) /\ Raise /\ UNCHANGED watched
    /\ staged' = {}
    /\ UNCHANGED <<power, applied, interrupted>>

PatchRefused ==
    /\ \E o \in Refusal(204, request.async) :
           IF o.kind = "raised" THEN Raise
           ELSE /\ pc' = "settle"
                /\ result' = Result("Error", NoId, "None")
                /\ UNCHANGED outcome
    /\ UNCHANGED <<hostVars, watched>>

Patch ==
    /\ pc = "patch"
    /\ \/ FALSE \in JobForChange /\ PatchStaged
       \/ TRUE \in JobForChange /\ PatchQueued
       \/ PatchRefused
    /\ sent' = sent \union {"patch"}
    /\ joined' = staged \ ({"mine"} \union unseen)
    /\ UNCHANGED <<compute_reset, apply, boot, todo, current, cut>>
    /\ UNCHANGED <<request, unseen, refused>>

-----------------------------------------------------------------------------
(* After the PATCH *)

\* Mutant: the state is taken from the reply to the PATCH, not from the watch.
PatchedOptimistic ==
    /\ pc = "patched"
    /\ pc' = "last"
    /\ result' = Result("AcceptedTaskGenerated", watched.job, "Completed")
    /\ Calm
    /\ UNCHANGED <<outcome, ownVars>>

Patched ==
    /\ pc = "patched"
    /\ pc' = "last"
    /\ result' = Result("AcceptedTaskGenerated", watched.job, watched.state)
    /\ Calm
    /\ UNCHANGED <<outcome, ownVars>>

\* "elif api_resp.Success or api_resp.Ok" tests two members of the Enum, which
\* are true whatever api_resp is, so a refused change is committed too.
Settle ==
    /\ pc = "settle"
    /\ \/ request.commit /\ CallJobApply("last")
       \/ ~request.commit /\ Goto("last") /\ UNCHANGED apply
    /\ UNCHANGED <<hostVars, compute_reset, boot, todo, current, watched, cut, ownVars>>

\* Mutant: the host is rebooted when the change needs it, asked for or not.
LastEager ==
    /\ pc = "last"
    /\ boot' = "done"
    /\ IF request.reboot \/ request.apply = "on-reset" THEN Goto("chassis") ELSE Return(result)
    /\ UNCHANGED <<hostVars, compute_reset, apply, todo, current, watched, cut, ownVars>>

Last ==
    /\ pc = "last"
    /\ boot' = "done"
    /\ IF request.reboot THEN Goto("chassis") ELSE Return(result)
    /\ UNCHANGED <<hostVars, compute_reset, apply, todo, current, watched, cut, ownVars>>

-----------------------------------------------------------------------------
(* The command *)

Init ==
    /\ HostInit
    /\ compute_reset \in ComputeReset
    /\ pc = "prepare"
    /\ apply = [setting |-> "bios", async |-> FALSE, back |-> "done"]
    /\ boot = "done"
    /\ todo = {}
    /\ current = NoId
    /\ watched = [job |-> NoId, back |-> "done", state |-> "None"]
    /\ result = NoResult
    /\ outcome = "none"
    /\ cut = {}
    /\ request \in Requests
    /\ sent = {}
    /\ unseen = {}
    /\ joined = {}
    /\ refused = FALSE

\* The steps of the callees, and what they have sent.
Callee ==
    /\ ApplyStep
    /\ sent' = sent \union (IF pc \in {"reset", "post"} THEN {pc} ELSE {})
    /\ unseen' = unseen \intersect staged'
    /\ refused' = (refused \/ (pc = "post" /\ pc' = apply.back))
    /\ UNCHANGED <<request, joined>>

ChangeStep ==
    \/ Prepare \/ CommitFirst \/ QueryPending \/ Patch \/ Patched \/ Settle \/ Last
    \/ Callee

\* What happens to the host once the command is over is not looked at.
Outside ==
    /\ pc # "done"
    /\ HostStep
    /\ unseen' = unseen \union (staged' \ staged)
    /\ UNCHANGED <<applyVars, request, sent, joined, refused>>

Next == ChangeStep \/ Outside

Spec == Init /\ [][Next]_vars

\* A watch gives the state in which its job has finished.
Answered ==
    /\ jobs[watched.job].state \in Finished
    /\ watched'.state = jobs[watched.job].state
    /\ pc' = watched.back

\* The command runs on, but no watch is sure to end before its job or without
\* the answer; running jobs end and the controller keeps the time of its own
\* jobs; nothing is assumed of the operator.
FairSpec ==
    /\ Spec
    /\ WF_vars(ChangeStep /\ (pc = "watch" => Answered))
    /\ WF_vars(Outside /\ JobEnds)
    /\ WF_vars(Outside /\ JobIsDue)

-----------------------------------------------------------------------------
(* Properties *)

Labels == {"prepare", "commit_first", "pending", "patch", "patched", "settle", "last",
           "jobs", "each", "rebooted", "chassis", "reset", "reset_done", "post",
           "posted", "watch", "done"}
ArgumentsType == [setting : {"bios"}, async : {FALSE}, back : {"done", "patch", "last"}]
WatchType == [job : JobIds \union {NoId},
              back : {"each", "reset_done", "posted", "patched", "done"},
              state : AnswerStates]
ResultType == [verdict : Verdicts \union {"none"}, job : JobIds \union {NoId},
               state : AnswerStates]

\* Every variable keeps its type.
TypeOK ==
    /\ HostTypeOK
    /\ compute_reset \in BOOLEAN
    /\ pc \in Labels
    /\ apply \in ArgumentsType
    /\ boot \in {"rebooted", "done"}
    /\ todo \subseteq JobIds
    /\ current \in JobIds \union {NoId}
    /\ watched \in WatchType
    /\ result \in ResultType
    /\ outcome \in {"none", "returned", "raised"}
    /\ request \in RequestType
    /\ sent \subseteq {"patch", "reset", "post"}
    /\ cut \subseteq JobIds
    /\ unseen \subseteq Authors
    /\ joined \subseteq {"other"}
    /\ refused \in BOOLEAN

\* "--show ... will not apply any changes": nothing that changes the controller
\* is sent, by the command or by what it calls.
ShowSendsNothing == request.show => sent = {}

\* The client resets the host, or posts a job that does, only for a caller who
\* has asked for it with --reboot, --commit or --commit_pending, on every path
\* through job_apply and reboot.
ResetsAreAskedFor ==
    "reset" \in sent \/ "post" \in sent =>
        request.reboot \/ request.commit \/ request.commit_pending

\* A change reported as Completed is in force on the host.
CompletedIsInForce ==
    outcome = "returned" /\ result.state = "Completed" => "mine" \in applied

\* A normal return leaves no job unfinished that holds the change, whoever has
\* opened it and on whichever path it was watched, unless fetch_task gave the
\* watch up early; and no end is reported that the job has not come to.
ChangeJobEnded ==
    outcome = "returned" =>
        /\ \A j \in JobIds :
              "mine" \in jobs[j].holds => jobs[j].state \in Finished \/ j \in cut
        /\ result.state \in Finished => jobs[result.job].state = result.state

\* "BIOS contains uncommitted pending changes in the queue.  Please apply
\* changes first": bios-change does not stage its change on top of settings of
\* others, unless it is told to commit them, or they were staged after its query
\* or the query did not show them (it has failed).
OthersNotMixedIn ==
    request.command = "bios-change" /\ ~request.commit_pending => joined = {}

\* "first commit all pending changes before do new change": with commit_pending
\* the PATCH does not come on top of settings of others, unless these were staged
\* after the commit or not shown by the query before it, the controller has
\* refused the commit, or the command is the one that ignores the flag.
PendingCommittedFirst ==
    request.commit_pending /\ request.command # "boot-source-update" =>
        joined = {} \/ refused

\* The same without the exceptions, as bios-change documents its argument.
PendingAlwaysCommitted ==
    request.command = "bios-change" /\ request.commit_pending => joined = {}

\* The command resets the host under a configuration job of its own only if
\* fetch_task has given up the watch of that job early: whatever else it has set
\* off, it sees to its end before it reboots.
OwnJobNotInterrupted == \A j \in interrupted : "mine" \in jobs[j].holds => j \in cut

\* The watched job waits for a reset that neither the controller nor, while it
\* watches, the command will make.
WaitsForReset ==
    /\ pc = "watch"
    /\ jobs[watched.job].state = "Scheduled"
    /\ ~jobs[watched.job].auto \/ power = "off"

\* A settings command comes to its end, the commit of pending settings, the watch
\* of every job and the reboot included, or for ever watches a job that only a
\* reset by somebody else would start.
ChangeEnds == <>[](pc = "done" \/ WaitsForReset)
=============================================================================
