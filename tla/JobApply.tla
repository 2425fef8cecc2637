------------------------------ MODULE JobApply ------------------------------
(***************************************************************************)
(* The job-apply command and the reboot it performs (JobApply.execute,     *)
(* IDracManager.reboot, RebootHost.execute): list the scheduled jobs, and  *)
(* for each one reset the host and watch the job, then post a job for the  *)
(* staged settings and watch that one.  The settings commands call it as a *)
(* subroutine (module ConfigChange), so its return point is a variable.    *)
(*                                                                         *)
(* A watch is one step, with an answer WatchContract allows: the state of  *)
(* a finished job; or, when fetch_task leaves its loop early (5xx, 404,    *)
(* 410, a TaskStatus of Warning or Critical, a job state it does not wait  *)
(* for), Unknown or a state the job has been in; or an exception.          *)
(***************************************************************************)
EXTENDS HostController, ApiRespond

CONSTANTS
    NoId,               \* no job
    InitialScheduled,   \* which jobs may be scheduled at the start
    InitialPower,       \* the power states of the host at the start
    Settings,           \* the values of the argument "setting"
    ApplyAsync,         \* the values of the argument do_async
    ComputeReset,       \* whether IDRAC_API has the attribute COMPUTE_RESET:
                        \* not in the sources, but a test defines it
    RefusalCodes,       \* codes of a controller that does not do as asked
    Faults              \* read: a query fails; lost: an answer is lost;
                        \* watch: fetch_task raises; cut: it returns early;
                        \* bare: the settings have no Attributes member, or
                        \* a job no JobState

ASSUME JobApplyAssumption ==
    /\ NoId \notin JobIds
    /\ InitialScheduled \subseteq SUBSET JobIds
    /\ InitialPower \subseteq {"on", "off"}
    /\ Settings \subseteq {"bios", "boot-option", "attribute", "raid"}
    /\ ApplyAsync \subseteq BOOLEAN
    /\ ComputeReset \subseteq BOOLEAN
    /\ RefusalCodes \subseteq 400..599
    /\ Faults \subseteq {"read", "lost", "watch", "cut", "bare"}

VARIABLES
    compute_reset,  \* whether COMPUTE_RESET is defined in this build
    pc,
    apply,          \* job_apply's arguments, and where it returns to
    boot,           \* where reboot() returns to
    todo,           \* the scheduled jobs of the loop that are left
    current,        \* the job the loop is at
    watched,        \* fetch_task: the job, where it returns to, its answer
    result,         \* the command's CommandResult
    outcome,        \* none | returned | raised
    cut             \* history: the jobs whose watch has returned early

applyVars == <<compute_reset, pc, apply, boot, todo, current, watched,
              result, outcome, cut>>
jobApplyVars == <<hostVars, applyVars>>

NoResult == [verdict |-> "none", job |-> NoId, state |-> "None"]
Result(verdict, id, state) == [verdict |-> verdict, job |-> id, state |-> state]

Raise ==
    /\ pc' = "done"
    /\ outcome' = "raised"
    /\ UNCHANGED result

Return(r) ==
    /\ pc' = "done"
    /\ outcome' = "returned"
    /\ result' = r

Goto(label) ==
    /\ pc' = label
    /\ UNCHANGED <<result, outcome>>

\* The caller drops what job_apply returns: it only tests the error, which no
\* command called here ever sets.
ReturnFromApply(r) ==
    IF apply.back = "done" THEN Return(r) ELSE Goto(apply.back)

Watch(id, back) ==
    /\ watched' = [job |-> id, back |-> back, state |-> "None"]
    /\ Goto("watch")

\* A refused request: some codes raise, others come back as the verdict Error.
Refusal(expected, async) ==
    {Respond([expected |-> expected, ignored |-> 0, async |-> async],
             Reply(c, FALSE, "error")) : c \in RefusalCodes}

-----------------------------------------------------------------------------
(* job_apply, up to its loop *)

FiltersBios == apply.setting \in {"bios", "boot-option"}

\* jobs_sources_query(filter_scheduled, job_type, job_ids): other settings
\* carry no job_type and get the scheduled jobs of every type.
QueryJobs ==
    /\ pc = "jobs"
    /\ \/ /\ todo' = {j \in JobIds :
                        /\ jobs[j].state = "Scheduled"
                        /\ FiltersBios => jobs[j].kind = "BIOSConfiguration"}
          /\ Goto("each")
       \/ /\ "read" \in Faults
          /\ Raise
          /\ UNCHANGED todo
    /\ UNCHANGED <<hostVars, compute_reset, apply, boot, current, watched, cut>>

\* The loop reboots once per listed job; the dict "rebooted" is keyed by job,
\* so its test never spares a reset.
NextJob ==
    /\ pc = "each"
    /\ \/ /\ todo = {}
          /\ Goto("post")
          /\ UNCHANGED <<todo, current, boot>>
       \/ \E j \in todo :
              /\ todo' = todo \ {j}
              /\ current' = j
              /\ boot' = "rebooted"
              /\ Goto("chassis")
    /\ UNCHANGED <<hostVars, compute_reset, apply, watched, cut>>

\* In async mode the loop stops after one reset.  Otherwise get_job, whose
\* JobState is a string and never equals the Enum it is compared with, so the
\* job is watched even when it is still scheduled.  A job without a JobState is
\* not watched.
Rebooted ==
    /\ pc = "rebooted"
    /\ \/ apply.async /\ Goto("post") /\ UNCHANGED watched
       \/ ~apply.async /\ Watch(current, "each")
       \/ ~apply.async /\ "bare" \in Faults /\ Goto("each") /\ UNCHANGED watched
       \/ ~apply.async /\ "read" \in Faults /\ Raise /\ UNCHANGED watched
    /\ UNCHANGED <<hostVars, compute_reset, apply, boot, todo, current, cut>>

-----------------------------------------------------------------------------
(* IDracManager.reboot and RebootHost.execute *)

ReturnFromReboot == IF boot = "done" THEN Return(result) ELSE Goto(boot)

\* Mutant: the test of the power state is inverted.
ReadPowerInverted ==
    /\ pc = "chassis"
    /\ IF power = "on" THEN ReturnFromReboot ELSE Goto("reset")
    /\ UNCHANGED <<hostVars, compute_reset, apply, boot, todo, current, watched, cut>>

\* A host that is off is left alone and that is not an error.
ReadPower ==
    /\ pc = "chassis"
    /\ \/ power = "on" /\ Goto("reset")
       \/ power = "off" /\ ReturnFromReboot
       \/ "read" \in Faults /\ Raise
    /\ UNCHANGED <<hostVars, compute_reset, apply, boot, todo, current, watched, cut>>

\* Without COMPUTE_RESET the target of the reset cannot be built.
ResetUnreachable ==
    /\ ~compute_reset \/ "read" \in Faults
    /\ Raise
    /\ UNCHANGED <<hostVars, watched>>

\* The controller resets the host and says so, or its answer is lost.
ResetDone ==
    /\ ResetBy("client")
    /\ \/ ReturnFromReboot
       \/ "lost" \in Faults /\ Raise
    /\ UNCHANGED watched

\* The controller answers with the task of the reset, which is watched.
ResetTasked ==
    /\ power = "on"
    /\ \E j \in Free :
        /\ jobs' = [Started EXCEPT ![j] = Job("Running", "RebootNoForce", {}, FALSE)]
        /\ Watch(j, "reset_done")
    /\ interrupted' = interrupted \union {j \in JobIds : jobs[j].state = "Running"}
    /\ UNCHANGED <<power, staged, applied>>

ResetRefused ==
    /\ \E o \in Refusal(202, FALSE) :
           IF o.kind = "raised" THEN Raise ELSE Goto("reset_done")
    /\ UNCHANGED <<hostVars, watched>>

Reset ==
    /\ pc = "reset"
    /\ \/ ResetUnreachable
       \/ compute_reset /\ (ResetDone \/ ResetTasked \/ ResetRefused)
    /\ UNCHANGED <<compute_reset, apply, boot, todo, current, cut>>

\* wait_for_reboot, if called at all, leaves its loop at once, because
\* max_retry is 10 in every call.  Then both callees return.
ResetReturns ==
    /\ pc = "reset_done"
    /\ ReturnFromReboot
    /\ UNCHANGED <<hostVars, compute_reset, apply, boot, todo, current, watched, cut>>

-----------------------------------------------------------------------------
(* The job for the staged settings, and the watches *)

\* A bios job takes the staged settings and forces a reboot; a boot-option job
\* takes none of them; for other settings the payload is empty.
PostTakes == IF apply.setting = "bios" THEN staged ELSE {}

PostQueued ==
    /\ apply.setting = "bios" => staged # {}
    /\ apply.setting \in {"bios", "boot-option"}
    /\ \E j \in Free :
        /\ jobs' = [jobs EXCEPT ![j] = Job("Scheduled", "BIOSConfiguration", PostTakes, TRUE)]
        /\ staged' = staged \ PostTakes
        /\ \/ ~apply.async /\ Watch(j, "posted")
           \/ (apply.async \/ "lost" \in Faults) /\ Raise /\ UNCHANGED watched
    /\ UNCHANGED <<power, applied, interrupted>>

PostRefused ==
    /\ \E o \in Refusal(204, apply.async) :
           IF o.kind = "raised" THEN Raise
           ELSE ReturnFromApply(Result("Error", NoId, "None"))
    /\ UNCHANGED <<hostVars, watched>>

\* Mutant: the new job is not watched.
PostUnwatched ==
    /\ pc = "post"
    /\ \/ PostRefused
       \/ /\ PostTakes # {}
          /\ \E j \in Free :
               /\ jobs' = [jobs EXCEPT ![j] = Job("Scheduled", "BIOSConfiguration",
                                                  PostTakes, TRUE)]
               /\ ReturnFromApply(Result("AcceptedTaskGenerated", j, "Scheduled"))
          /\ staged' = {}
          /\ UNCHANGED <<power, applied, interrupted, watched>>
    /\ UNCHANGED <<compute_reset, apply, boot, todo, current, cut>>

Post ==
    /\ pc = "post"
    /\ PostQueued \/ PostRefused
    /\ UNCHANGED <<compute_reset, apply, boot, todo, current, cut>>

Posted ==
    /\ pc = "posted"
    /\ ReturnFromApply(Result("AcceptedTaskGenerated", watched.job, watched.state))
    /\ UNCHANGED <<hostVars, compute_reset, apply, boot, todo, current, watched, cut>>

AnswerStates == QueuedStates \union {"Unknown"}

\* The states a job in the given one has been in since it was scheduled.
SoFar(state) == {"Scheduled", state} \union (IF state \in Finished THEN {"Running"} ELSE {})

\* Mutant: a job that has started counts as done.
AnswersOfAnyWatch(state) ==
    IF state # "Scheduled" THEN {"Completed"} ELSE {}

\* Mutant: a job that has failed is watched on.
AnswersOfCompleted(state) ==
    ({state} \intersect {"Completed"})
    \union (IF "cut" \in Faults THEN {"Unknown", "Scheduled"} ELSE {})

\* What fetch_task may answer of a job that is in the given state: the state of
\* a finished job, or what it knew when it left its loop early.
WatchAnswers(state) ==
    ({state} \intersect Finished)
    \union (IF "cut" \in Faults THEN {"Unknown"} \union SoFar(state) ELSE {})

WatchEnds ==
    /\ pc = "watch"
    /\ \/ \E s \in WatchAnswers(jobs[watched.job].state) :
            /\ watched' = [watched EXCEPT !.state = s]
            /\ cut' = IF s \in Finished THEN cut ELSE cut \union {watched.job}
            /\ Goto(watched.back)
       \/ "watch" \in Faults /\ Raise /\ UNCHANGED <<watched, cut>>
    /\ UNCHANGED <<hostVars, compute_reset, apply, boot, todo, current>>

-----------------------------------------------------------------------------
(* The command by itself *)

ApplyArgs(back) == [setting : Settings, async : ApplyAsync, back : {back}]

HostInit ==
    /\ power \in InitialPower
    /\ staged \in {{}, {"other"}}
    /\ \E S \in InitialScheduled : \E k \in [S -> {"BIOSConfiguration", "FirmwareUpdate"}] :
           jobs = [j \in JobIds |-> IF j \in S THEN Job("Scheduled", k[j], {"other"}, FALSE)
                                    ELSE NoJob]
    /\ applied = {}
    /\ interrupted = {}

ApplyInit ==
    /\ HostInit
    /\ compute_reset \in ComputeReset
    /\ pc = "jobs"
    /\ apply \in ApplyArgs("done")
    /\ boot = "done"
    /\ todo = {}
    /\ current = NoId
    /\ watched = [job |-> NoId, back |-> "done", state |-> "None"]
    /\ result = NoResult
    /\ outcome = "none"
    /\ cut = {}

ApplyStep ==
    \/ QueryJobs \/ NextJob \/ Rebooted \/ ReadPower \/ Reset \/ ResetReturns
    \/ Post \/ Posted \/ WatchEnds

ApplyNext == ApplyStep \/ (HostStep /\ UNCHANGED applyVars)

ApplySpec == ApplyInit /\ [][ApplyNext]_jobApplyVars

-----------------------------------------------------------------------------
(* Properties *)

ApplyTypeOK ==
    /\ HostTypeOK
    /\ compute_reset \in BOOLEAN
    /\ pc \in {"jobs", "each", "rebooted", "chassis", "reset", "reset_done",
               "post", "posted", "watch", "done"}
    /\ apply \in ApplyArgs("done")
    /\ boot \in {"rebooted", "done"}
    /\ todo \subseteq JobIds
    /\ current \in JobIds \union {NoId}
    /\ watched \in [job : JobIds \union {NoId}, back : {"each", "reset_done", "posted", "done"},
                    state : AnswerStates]
    /\ result \in [verdict : Verdicts \union {"none"}, job : JobIds \union {NoId},
                   state : AnswerStates]
    /\ outcome \in {"none", "returned", "raised"}
    /\ cut \subseteq JobIds

\* A job-apply that returns normally has seen the job it has posted to its end,
\* unless fetch_task gave the watch up early, and then its answer says so: it
\* never names an end the job has not come to (fetch_task after base_post; in
\* this command only the POST makes a job the controller reboots for).
PostedJobsEnded ==
    outcome = "returned" =>
        /\ \A j \in JobIds : jobs[j].auto =>
              \/ jobs[j].state \in Finished
              \/ j \in cut /\ result.job = j /\ result.state \notin Finished
        /\ result.state \in Finished => jobs[result.job].state = result.state
=============================================================================
