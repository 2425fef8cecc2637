------------------------- MODULE ConfigChangeProofs -------------------------
(***************************************************************************)
(* For every set of jobs, requests, refusals and faults, whoever else is   *)
(* at the host: the settings commands reset the host only for a caller who *)
(* asked for it, --show sends nothing, an end they report of their job is  *)
(* the end it has come to, their own reset interrupts a job of theirs only *)
(* if its watch was given up, and settings of others that the command was  *)
(* shown stay out of the change.  The last part is about job-apply as a    *)
(* command of its own (JobApply!ApplySpec).                                *)
(***************************************************************************)
EXTENDS ConfigChange, TLAPS

Asked == request.reboot \/ request.commit \/ request.commit_pending

ApplyPcs == {"jobs", "each", "rebooted", "post", "posted"}
RebootPcs == {"chassis", "reset", "reset_done"}

\* Which callers can have led to a step of job_apply or of reboot.
CallsOK ==
    /\ pc \in ApplyPcs \union RebootPcs => Asked
    /\ pc = "watch" /\ watched.back # "patched" => Asked
    /\ "reset" \in sent \/ "post" \in sent => Asked
    /\ request.show => sent = {} /\ pc \in {"prepare", "done"}

\* Where the callees return to, and that a watch has a job.
ReturnsOK ==
    /\ pc \in ApplyPcs => apply.back # "done"
    /\ boot = "rebooted" => apply.back # "done" /\ current \in JobIds
    /\ watched.back \in {"each", "posted"} => apply.back # "done"
    /\ watched.back # "done" => watched.job \in JobIds
    /\ pc = "watch" => watched.back # "done"
    /\ pc = "rebooted" => boot = "rebooted"
    /\ pc \in {"posted", "patched"} => watched.back = pc
    /\ pc # "done" => outcome = "none"

Final(j) == jobs[j].state \in Finished

\* What the job of the change holds, what a finished job has done, and that an
\* end that was seen or is reported is the end of the job.
JobsOK ==
    /\ \A j \in JobIds : jobs[j].state = "Completed" => jobs[j].holds \subseteq applied
    /\ pc \in {"watch", "patched"} /\ watched.back = "patched" =>
           /\ "mine" \in jobs[watched.job].holds
           /\ jobs[watched.job].state # "None"
    /\ watched.state \in Finished =>
           /\ watched.job \in JobIds
           /\ jobs[watched.job].state = watched.state
    /\ result.job # NoId =>
           /\ jobs[result.job].state # "None"
           /\ "mine" \in jobs[result.job].holds
    /\ result.state \in Finished =>
           /\ result.job # NoId
           /\ jobs[result.job].state = result.state

IInv == TypeOK /\ CallsOK /\ ReturnsOK /\ JobsOK

-----------------------------------------------------------------------------
(* The shapes of the records *)

\* A job built from well-typed parts is a job.
LEMMA JobType ==
    ASSUME NEW state \in QueuedStates, NEW kind \in JobKinds,
           NEW holds \in SUBSET Authors, NEW auto \in BOOLEAN
    PROVE  Job(state, kind, holds, auto) \in
               [state : QueuedStates, kind : JobKinds, holds : SUBSET Authors, auto : BOOLEAN]
  BY DEF Job

\* A result built from well-typed parts is one, and has these parts.
LEMMA ResultIn ==
    ASSUME NEW verdict \in Verdicts \union {"none"}, NEW id \in JobIds \union {NoId},
           NEW state \in AnswerStates
    PROVE  /\ Result(verdict, id, state) \in ResultType
           /\ Result(verdict, id, state).job = id
           /\ Result(verdict, id, state).state = state
  BY DEF Result, ResultType

\* A watch built from well-typed parts is one, and has these parts.
LEMMA WatchIn ==
    ASSUME NEW id \in JobIds \union {NoId},
           NEW back \in {"each", "reset_done", "posted", "patched", "done"}
    PROVE  /\ [job |-> id, back |-> back, state |-> "None"] \in WatchType
           /\ [job |-> id, back |-> back, state |-> "None"].job = id
           /\ [job |-> id, back |-> back, state |-> "None"].back = back
           /\ [job |-> id, back |-> back, state |-> "None"].state \notin Finished
  BY DEF WatchType, AnswerStates, QueuedStates, Finished

\* The parts of a watch.
LEMMA WatchParts ==
    ASSUME NEW w \in WatchType
    PROVE  /\ w.job \in JobIds \union {NoId}
           /\ w.back \in {"each", "reset_done", "posted", "patched", "done"}
           /\ w.state \in AnswerStates
  BY DEF WatchType

\* What a watch may answer: a state; and if that is an end, the job's own.
LEMMA Answers ==
    ASSUME NEW state \in QueuedStates, NEW s \in WatchAnswers(state)
    PROVE  /\ s \in AnswerStates
           /\ s \in Finished => s = state
  BY DEF WatchAnswers, SoFar, AnswerStates, QueuedStates, Finished

\* The answer of a watch is noted with the job.
LEMMA WatchAnswered ==
    ASSUME NEW w \in WatchType, NEW s \in AnswerStates
    PROVE  /\ [w EXCEPT !.state = s] \in WatchType
           /\ [w EXCEPT !.state = s].job = w.job
           /\ [w EXCEPT !.state = s].back = w.back
           /\ [w EXCEPT !.state = s].state = s
  BY DEF WatchType

\* The parts of a result.
LEMMA ResultParts ==
    ASSUME NEW r \in ResultType
    PROVE  /\ r.job \in JobIds \union {NoId}
           /\ r.state \in AnswerStates
  BY DEF ResultType

\* The call of job_apply by a settings command is well typed.
LEMMA CallParts ==
    ASSUME NEW back \in {"patch", "last"}
    PROVE  /\ [setting |-> "bios", async |-> FALSE, back |-> back] \in ArgumentsType
           /\ [setting |-> "bios", async |-> FALSE, back |-> back].back = back
  BY DEF ArgumentsType

\* A reset starts the scheduled jobs and leaves what they hold alone.
LEMMA StartedJobs ==
    ASSUME HostTypeOK
    PROVE  /\ Started \in [JobIds -> [state : QueuedStates, kind : JobKinds,
                                      holds : SUBSET Authors, auto : BOOLEAN]]
           /\ \A j \in JobIds :
                 /\ Started[j].holds = jobs[j].holds
                 /\ jobs[j].state # "Scheduled" => Started[j].state = jobs[j].state
                 /\ jobs[j].state = "Scheduled" => Started[j].state = "Running"
  BY DEF Started, HostTypeOK, QueuedStates

-----------------------------------------------------------------------------
(* Initial states *)

\* IInv holds when a command begins.
LEMMA InitInv == Init => IInv
  <1> SUFFICES ASSUME Init PROVE IInv
    OBVIOUS
  <1>. USE JobApplyAssumption, ConfigChangeAssumption
  <1>0. PICK S \in InitialScheduled : \E k \in [S -> {"BIOSConfiguration", "FirmwareUpdate"}] :
            jobs = [j \in JobIds |-> IF j \in S THEN Job("Scheduled", k[j], {"other"}, FALSE)
                                     ELSE NoJob]
    BY DEF Init, HostInit
  <1>1. PICK k \in [S -> {"BIOSConfiguration", "FirmwareUpdate"}] :
            jobs = [j \in JobIds |-> IF j \in S THEN Job("Scheduled", k[j], {"other"}, FALSE)
                                     ELSE NoJob]
    BY <1>0
  <1>2. HostTypeOK
    BY <1>1 DEF Init, HostInit, HostTypeOK, Job, NoJob, QueuedStates, JobKinds, Authors
  <1>3. TypeOK
    BY <1>2 DEF Init, TypeOK, NoResult, Verdicts, AnswerStates, QueuedStates, Labels,
                ArgumentsType, WatchType, ResultType
  <1>4. \A j \in JobIds : jobs[j].state # "Completed"
    BY <1>1 DEF Job, NoJob
  <1>5. CallsOK /\ ReturnsOK /\ JobsOK
    BY <1>3, <1>4
       DEF Init, TypeOK, CallsOK, ReturnsOK, JobsOK, ApplyPcs, RebootPcs, NoResult, Finished
  <1>6. QED
    BY <1>3, <1>5 DEF IInv

-----------------------------------------------------------------------------
(* What every step keeps of the jobs: a job in the queue stays there and     *)
(* holds what it holds, and a finished job does not change.                  *)

JobFrame ==
    \A j \in JobIds :
        /\ jobs[j].state # "None" => /\ jobs'[j].state # "None"
                                     /\ jobs'[j].holds = jobs[j].holds
        /\ jobs[j].state \in Finished => jobs'[j].state = jobs[j].state
        /\ jobs'[j].state = "Completed" => jobs'[j].holds \subseteq applied'

\* JobsOK is kept by a step that keeps the jobs and claims nothing new.
LEMMA JobsKept ==
    ASSUME IInv, JobFrame,
           \/ result' = result
           \/ result'.job = NoId /\ result'.state \notin Finished,
           pc' \in {"watch", "patched"} /\ watched'.back = "patched" =>
               /\ "mine" \in jobs'[watched'.job].holds
               /\ jobs'[watched'.job].state # "None",
           watched' = watched \/ watched'.state \notin Finished
    PROVE  JobsOK'
  <1>. USE DEF IInv, TypeOK, JobsOK
  <1>1. (\A j \in JobIds : jobs[j].state = "Completed" => jobs[j].holds \subseteq applied)'
    BY DEF JobFrame
  <1>2. (watched.state \in Finished => /\ watched.job \in JobIds
                                        /\ jobs[watched.job].state = watched.state)'
    BY DEF JobFrame
  <1>3. (result.job # NoId => /\ jobs[result.job].state # "None"
                              /\ "mine" \in jobs[result.job].holds)'
    BY ResultParts DEF JobFrame
  <1>4. (result.state \in Finished => /\ result.job # NoId
                                       /\ jobs[result.job].state = result.state)'
    BY ResultParts DEF JobFrame
  <1>5. QED
    BY <1>1, <1>2, <1>3, <1>4

\* A step that leaves the queue alone keeps the jobs.
LEMMA JobFrameStill == IInv /\ UNCHANGED <<jobs, applied>> => JobFrame
  BY DEF IInv, JobsOK, JobFrame

-----------------------------------------------------------------------------
(* Steps of the host: the command stands still. *)

HostFrame == JobFrame /\ HostTypeOK'

\* Jobs ending, coming due and the acts of an operator keep the jobs.
LEMMA HostKeeps == IInv /\ HostStep => HostFrame
  <1> SUFFICES ASSUME IInv, HostStep PROVE HostFrame
    OBVIOUS
  <1>. USE DEF IInv, TypeOK
  <1>1. \A j \in JobIds : jobs[j].state = "Completed" => jobs[j].holds \subseteq applied
    BY DEF JobsOK
  <1>2. CASE JobEnds
    <2>1. PICK j \in JobIds :
            /\ jobs[j].state = "Running"
            /\ \/ /\ jobs' = [jobs EXCEPT ![j].state = "Completed"]
                  /\ applied' = applied \union jobs[j].holds
               \/ /\ jobs' = [jobs EXCEPT ![j].state = "Failed"]
                  /\ UNCHANGED applied
      BY <1>2 DEF JobEnds
    <2>2. HostTypeOK'
      BY <1>2, <2>1 DEF JobEnds, HostTypeOK, QueuedStates
    <2>3. QED
      BY <1>1, <2>1, <2>2 DEF HostFrame, JobFrame, HostTypeOK, Finished
  <1>3. ASSUME NEW who \in {"client", "controller", "operator"}, ResetBy(who)
        PROVE  HostFrame
    BY <1>1, <1>3, StartedJobs DEF ResetBy, HostFrame, JobFrame, HostTypeOK, Finished
  <1>4. CASE OperatorActs
    <2>1. CASE OperatorResets /\ ResetBy("operator")
      BY <1>3, <2>1
    <2>2. CASE /\ power' = IF power = "on" THEN "off" ELSE "on"
               /\ jobs' = IF power = "off" THEN Started ELSE jobs
               /\ UNCHANGED <<staged, applied, interrupted>>
      <3>1. HostTypeOK'
        BY <2>2, StartedJobs DEF HostTypeOK
      <3>2. QED
        BY <1>1, <2>2, <3>1, StartedJobs DEF HostFrame, JobFrame, HostTypeOK, Finished
    <2>3. CASE /\ staged' = staged \union {"other"}
               /\ UNCHANGED <<power, jobs, applied, interrupted>>
      BY <1>1, <2>3 DEF HostFrame, JobFrame, HostTypeOK, Authors
    <2>4. QED
      BY <1>4, <2>1, <2>2, <2>3 DEF OperatorActs
  <1>5. QED
    BY <1>2, <1>3, <1>4 DEF HostStep, JobIsDue

\* IInv is kept by what happens outside of the command.
LEMMA OutsideInv == IInv /\ Outside => IInv'
  <1> SUFFICES ASSUME IInv, Outside PROVE IInv'
    OBVIOUS
  <1>1. HostFrame
    BY HostKeeps DEF Outside
  <1>2. UNCHANGED applyVars /\ UNCHANGED <<request, sent, joined, refused>>
    BY DEF Outside
  <1>3. TypeOK'
    <2>1. HostTypeOK'
      BY <1>1 DEF HostFrame
    <2>2. unseen' \subseteq Authors
      BY <2>1 DEF Outside, IInv, TypeOK, HostTypeOK
    <2>3. QED
      BY <1>2, <2>1, <2>2 DEF IInv, TypeOK, applyVars
  <1>4. CallsOK' /\ ReturnsOK'
    BY <1>2 DEF IInv, CallsOK, ReturnsOK, Asked, applyVars
  <1>5. JobsOK'
    <2>1. pc \in {"watch", "patched"} /\ watched.back = "patched" =>
               /\ "mine" \in jobs'[watched.job].holds
               /\ jobs'[watched.job].state # "None"
      BY <1>1 DEF IInv, ReturnsOK, JobsOK, HostFrame, JobFrame
    <2>2. QED
      BY <1>1, <1>2, <2>1, JobsKept DEF HostFrame, applyVars
  <1>6. QED
    BY <1>3, <1>4, <1>5 DEF IInv

\* The result a command begins with is well typed.
LEMMA NoResultIn ==
    NoResult \in ResultType /\ NoResult.job = NoId /\ NoResult.state \notin Finished
  BY DEF NoResult, ResultType, Verdicts, AnswerStates, QueuedStates, Finished

-----------------------------------------------------------------------------
(* Steps of the command that leave the controller alone *)

\* The parts of the state the controller keeps, which the command only reads.
HostStill == UNCHANGED hostVars

\* A step that leaves the controller alone keeps its type and its jobs.
LEMMA HostStillKeeps ==
    IInv /\ HostStill => HostTypeOK' /\ JobFrame
  BY JobFrameStill DEF IInv, TypeOK, HostTypeOK, HostStill, hostVars

\* IInv is kept by the checks before the first request.
LEMMA PrepareInv == IInv /\ Prepare => IInv'
  <1> SUFFICES ASSUME IInv, Prepare PROVE IInv'
    OBVIOUS
  <1>. USE DEF Prepare, Goto, Return, Raise, Calm, ownVars
  <1>0. HostTypeOK' /\ JobFrame
    BY HostStillKeeps DEF HostStill
  <1>1. TypeOK'
    BY <1>0, CallParts, NoResultIn DEF IInv, TypeOK, Labels
  <1>2. CallsOK'
    BY WatchParts DEF IInv, TypeOK, CallsOK, ReturnsOK, Asked, ApplyPcs, RebootPcs, ArgumentsType, Labels
  <1>3. ReturnsOK'
    BY CallParts, WatchParts DEF IInv, TypeOK, ReturnsOK, ApplyPcs, ArgumentsType, Labels
  <1>4. JobsOK'
    BY <1>0, JobsKept, NoResultIn, WatchParts DEF IInv, ReturnsOK, JobsOK, TypeOK
  <1>5. QED
    BY <1>1, <1>2, <1>3, <1>4 DEF IInv

\* IInv is kept when change-boot-order commits what is staged.
LEMMA CommitFirstInv == IInv /\ CommitFirst => IInv'
  <1> SUFFICES ASSUME IInv, CommitFirst PROVE IInv'
    OBVIOUS
  <1>. USE DEF CommitFirst, Goto, Return, Raise, CallJobApply, ownVars
  <1>0. HostTypeOK' /\ JobFrame
    BY HostStillKeeps DEF HostStill
  <1>1. TypeOK'
    BY <1>0, CallParts, NoResultIn DEF IInv, TypeOK, Labels
  <1>2. CallsOK'
    BY WatchParts DEF IInv, TypeOK, CallsOK, ReturnsOK, Asked, ApplyPcs, RebootPcs, ArgumentsType, Labels
  <1>3. ReturnsOK'
    BY CallParts, WatchParts DEF IInv, TypeOK, ReturnsOK, ApplyPcs, ArgumentsType, Labels
  <1>4. JobsOK'
    BY <1>0, JobsKept, NoResultIn, WatchParts DEF IInv, ReturnsOK, JobsOK, TypeOK
  <1>5. QED
    BY <1>1, <1>2, <1>3, <1>4 DEF IInv

\* IInv is kept by the query for pending settings.
LEMMA QueryPendingInv == IInv /\ QueryPending => IInv'
  <1> SUFFICES ASSUME IInv, QueryPending PROVE IInv'
    OBVIOUS
  <1>. USE DEF QueryPending, Goto, Return, Raise, CallJobApply, ownVars
  <1>0. HostTypeOK' /\ JobFrame
    BY HostStillKeeps DEF HostStill
  <1>a. unseen' \subseteq Authors
    BY DEF IInv, TypeOK, HostTypeOK
  <1>1. TypeOK'
    BY <1>0, <1>a, CallParts, NoResultIn DEF IInv, TypeOK, Labels
  <1>2. CallsOK'
    BY WatchParts DEF IInv, TypeOK, CallsOK, ReturnsOK, Asked, ApplyPcs, RebootPcs, ArgumentsType, Labels
  <1>3. ReturnsOK'
    BY CallParts, WatchParts DEF IInv, TypeOK, ReturnsOK, ApplyPcs, ArgumentsType, Labels
  <1>4. JobsOK'
    BY <1>0, JobsKept, NoResultIn, WatchParts DEF IInv, ReturnsOK, JobsOK, TypeOK
  <1>5. QED
    BY <1>1, <1>2, <1>3, <1>4 DEF IInv

\* IInv is kept by the decision to commit the change.
LEMMA SettleInv == IInv /\ Settle => IInv'
  <1> SUFFICES ASSUME IInv, Settle PROVE IInv'
    OBVIOUS
  <1>. USE DEF Settle, Goto, Return, Raise, CallJobApply, ownVars
  <1>0. HostTypeOK' /\ JobFrame
    BY HostStillKeeps DEF HostStill
  <1>1. TypeOK'
    BY <1>0, CallParts, NoResultIn DEF IInv, TypeOK, Labels
  <1>2. CallsOK'
    BY WatchParts DEF IInv, TypeOK, CallsOK, ReturnsOK, Asked, ApplyPcs, RebootPcs, ArgumentsType, Labels
  <1>3. ReturnsOK'
    BY CallParts, WatchParts DEF IInv, TypeOK, ReturnsOK, ApplyPcs, ArgumentsType, Labels
  <1>4. JobsOK'
    BY <1>0, JobsKept, NoResultIn, WatchParts DEF IInv, ReturnsOK, JobsOK, TypeOK
  <1>5. QED
    BY <1>1, <1>2, <1>3, <1>4 DEF IInv

\* IInv is kept by the decision to reboot.
LEMMA LastInv == IInv /\ Last => IInv'
  <1> SUFFICES ASSUME IInv, Last PROVE IInv'
    OBVIOUS
  <1>. USE DEF Last, Goto, Return, Raise, ownVars
  <1>0. HostTypeOK' /\ JobFrame
    BY HostStillKeeps DEF HostStill
  <1>1. TypeOK'
    BY <1>0, CallParts, NoResultIn DEF IInv, TypeOK, Labels
  <1>2. CallsOK'
    BY WatchParts DEF IInv, TypeOK, CallsOK, ReturnsOK, Asked, ApplyPcs, RebootPcs, ArgumentsType, Labels
  <1>3. ReturnsOK'
    BY CallParts, WatchParts DEF IInv, TypeOK, ReturnsOK, ApplyPcs, ArgumentsType, Labels
  <1>4. JobsOK'
    BY <1>0, JobsKept, NoResultIn, WatchParts DEF IInv, ReturnsOK, JobsOK, TypeOK
  <1>5. QED
    BY <1>1, <1>2, <1>3, <1>4 DEF IInv

\* Where job_apply may return to.
LEMMA ReturnParts ==
    ASSUME NEW a \in ArgumentsType
    PROVE  a.back \in {"done", "patch", "last"}
  BY DEF ArgumentsType
-----------------------------------------------------------------------------
(* Steps of job_apply and of the reboot *)

Sends ==
    /\ sent' = sent \union (IF pc \in {"reset", "post"} THEN {pc} ELSE {})
    /\ unseen' = unseen \intersect staged'
    /\ refused' = (refused \/ (pc = "post" /\ pc' = apply.back))
    /\ UNCHANGED <<request, joined>>

\* IInv is kept by job_apply's query for scheduled jobs.
LEMMA QueryJobsInv == IInv /\ QueryJobs /\ Sends => IInv'
  <1> SUFFICES ASSUME IInv, QueryJobs, Sends PROVE IInv'
    OBVIOUS
  <1>. USE DEF QueryJobs, Goto, Raise, Sends
  <1>0. HostTypeOK' /\ JobFrame
    BY HostStillKeeps DEF HostStill
  <1>1. TypeOK'
    BY <1>0, NoResultIn, WatchIn, WatchParts DEF IInv, TypeOK, Labels, ReturnsOK, ApplyPcs, RebootPcs
  <1>2. CallsOK'
    BY WatchIn, WatchParts DEF IInv, TypeOK, CallsOK, ReturnsOK, Asked, ApplyPcs, RebootPcs, ArgumentsType, Labels
  <1>3. ReturnsOK'
    BY WatchIn, WatchParts DEF IInv, TypeOK, ReturnsOK, ApplyPcs, RebootPcs, ArgumentsType, Labels
  <1>4. JobsOK'
    BY <1>0, JobsKept, NoResultIn, WatchIn, WatchParts DEF IInv, ReturnsOK, JobsOK, TypeOK, ApplyPcs
  <1>5. QED
    BY <1>1, <1>2, <1>3, <1>4 DEF IInv

\* IInv is kept by the head of job_apply's loop.
LEMMA NextJobInv == IInv /\ NextJob /\ Sends => IInv'
  <1> SUFFICES ASSUME IInv, NextJob, Sends PROVE IInv'
    OBVIOUS
  <1>. USE DEF NextJob, Goto, Sends
  <1>0. HostTypeOK' /\ JobFrame
    BY HostStillKeeps DEF HostStill
  <1>1. TypeOK'
    BY <1>0, NoResultIn, WatchIn, WatchParts DEF IInv, TypeOK, Labels, ReturnsOK, ApplyPcs, RebootPcs
  <1>2. CallsOK'
    BY WatchIn, WatchParts DEF IInv, TypeOK, CallsOK, ReturnsOK, Asked, ApplyPcs, RebootPcs, ArgumentsType, Labels
  <1>3. ReturnsOK'
    BY WatchIn, WatchParts DEF IInv, TypeOK, ReturnsOK, ApplyPcs, RebootPcs, ArgumentsType, Labels
  <1>4. JobsOK'
    BY <1>0, JobsKept, NoResultIn, WatchIn, WatchParts DEF IInv, ReturnsOK, JobsOK, TypeOK, ApplyPcs
  <1>5. QED
    BY <1>1, <1>2, <1>3, <1>4 DEF IInv

\* IInv is kept by reboot()'s reading of the power state.
LEMMA ReadPowerInv == IInv /\ ReadPower /\ Sends => IInv'
  <1> SUFFICES ASSUME IInv, ReadPower, Sends PROVE IInv'
    OBVIOUS
  <1>. USE DEF ReadPower, Goto, Raise, Return, ReturnFromReboot, Sends
  <1>0. HostTypeOK' /\ JobFrame
    BY HostStillKeeps DEF HostStill
  <1>1. TypeOK'
    BY <1>0, NoResultIn, WatchIn, WatchParts DEF IInv, TypeOK, Labels, ReturnsOK, ApplyPcs, RebootPcs
  <1>2. CallsOK'
    BY WatchIn, WatchParts DEF IInv, TypeOK, CallsOK, ReturnsOK, Asked, ApplyPcs, RebootPcs, ArgumentsType, Labels
  <1>3. ReturnsOK'
    BY WatchIn, WatchParts DEF IInv, TypeOK, ReturnsOK, ApplyPcs, RebootPcs, ArgumentsType, Labels
  <1>4. JobsOK'
    BY <1>0, JobsKept, NoResultIn, WatchIn, WatchParts DEF IInv, ReturnsOK, JobsOK, TypeOK, ApplyPcs
  <1>5. QED
    BY <1>1, <1>2, <1>3, <1>4 DEF IInv

\* IInv is kept by the return from the reset.
LEMMA ResetReturnsInv == IInv /\ ResetReturns /\ Sends => IInv'
  <1> SUFFICES ASSUME IInv, ResetReturns, Sends PROVE IInv'
    OBVIOUS
  <1>. USE DEF ResetReturns, Goto, Return, ReturnFromReboot, Sends
  <1>0. HostTypeOK' /\ JobFrame
    BY HostStillKeeps DEF HostStill
  <1>1. TypeOK'
    BY <1>0, NoResultIn, WatchIn, WatchParts DEF IInv, TypeOK, Labels, ReturnsOK, ApplyPcs, RebootPcs
  <1>2. CallsOK'
    BY WatchIn, WatchParts DEF IInv, TypeOK, CallsOK, ReturnsOK, Asked, ApplyPcs, RebootPcs, ArgumentsType, Labels
  <1>3. ReturnsOK'
    BY WatchIn, WatchParts DEF IInv, TypeOK, ReturnsOK, ApplyPcs, RebootPcs, ArgumentsType, Labels
  <1>4. JobsOK'
    BY <1>0, JobsKept, NoResultIn, WatchIn, WatchParts DEF IInv, ReturnsOK, JobsOK, TypeOK, ApplyPcs
  <1>5. QED
    BY <1>1, <1>2, <1>3, <1>4 DEF IInv

\* IInv is kept when job_apply goes on after a reboot.
LEMMA RebootedInv == IInv /\ Rebooted /\ Sends => IInv'
  <1> SUFFICES ASSUME IInv, Rebooted, Sends PROVE IInv'
    OBVIOUS
  <1>. USE DEF Rebooted, Goto, Raise, Watch, Sends
  <1>0. HostTypeOK' /\ JobFrame
    BY HostStillKeeps DEF HostStill
  <1>a. current \in JobIds /\ [job |-> current, back |-> "each", state |-> "None"] \in WatchType
    BY WatchIn DEF IInv, ReturnsOK
  <1>1. TypeOK'
    BY <1>0, NoResultIn, WatchIn, WatchParts, <1>a DEF IInv, TypeOK, Labels, ReturnsOK, ApplyPcs, RebootPcs
  <1>2. CallsOK'
    BY WatchIn, WatchParts, <1>a DEF IInv, TypeOK, CallsOK, ReturnsOK, Asked, ApplyPcs, RebootPcs, ArgumentsType, Labels
  <1>3. ReturnsOK'
    BY WatchIn, WatchParts, <1>a DEF IInv, TypeOK, ReturnsOK, ApplyPcs, RebootPcs, ArgumentsType, Labels
  <1>4. JobsOK'
    BY <1>0, JobsKept, NoResultIn, WatchIn, WatchParts, <1>a DEF IInv, ReturnsOK, JobsOK, TypeOK, ApplyPcs
  <1>5. QED
    BY <1>1, <1>2, <1>3, <1>4 DEF IInv

\* IInv is kept when job_apply has watched its own job.
LEMMA PostedInv == IInv /\ Posted /\ Sends => IInv'
  <1> SUFFICES ASSUME IInv, Posted, Sends PROVE IInv'
    OBVIOUS
  <1>. USE DEF Posted, Goto, Return, ReturnFromApply, Sends
  <1>0. HostTypeOK' /\ JobFrame
    BY HostStillKeeps DEF HostStill
  <1>a. apply.back \in {"patch", "last"}
    BY ReturnParts DEF IInv, TypeOK, ReturnsOK, ApplyPcs
  <1>1. TypeOK'
    BY <1>0, NoResultIn, WatchIn, WatchParts, <1>a DEF IInv, TypeOK, Labels, ReturnsOK, ApplyPcs, RebootPcs
  <1>2. CallsOK'
    BY WatchIn, WatchParts, <1>a DEF IInv, TypeOK, CallsOK, ReturnsOK, Asked, ApplyPcs, RebootPcs, ArgumentsType, Labels
  <1>3. ReturnsOK'
    BY WatchIn, WatchParts, <1>a DEF IInv, TypeOK, ReturnsOK, ApplyPcs, RebootPcs, ArgumentsType, Labels
  <1>4. JobsOK'
    BY <1>0, JobsKept, NoResultIn, WatchIn, WatchParts, <1>a DEF IInv, ReturnsOK, JobsOK, TypeOK, ApplyPcs
  <1>5. QED
    BY <1>1, <1>2, <1>3, <1>4 DEF IInv

\* IInv is kept when a watch ends.
LEMMA WatchEndsInv == IInv /\ WatchEnds /\ Sends => IInv'
  <1> SUFFICES ASSUME IInv, WatchEnds, Sends PROVE IInv'
    OBVIOUS
  <1>. USE DEF Sends
  <1>0. HostTypeOK' /\ JobFrame
    BY HostStillKeeps DEF WatchEnds, HostStill
  <1>1. /\ pc = "watch"
        /\ UNCHANGED <<hostVars, compute_reset, apply, boot, todo, current, result>>
        /\ watched \in WatchType
        /\ watched.job \in JobIds
        /\ watched.back \in {"each", "reset_done", "posted", "patched"}
    BY WatchParts DEF WatchEnds, Goto, Raise, IInv, TypeOK, ReturnsOK
  <1>2. jobs[watched.job].state \in QueuedStates
    BY <1>1 DEF IInv, TypeOK, HostTypeOK
  <1>3. CASE Raise /\ UNCHANGED <<watched, cut>>
    <2>. USE <1>3 DEF Raise
    <2>1. TypeOK'
      BY <1>0, <1>1 DEF IInv, TypeOK, Labels
    <2>2. CallsOK' /\ ReturnsOK'
      BY <1>1 DEF IInv, CallsOK, ReturnsOK, Asked, ApplyPcs, RebootPcs
    <2>3. JobsOK'
      BY <1>0, <1>1, JobsKept
    <2>4. QED
      BY <2>1, <2>2, <2>3 DEF IInv
  <1>4. ASSUME NEW s \in WatchAnswers(jobs[watched.job].state),
               watched' = [watched EXCEPT !.state = s],
               cut' = IF s \in Finished THEN cut ELSE cut \union {watched.job},
               Goto(watched.back)
        PROVE  IInv'
    <2>. USE <1>4 DEF Goto
    <2>1. s \in AnswerStates /\ (s \in Finished => s = jobs[watched.job].state)
      BY <1>2, Answers
    <2>2. /\ watched' \in WatchType /\ watched'.job = watched.job
          /\ watched'.back = watched.back /\ watched'.state = s
      BY <1>1, <2>1, WatchAnswered
    <2>3. TypeOK'
      BY <1>0, <1>1, <2>2 DEF IInv, TypeOK, Labels
    <2>4. CallsOK' /\ ReturnsOK'
      BY <1>1, <2>2 DEF IInv, CallsOK, ReturnsOK, Asked, ApplyPcs, RebootPcs
    <2>5. UNCHANGED <<jobs, applied>>
      BY <1>1 DEF hostVars
    <2>6. JobsOK'
      BY <1>1, <2>1, <2>2, <2>5 DEF IInv, JobsOK
    <2>7. QED
      BY <2>3, <2>4, <2>6 DEF IInv
  <1>5. QED
    BY <1>3, <1>4 DEF WatchEnds

-----------------------------------------------------------------------------
(* Steps that change the controller *)

QueueType == [JobIds -> [state : QueuedStates, kind : JobKinds,
                         holds : SUBSET Authors, auto : BOOLEAN]]

\* A job that is added to the queue takes nobody's place.
LEMMA JobAdded ==
    ASSUME IInv, NEW j \in Free, NEW queue \in QueueType,
           queue = jobs \/ queue = Started,
           NEW state \in {"Scheduled", "Running"}, NEW kind \in JobKinds,
           NEW holds \in SUBSET Authors, NEW auto \in BOOLEAN,
           jobs' = [queue EXCEPT ![j] = Job(state, kind, holds, auto)],
           applied' = applied
    PROVE  /\ jobs' \in QueueType
           /\ JobFrame
           /\ jobs'[j].state = state
           /\ jobs'[j].holds = holds
           /\ j \in JobIds
  <1>. USE DEF IInv, TypeOK
  <1>1. j \in JobIds /\ jobs[j].state = "None"
    BY DEF Free
  <1>2. state \in QueuedStates
    BY DEF QueuedStates
  <1>3. jobs' \in QueueType
    BY <1>1, <1>2, JobType DEF QueueType
  <1>4. /\ jobs'[j].state = state
        /\ jobs'[j].holds = holds
    BY <1>1 DEF QueueType, Job
  <1>5. \A i \in JobIds \ {j} : jobs'[i] = queue[i]
    BY <1>1 DEF QueueType
  <1>6. \A i \in JobIds :
            /\ queue[i].holds = jobs[i].holds
            /\ jobs[i].state # "None" => queue[i].state # "None"
            /\ jobs[i].state \in Finished => queue[i].state = jobs[i].state
            /\ queue[i].state = "Completed" => jobs[i].state = "Completed"
    BY StartedJobs DEF Finished
  <1>7. JobFrame
    BY <1>1, <1>4, <1>5, <1>6 DEF JobFrame, JobsOK, Finished
  <1>8. QED
    BY <1>1, <1>3, <1>4, <1>7

\* The result of a refused PATCH claims no job.
LEMMA Refused ==
    LET r == Result("Error", NoId, "None")
    IN  r \in ResultType /\ r.job = NoId /\ r.state \notin Finished
  BY DEF Result, ResultType, Verdicts, ApiRespondToString, AnswerStates, QueuedStates, Finished

\* The result of a PATCH that staged the change claims no job.
LEMMA Accepted ==
    LET r == Result("Success", NoId, "None")
    IN  r \in ResultType /\ r.job = NoId /\ r.state \notin Finished
  BY DEF Result, ResultType, Verdicts, ApiRespondToString, AnswerStates, QueuedStates, Finished

\* IInv is kept when the job of the change has been watched.
LEMMA PatchedInv == IInv /\ Patched => IInv'
  <1> SUFFICES ASSUME IInv, Patched PROVE IInv'
    OBVIOUS
  <1>. USE DEF Patched, Calm, ownVars
  <1>0. HostTypeOK' /\ JobFrame
    BY HostStillKeeps DEF HostStill
  <1>1. /\ watched.job \in JobIds
        /\ jobs[watched.job].state # "None"
        /\ "mine" \in jobs[watched.job].holds
        /\ watched.state \in AnswerStates
    BY WatchParts DEF IInv, TypeOK, ReturnsOK, JobsOK
  <1>2. /\ result' \in ResultType
        /\ result'.job = watched.job
        /\ result'.state = watched.state
    <2>1. "AcceptedTaskGenerated" \in Verdicts \union {"none"}
      BY DEF Verdicts, ApiRespondToString
    <2>2. QED
      BY <1>1, <2>1, ResultIn
  <1>3. TypeOK'
    BY <1>0, <1>2 DEF IInv, TypeOK, Labels
  <1>4. CallsOK' /\ ReturnsOK'
    BY DEF IInv, CallsOK, ReturnsOK, Asked, ApplyPcs, RebootPcs
  <1>5. JobsOK'
    <2>1. NoId \notin JobIds
      BY JobApplyAssumption
    <2>2. UNCHANGED <<jobs, applied, watched>>
      BY DEF hostVars
    <2>3. QED
      BY <1>1, <1>2, <2>1, <2>2 DEF IInv, JobsOK
  <1>6. QED
    BY <1>3, <1>4, <1>5 DEF IInv

\* IInv is kept by the PATCH, whatever the controller makes of it.
LEMMA PatchInv == IInv /\ Patch => IInv'
  <1> SUFFICES ASSUME IInv, Patch PROVE IInv'
    OBVIOUS
  <1>0. /\ pc = "patch"
        /\ sent' = sent \union {"patch"}
        /\ joined' = staged \ ({"mine"} \union unseen)
        /\ UNCHANGED <<compute_reset, apply, boot, todo, current, cut, request, unseen, refused>>
    BY DEF Patch
  <1>1. HostTypeOK /\ staged \subseteq Authors /\ jobs \in QueueType
    BY DEF IInv, TypeOK, HostTypeOK, QueueType
  <1>2. sent' \subseteq {"patch", "reset", "post"} /\ joined' \subseteq {"other"}
    BY <1>0, <1>1 DEF IInv, TypeOK, Authors
  <1>3. CASE PatchStaged
    <2>. USE <1>3 DEF PatchStaged, Raise
    <2>1. HostTypeOK'
      BY <1>1 DEF HostTypeOK, Authors
    <2>2. JobFrame
      BY JobFrameStill
    <2>3. Result("Success", NoId, "None") \in ResultType
          /\ Result("Success", NoId, "None").job = NoId
          /\ Result("Success", NoId, "None").state \notin Finished
      BY Accepted
    <2>4. TypeOK'
      BY <1>0, <1>2, <2>1, <2>3 DEF IInv, TypeOK, Labels
    <2>5. CallsOK' /\ ReturnsOK'
      BY <1>0 DEF IInv, CallsOK, ReturnsOK, Asked, ApplyPcs, RebootPcs
    <2>6. JobsOK'
      BY <1>0, <2>2, <2>3, JobsKept
    <2>7. QED
      BY <2>4, <2>5, <2>6 DEF IInv
  <1>4. CASE PatchQueued
    <2>1. PICK j \in Free :
            /\ jobs' = [jobs EXCEPT ![j] = Job("Scheduled", "BIOSConfiguration",
                            staged \union {"mine"}, request.apply = "auto-boot")]
            /\ \/ ~request.async /\ Watch(j, "patched")
               \/ (request.async \/ "lost" \in Faults) /\ Raise /\ UNCHANGED watched
      BY <1>4 DEF PatchQueued
    <2>2. /\ staged' = {}
          /\ UNCHANGED <<power, applied, interrupted>>
      BY <1>4 DEF PatchQueued
    <2>3. /\ "BIOSConfiguration" \in JobKinds
          /\ staged \union {"mine"} \in SUBSET Authors
          /\ (request.apply = "auto-boot") \in BOOLEAN
      BY <1>1 DEF JobKinds, Authors
    <2>4. /\ jobs' \in QueueType
          /\ JobFrame
          /\ jobs'[j].state = "Scheduled"
          /\ jobs'[j].holds = staged \union {"mine"}
          /\ j \in JobIds
      BY <1>1, <2>1, <2>2, <2>3, JobAdded
    <2>5. HostTypeOK'
      BY <1>1, <2>2, <2>4 DEF HostTypeOK, QueueType
    <2>6. CASE Watch(j, "patched")
      <3>. USE <2>6 DEF Watch, Goto
      <3>1. watched' \in WatchType /\ watched'.job = j /\ watched'.back = "patched"
            /\ watched'.state \notin Finished
        BY <2>4, WatchIn
      <3>2. TypeOK'
        BY <1>0, <1>2, <2>5, <3>1 DEF IInv, TypeOK, Labels
      <3>3. CallsOK' /\ ReturnsOK'
        BY <1>0, <2>4, <3>1 DEF IInv, CallsOK, ReturnsOK, Asked, ApplyPcs, RebootPcs
      <3>4. JobsOK'
        BY <2>4, <3>1, JobsKept
      <3>5. QED
        BY <3>2, <3>3, <3>4 DEF IInv
    <2>7. CASE Raise /\ UNCHANGED watched
      <3>. USE <2>7 DEF Raise
      <3>1. TypeOK'
        BY <1>0, <1>2, <2>5 DEF IInv, TypeOK, Labels
      <3>2. CallsOK' /\ ReturnsOK'
        BY <1>0 DEF IInv, CallsOK, ReturnsOK, Asked, ApplyPcs, RebootPcs
      <3>3. JobsOK'
        BY <2>4, JobsKept
      <3>4. QED
        BY <3>1, <3>2, <3>3 DEF IInv
    <2>8. QED
      BY <2>1, <2>6, <2>7
  <1>5. CASE PatchRefused
    <2>. USE DEF Raise
    <2>1. UNCHANGED <<hostVars, watched>>
      BY <1>5 DEF PatchRefused
    <2>2. \/ Raise
          \/ /\ pc' = "settle"
             /\ result' = Result("Error", NoId, "None")
             /\ UNCHANGED outcome
      BY <1>5 DEF PatchRefused
    <2>3. HostTypeOK' /\ JobFrame
      BY <2>1, HostStillKeeps DEF HostStill
    <2>4. Result("Error", NoId, "None") \in ResultType
          /\ Result("Error", NoId, "None").job = NoId
          /\ Result("Error", NoId, "None").state \notin Finished
      BY Refused
    <2>5. TypeOK'
      BY <1>0, <1>2, <2>1, <2>2, <2>3, <2>4 DEF IInv, TypeOK, Labels
    <2>6. CallsOK' /\ ReturnsOK'
      BY <1>0, <2>1, <2>2 DEF IInv, CallsOK, ReturnsOK, Asked, ApplyPcs, RebootPcs
    <2>7. JobsOK'
      BY <1>0, <2>1, <2>2, <2>3, <2>4, JobsKept
    <2>8. QED
      BY <2>5, <2>6, <2>7 DEF IInv
  <1>6. QED
    BY <1>3, <1>4, <1>5 DEF Patch

\* IInv is kept by the POST of the reset, whatever comes of it.
LEMMA ResetInv == IInv /\ Reset /\ Sends => IInv'
  <1> SUFFICES ASSUME IInv, Reset, Sends PROVE IInv'
    OBVIOUS
  <1>0. /\ pc = "reset"
        /\ UNCHANGED <<compute_reset, apply, boot, todo, current, cut, request, joined>>
    BY DEF Reset, Sends
  <1>1. /\ sent' \subseteq {"patch", "reset", "post"}
        /\ unseen' \subseteq Authors
        /\ refused' \in BOOLEAN
    BY <1>0 DEF IInv, TypeOK, Sends
  <1>2. Asked /\ ~request.show
    BY <1>0 DEF IInv, CallsOK, RebootPcs
  <1>3. CallsOK'
    BY <1>0, <1>2 DEF CallsOK, Asked
  <1>4. ASSUME UNCHANGED watched, Raise \/ ReturnFromReboot \/ Goto("reset_done"),
               HostTypeOK', JobFrame
        PROVE  IInv'
    <2>. USE <1>4 DEF Raise, ReturnFromReboot, Return, Goto
    <2>1. /\ UNCHANGED result
          /\ outcome' \in {"none", "returned", "raised"}
          /\ pc' \in {"done", "reset_done"} \/ (pc' = "rebooted" /\ boot = "rebooted")
      BY DEF IInv, TypeOK
    <2>2. TypeOK'
      BY <1>0, <1>1, <2>1 DEF IInv, TypeOK, Labels
    <2>3. ReturnsOK'
      BY <1>0, <2>1 DEF IInv, ReturnsOK, ApplyPcs
    <2>4. JobsOK'
      BY <2>1, JobsKept
    <2>5. QED
      BY <1>3, <2>2, <2>3, <2>4 DEF IInv
  <1>5. CASE ResetUnreachable \/ ResetRefused
    <2>1. UNCHANGED watched /\ HostStill
      BY <1>5 DEF ResetUnreachable, ResetRefused, HostStill
    <2>2. Raise \/ Goto("reset_done")
      BY <1>5 DEF ResetUnreachable, ResetRefused
    <2>3. QED
      BY <1>4, <2>1, <2>2, HostStillKeeps
  <1>6. CASE ResetDone
    <2>1. HostTypeOK' /\ JobFrame
      BY <1>6, StartedJobs
         DEF ResetDone, ResetBy, IInv, TypeOK, JobsOK, HostTypeOK, JobFrame, Finished
    <2>2. UNCHANGED watched /\ (Raise \/ ReturnFromReboot)
      BY <1>6 DEF ResetDone
    <2>3. QED
      BY <1>4, <2>1, <2>2
  <1>7. CASE ResetTasked
    <2>1. PICK j \in Free :
            /\ jobs' = [Started EXCEPT ![j] = Job("Running", "RebootNoForce", {}, FALSE)]
            /\ Watch(j, "reset_done")
      BY <1>7 DEF ResetTasked
    <2>2. /\ interrupted' = interrupted \union {i \in JobIds : jobs[i].state = "Running"}
          /\ UNCHANGED <<power, staged, applied>>
      BY <1>7 DEF ResetTasked
    <2>3. HostTypeOK /\ Started \in QueueType /\ "RebootNoForce" \in JobKinds
      BY StartedJobs DEF IInv, TypeOK, QueueType, JobKinds
    <2>4. jobs' \in QueueType /\ JobFrame /\ j \in JobIds
      BY <2>1, <2>2, <2>3, JobAdded
    <2>5. HostTypeOK'
      BY <2>2, <2>3, <2>4 DEF HostTypeOK, QueueType
    <2>6. watched' \in WatchType /\ watched'.job = j /\ watched'.back = "reset_done"
            /\ watched'.state \notin Finished
      BY <2>1, <2>4, WatchIn DEF Watch
    <2>7. pc' = "watch" /\ UNCHANGED <<result, outcome>>
      BY <2>1 DEF Watch, Goto
    <2>8. TypeOK'
      BY <1>0, <1>1, <2>5, <2>6, <2>7 DEF IInv, TypeOK, Labels
    <2>9. ReturnsOK'
      BY <1>0, <2>4, <2>6, <2>7 DEF IInv, ReturnsOK, ApplyPcs
    <2>10. JobsOK'
      BY <2>4, <2>6, <2>7, JobsKept
    <2>11. QED
      BY <1>3, <2>8, <2>9, <2>10 DEF IInv
  <1>8. QED
    BY <1>5, <1>6, <1>7 DEF Reset

\* IInv is kept by job_apply's POST of a job for the staged settings.
LEMMA PostInv == IInv /\ Post /\ Sends => IInv'
  <1> SUFFICES ASSUME IInv, Post, Sends PROVE IInv'
    OBVIOUS
  <1>0. /\ pc = "post"
        /\ UNCHANGED <<compute_reset, apply, boot, todo, current, cut, request, joined>>
    BY DEF Post, Sends
  <1>1. /\ sent' \subseteq {"patch", "reset", "post"}
        /\ unseen' \subseteq Authors
        /\ refused' \in BOOLEAN
    BY <1>0 DEF IInv, TypeOK, Sends
  <1>2. Asked /\ ~request.show /\ apply.back \in {"patch", "last"}
    BY <1>0, ReturnParts DEF IInv, TypeOK, CallsOK, ReturnsOK, ApplyPcs
  <1>3. CallsOK'
    BY <1>0, <1>2 DEF CallsOK, Asked
  <1>4. ASSUME UNCHANGED <<watched, result>>, HostTypeOK', JobFrame,
               pc' \in {"done", "patch", "last"},
               outcome' \in {"none", "returned", "raised"},
               pc' # "done" => outcome' = "none"
        PROVE  IInv'
    <2>1. TypeOK'
      BY <1>0, <1>1, <1>4 DEF IInv, TypeOK, Labels
    <2>2. ReturnsOK'
      BY <1>0, <1>4 DEF IInv, ReturnsOK, ApplyPcs
    <2>3. JobsOK'
      BY <1>4, JobsKept
    <2>4. QED
      BY <1>3, <2>1, <2>2, <2>3 DEF IInv
  <1>5. CASE PostRefused
    <2>1. UNCHANGED watched /\ HostStill
      BY <1>5 DEF PostRefused, HostStill
    <2>2. Raise \/ ReturnFromApply(Result("Error", NoId, "None"))
      BY <1>5 DEF PostRefused
    <2>3. /\ UNCHANGED result
          /\ pc' \in {"done", "patch", "last"}
          /\ outcome' \in {"none", "returned", "raised"}
          /\ pc' # "done" => outcome' = "none"
      BY <1>0, <1>2, <2>2 DEF IInv, TypeOK, ReturnsOK, Raise, ReturnFromApply, Goto
    <2>4. QED
      BY <1>4, <2>1, <2>3, HostStillKeeps
  <1>6. CASE PostQueued
    <2>1. PICK j \in Free :
            /\ jobs' = [jobs EXCEPT ![j] = Job("Scheduled", "BIOSConfiguration", PostTakes, TRUE)]
            /\ staged' = staged \ PostTakes
            /\ \/ ~apply.async /\ Watch(j, "posted")
               \/ (apply.async \/ "lost" \in Faults) /\ Raise /\ UNCHANGED watched
      BY <1>6 DEF PostQueued
    <2>2. UNCHANGED <<power, applied, interrupted>>
      BY <1>6 DEF PostQueued
    <2>3. /\ HostTypeOK /\ jobs \in QueueType /\ staged \subseteq Authors
          /\ PostTakes \in SUBSET Authors /\ "BIOSConfiguration" \in JobKinds
      BY DEF IInv, TypeOK, HostTypeOK, QueueType, JobKinds, PostTakes
    <2>4. jobs' \in QueueType /\ JobFrame /\ j \in JobIds
      BY <2>1, <2>2, <2>3, JobAdded
    <2>5. HostTypeOK'
      BY <2>1, <2>2, <2>3, <2>4 DEF HostTypeOK, QueueType
    <2>6. CASE Watch(j, "posted")
      <3>1. watched' \in WatchType /\ watched'.job = j /\ watched'.back = "posted"
            /\ watched'.state \notin Finished
        BY <2>4, <2>6, WatchIn DEF Watch
      <3>2. pc' = "watch" /\ UNCHANGED <<result, outcome>>
        BY <2>6 DEF Watch, Goto
      <3>3. TypeOK'
        BY <1>0, <1>1, <2>5, <3>1, <3>2 DEF IInv, TypeOK, Labels
      <3>4. ReturnsOK'
        BY <1>0, <1>2, <2>4, <3>1, <3>2 DEF IInv, ReturnsOK, ApplyPcs
      <3>5. JobsOK'
        BY <2>4, <3>1, <3>2, JobsKept
      <3>6. QED
        BY <1>3, <3>3, <3>4, <3>5 DEF IInv
    <2>7. CASE Raise /\ UNCHANGED watched
      BY <1>4, <2>4, <2>5, <2>7 DEF Raise
    <2>8. QED
      BY <2>1, <2>6, <2>7
  <1>7. QED
    BY <1>5, <1>6 DEF Post

-----------------------------------------------------------------------------
(* The specification *)

\* IInv is kept by every step.
LEMMA NextInv == IInv /\ [Next]_vars => IInv'
  <1> SUFFICES ASSUME IInv, [Next]_vars PROVE IInv'
    OBVIOUS
  <1>1. CASE Callee
    <2>1. ApplyStep /\ Sends
      BY <1>1 DEF Callee, Sends
    <2>2. QED
      BY <2>1, QueryJobsInv, NextJobInv, RebootedInv, ReadPowerInv, ResetInv, ResetReturnsInv,
         PostInv, PostedInv, WatchEndsInv DEF ApplyStep
  <1>2. CASE UNCHANGED vars
    <2>1. UNCHANGED hostVars /\ UNCHANGED applyVars /\ UNCHANGED ownVars
      BY <1>2 DEF vars, jobApplyVars
    <2>2. HostTypeOK' /\ JobFrame
      BY <2>1, HostStillKeeps DEF HostStill
    <2>3. TypeOK'
      BY <2>1, <2>2 DEF IInv, TypeOK, applyVars, ownVars
    <2>4. CallsOK' /\ ReturnsOK'
      BY <2>1 DEF IInv, CallsOK, ReturnsOK, Asked, applyVars, ownVars
    <2>5. JobsOK'
      BY <2>1 DEF IInv, JobsOK, Final, hostVars, applyVars
    <2>6. QED
      BY <2>3, <2>4, <2>5 DEF IInv
  <1>3. QED
    BY <1>1, <1>2, OutsideInv, PrepareInv, CommitFirstInv, QueryPendingInv, PatchInv,
       PatchedInv, SettleInv, LastInv DEF Next, ChangeStep

\* IInv always holds.
LEMMA Invariance == Spec => []IInv
  BY InitInv, NextInv, PTL DEF Spec

\* TypeOK: every variable keeps its type in the settings commands and in the
\* job-apply and reboot they call.
THEOREM TypeCorrect == Spec => []TypeOK
  <1>1. IInv => TypeOK
    BY DEF IInv
  <1>2. QED
    BY <1>1, Invariance, PTL

\* ResetsAreAskedFor: on every path through job_apply and reboot the client
\* resets the host, or posts a job that does, only for --reboot, --commit or
\* --commit_pending.
THEOREM AskedFor == Spec => []ResetsAreAskedFor
  <1>1. IInv => ResetsAreAskedFor
    BY DEF IInv, CallsOK, Asked, ResetsAreAskedFor
  <1>2. QED
    BY <1>1, Invariance, PTL

\* ShowSendsNothing: --show changes nothing, whatever other arguments say.
THEOREM ShowSafe == Spec => []ShowSendsNothing
  <1>1. IInv => ShowSendsNothing
    BY DEF IInv, CallsOK, ShowSendsNothing
  <1>2. QED
    BY <1>1, Invariance, PTL

\* CompletedIsInForce: a change that a settings command reports as Completed is
\* in force, because the watch it reads the state from was of the job that
\* holds the change.
THEOREM InForce == Spec => []CompletedIsInForce
  <1>1. IInv => CompletedIsInForce
    <2> SUFFICES ASSUME IInv, outcome = "returned", result.state = "Completed"
                 PROVE  "mine" \in applied
      BY DEF CompletedIsInForce
    <2>1. result.job # NoId
      BY DEF IInv, JobsOK, Finished
    <2>2. result.job \in JobIds
      BY <2>1, ResultParts DEF IInv, TypeOK
    <2>3. QED
      BY <2>1, <2>2 DEF IInv, JobsOK, Finished
  <1>2. QED
    BY <1>1, Invariance, PTL
-----------------------------------------------------------------------------
(* Whose jobs a reset of the client interrupts *)

\* The job under watch is the one the command has set off for its change.
WatchesOwn(j) == pc = "watch" /\ watched.job = j /\ watched.back \in {"patched", "posted"}

\* A job that holds the change is finished, watched, one whose watch was given
\* up, or left behind by an exception.
MineOK ==
    \A j \in JobIds :
        "mine" \in jobs[j].holds =>
            Final(j) \/ j \in cut \/ outcome = "raised" \/ WatchesOwn(j)

\* What was interrupted is somebody else's, or its watch was given up.
InterruptedOK ==
    \A j \in interrupted :
        jobs[j].state # "None" /\ ("mine" \in jobs[j].holds => j \in cut)

OwnInv == IInv /\ MineOK /\ InterruptedOK

\* OwnInv holds when a command begins.
LEMMA InitOwn == Init => OwnInv
  <1> SUFFICES ASSUME Init PROVE MineOK /\ InterruptedOK
    BY InitInv DEF OwnInv
  <1>1. \A j \in JobIds : "mine" \notin jobs[j].holds
    <2>1. PICK S \in InitialScheduled : \E k \in [S -> {"BIOSConfiguration", "FirmwareUpdate"}] :
              jobs = [j \in JobIds |-> IF j \in S THEN Job("Scheduled", k[j], {"other"}, FALSE)
                                       ELSE NoJob]
      BY DEF Init, HostInit
    <2>2. QED
      BY <2>1 DEF Job, NoJob
  <1>2. QED
    BY <1>1 DEF MineOK, InterruptedOK, Init, HostInit

\* Nothing is forgotten of the jobs that were interrupted.
LEMMA InterruptedKept ==
    ASSUME OwnInv, JobFrame, UNCHANGED interrupted, cut \subseteq cut'
    PROVE  InterruptedOK'
  <1>1. interrupted \subseteq JobIds
    BY DEF OwnInv, IInv, TypeOK, HostTypeOK
  <1>2. QED
    BY <1>1 DEF OwnInv, InterruptedOK, JobFrame

\* A reset of the client comes when every job of the change has ended, or the
\* watch of it was given up.
LEMMA InterruptedByReset ==
    ASSUME OwnInv, JobFrame, pc = "reset", UNCHANGED cut,
           interrupted' = interrupted \union {j \in JobIds : jobs[j].state = "Running"}
    PROVE  InterruptedOK'
  <1>1. interrupted \subseteq JobIds
    BY DEF OwnInv, IInv, TypeOK, HostTypeOK
  <1>2. ASSUME NEW j \in JobIds, jobs[j].state = "Running"
        PROVE  jobs'[j].state # "None" /\ ("mine" \in jobs'[j].holds => j \in cut)
    BY <1>2 DEF OwnInv, IInv, ReturnsOK, MineOK, WatchesOwn, Final, Finished, JobFrame
  <1>3. QED
    BY <1>1, <1>2 DEF OwnInv, InterruptedOK, JobFrame

\* A step that gives the change to no other job keeps MineOK, when it is not a
\* watch of the change that ends.
LEMMA MineKept ==
    ASSUME OwnInv, JobFrame, pc # "done", cut \subseteq cut',
           \A j \in JobIds : WatchesOwn(j) =>
               \/ jobs'[j].state \in Finished \/ j \in cut'
               \/ outcome' = "raised" \/ WatchesOwn(j)',
           \A j \in JobIds :
               jobs[j].state = "None" /\ "mine" \in jobs'[j].holds /\ "mine" \notin jobs[j].holds
                   => outcome' = "raised" \/ WatchesOwn(j)'
    PROVE  MineOK'
  <1> SUFFICES ASSUME NEW j \in JobIds, "mine" \in jobs'[j].holds
               PROVE  \/ jobs'[j].state \in Finished \/ j \in cut'
                      \/ outcome' = "raised" \/ WatchesOwn(j)'
    BY DEF MineOK, Final
  <1>1. CASE "mine" \in jobs[j].holds
    <2>1. Final(j) \/ j \in cut \/ WatchesOwn(j)
      BY <1>1 DEF OwnInv, MineOK, IInv, ReturnsOK
    <2>2. QED
      BY <2>1 DEF JobFrame, Final
  <1>2. CASE "mine" \notin jobs[j].holds
    BY <1>2 DEF JobFrame
  <1>3. QED
    BY <1>1, <1>2

\* OwnInv is kept by the steps of the command that leave the queue alone and
\* do not end a watch.
LEMMA StillOwn ==
    ASSUME OwnInv, IInv', UNCHANGED <<jobs, applied, interrupted, cut>>,
           pc \notin {"watch", "done"}
    PROVE  OwnInv'
  <1>1. JobFrame
    BY JobFrameStill DEF OwnInv
  <1>2. MineOK'
    BY <1>1, MineKept DEF WatchesOwn
  <1>3. QED
    BY <1>1, <1>2, InterruptedKept DEF OwnInv

\* OwnInv is kept by what happens outside of the command.
LEMMA OutsideOwn == OwnInv /\ Outside => OwnInv'
  <1> SUFFICES ASSUME OwnInv, Outside PROVE OwnInv'
    OBVIOUS
  <1>1. IInv' /\ JobFrame /\ UNCHANGED applyVars
    BY OutsideInv, HostKeeps DEF OwnInv, Outside, HostFrame
  <1>2. /\ \A j \in JobIds : jobs'[j].holds = jobs[j].holds
        /\ UNCHANGED interrupted
    <2>1. \A j \in JobIds : Started[j].holds = jobs[j].holds
      BY StartedJobs DEF OwnInv, IInv, TypeOK
    <2>2. CASE JobEnds
      BY <2>2 DEF JobEnds, OwnInv, IInv, TypeOK, HostTypeOK
    <2>3. CASE JobIsDue \/ OperatorActs
      BY <2>1, <2>3 DEF JobIsDue, OperatorActs, ResetBy
    <2>4. QED
      BY <2>2, <2>3 DEF Outside, HostStep
  <1>3. MineOK'
    BY <1>1, <1>2 DEF OwnInv, MineOK, WatchesOwn, Final, JobFrame, applyVars
  <1>4. QED
    BY <1>1, <1>2, <1>3, InterruptedKept DEF OwnInv, applyVars

\* OwnInv is kept by the PATCH: a job for the change is watched.
LEMMA PatchOwn == OwnInv /\ Patch => OwnInv'
  <1> SUFFICES ASSUME OwnInv, Patch PROVE OwnInv'
    OBVIOUS
  <1>1. IInv' /\ pc = "patch"
    BY PatchInv DEF OwnInv, Patch
  <1>0. UNCHANGED cut
    BY DEF Patch
  <1>2. CASE PatchStaged
    BY <1>0, <1>1, <1>2, StillOwn DEF PatchStaged
  <1>3. CASE PatchRefused
    BY <1>0, <1>1, <1>3, StillOwn DEF PatchRefused, hostVars
  <1>4. CASE PatchQueued
    <2>1. PICK j \in Free :
            /\ jobs' = [jobs EXCEPT ![j] = Job("Scheduled", "BIOSConfiguration",
                            staged \union {"mine"}, request.apply = "auto-boot")]
            /\ \/ ~request.async /\ Watch(j, "patched")
               \/ (request.async \/ "lost" \in Faults) /\ Raise /\ UNCHANGED watched
      BY <1>4 DEF PatchQueued
    <2>2. UNCHANGED <<applied, interrupted>>
      BY <1>4 DEF PatchQueued
    <2>3. /\ jobs \in QueueType
          /\ "BIOSConfiguration" \in JobKinds
          /\ staged \union {"mine"} \in SUBSET Authors
          /\ (request.apply = "auto-boot") \in BOOLEAN
      BY DEF OwnInv, IInv, TypeOK, HostTypeOK, QueueType, JobKinds, Authors
    <2>4. JobFrame /\ j \in JobIds
      BY <2>1, <2>2, <2>3, JobAdded DEF OwnInv
    <2>5. \A i \in JobIds \ {j} : jobs'[i] = jobs[i]
      BY <2>1, <2>3 DEF QueueType
    <2>6. outcome' = "raised" \/ WatchesOwn(j)'
      BY <2>1 DEF Watch, Goto, Raise, WatchesOwn
    <2>7. MineOK'
      BY <1>0, <1>1, <2>4, <2>5, <2>6, MineKept DEF WatchesOwn
    <2>8. QED
      BY <1>0, <1>1, <2>2, <2>4, <2>7, InterruptedKept DEF OwnInv
  <1>5. QED
    BY <1>2, <1>3, <1>4 DEF Patch

\* OwnInv is kept by job_apply's POST: the job that takes the change is watched.
LEMMA PostOwn == OwnInv /\ Post /\ Sends => OwnInv'
  <1> SUFFICES ASSUME OwnInv, Post, Sends PROVE OwnInv'
    OBVIOUS
  <1>1. IInv' /\ pc = "post"
    BY PostInv DEF OwnInv, Post
  <1>0. UNCHANGED cut
    BY DEF Post
  <1>2. CASE PostRefused
    BY <1>0, <1>1, <1>2, StillOwn DEF PostRefused, hostVars
  <1>3. CASE PostQueued
    <2>1. PICK j \in Free :
            /\ jobs' = [jobs EXCEPT ![j] = Job("Scheduled", "BIOSConfiguration", PostTakes, TRUE)]
            /\ staged' = staged \ PostTakes
            /\ \/ ~apply.async /\ Watch(j, "posted")
               \/ (apply.async \/ "lost" \in Faults) /\ Raise /\ UNCHANGED watched
      BY <1>3 DEF PostQueued
    <2>2. UNCHANGED <<applied, interrupted>>
      BY <1>3 DEF PostQueued
    <2>3. /\ jobs \in QueueType
          /\ "BIOSConfiguration" \in JobKinds
          /\ PostTakes \in SUBSET Authors
      BY DEF OwnInv, IInv, TypeOK, HostTypeOK, QueueType, JobKinds, PostTakes
    <2>4. JobFrame /\ j \in JobIds
      BY <2>1, <2>2, <2>3, JobAdded DEF OwnInv
    <2>5. \A i \in JobIds \ {j} : jobs'[i] = jobs[i]
      BY <2>1, <2>3 DEF QueueType
    <2>6. outcome' = "raised" \/ WatchesOwn(j)'
      BY <2>1 DEF Watch, Goto, Raise, WatchesOwn
    <2>7. MineOK'
      BY <1>0, <1>1, <2>4, <2>5, <2>6, MineKept DEF WatchesOwn
    <2>8. QED
      BY <1>0, <1>1, <2>2, <2>4, <2>7, InterruptedKept DEF OwnInv
  <1>4. QED
    BY <1>2, <1>3 DEF Post

\* OwnInv is kept by the reset: it interrupts no job of the change.
LEMMA ResetOwn == OwnInv /\ Reset /\ Sends => OwnInv'
  <1> SUFFICES ASSUME OwnInv, Reset, Sends PROVE OwnInv'
    OBVIOUS
  <1>1. IInv' /\ pc = "reset"
    BY ResetInv DEF OwnInv, Reset
  <1>0. UNCHANGED cut
    BY DEF Reset
  <1>2. CASE ResetUnreachable \/ ResetRefused
    BY <1>0, <1>1, <1>2, StillOwn DEF ResetUnreachable, ResetRefused, hostVars
  <1>3. CASE ResetDone
    <2>1. /\ JobFrame
          /\ \A j \in JobIds : jobs'[j].holds = jobs[j].holds
      BY <1>3, StartedJobs
         DEF ResetDone, ResetBy, OwnInv, IInv, TypeOK, JobsOK, HostTypeOK, JobFrame, Finished
    <2>2. interrupted' = interrupted \union {j \in JobIds : jobs[j].state = "Running"}
      BY <1>3 DEF ResetDone, ResetBy
    <2>3. MineOK'
      BY <1>0, <1>1, <2>1, MineKept DEF WatchesOwn
    <2>4. QED
      BY <1>0, <1>1, <2>1, <2>2, <2>3, InterruptedByReset DEF OwnInv
  <1>4. CASE ResetTasked
    <2>1. PICK j \in Free :
            /\ jobs' = [Started EXCEPT ![j] = Job("Running", "RebootNoForce", {}, FALSE)]
            /\ Watch(j, "reset_done")
      BY <1>4 DEF ResetTasked
    <2>2. /\ interrupted' = interrupted \union {i \in JobIds : jobs[i].state = "Running"}
          /\ UNCHANGED applied
      BY <1>4 DEF ResetTasked
    <2>3. Started \in QueueType /\ "RebootNoForce" \in JobKinds /\ {} \in SUBSET Authors
      BY StartedJobs DEF OwnInv, IInv, TypeOK, QueueType, JobKinds
    <2>4. JobFrame /\ j \in JobIds /\ jobs'[j].holds = {}
      BY <2>1, <2>2, <2>3, JobAdded DEF OwnInv
    <2>5. \A i \in JobIds \ {j} : jobs'[i].holds = jobs[i].holds
      <3>1. \A i \in JobIds \ {j} : jobs'[i] = Started[i]
        BY <2>1, <2>3 DEF QueueType
      <3>2. QED
        BY <3>1, StartedJobs DEF OwnInv, IInv, TypeOK
    <2>6. MineOK'
      BY <1>0, <1>1, <2>4, <2>5, MineKept DEF WatchesOwn
    <2>7. QED
      BY <1>0, <1>1, <2>2, <2>4, <2>6, InterruptedByReset DEF OwnInv
  <1>5. QED
    BY <1>2, <1>3, <1>4 DEF Reset

\* OwnInv is kept when a watch ends: with its job, early, or by an exception.
LEMMA WatchEndsOwn == OwnInv /\ WatchEnds /\ Sends => OwnInv'
  <1> SUFFICES ASSUME OwnInv, WatchEnds, Sends PROVE OwnInv'
    OBVIOUS
  <1>1. IInv' /\ pc = "watch" /\ UNCHANGED <<jobs, applied, interrupted>>
    BY WatchEndsInv DEF OwnInv, WatchEnds, hostVars
  <1>2. JobFrame
    BY <1>1, JobFrameStill DEF OwnInv
  <1>3. watched.job \in JobIds /\ jobs[watched.job].state \in QueuedStates
    BY <1>1 DEF OwnInv, IInv, ReturnsOK, TypeOK, HostTypeOK
  <1>4. /\ cut \subseteq cut'
        /\ \/ jobs[watched.job].state \in Finished
           \/ watched.job \in cut'
           \/ outcome' = "raised"
    BY <1>3, Answers DEF WatchEnds, Raise
  <1>5. MineOK'
    BY <1>1, <1>2, <1>4, MineKept DEF WatchesOwn
  <1>6. QED
    BY <1>1, <1>2, <1>4, <1>5, InterruptedKept DEF OwnInv

\* OwnInv is kept by every step.
LEMMA NextOwn == OwnInv /\ [Next]_vars => OwnInv'
  <1> SUFFICES ASSUME OwnInv, [Next]_vars PROVE OwnInv'
    OBVIOUS
  <1>0. IInv'
    BY NextInv DEF OwnInv
  <1>1. CASE Prepare \/ CommitFirst \/ QueryPending \/ Patched \/ Settle \/ Last
    <2>1. /\ UNCHANGED hostVars /\ UNCHANGED cut
          /\ pc \in {"prepare", "commit_first", "pending", "patched", "settle", "last"}
      BY <1>1 DEF Prepare, CommitFirst, QueryPending, Patched, Settle, Last, Calm
    <2>2. QED
      BY <1>0, <2>1, StillOwn DEF hostVars
  <1>2. CASE Callee
    <2>1. ApplyStep /\ Sends
      BY <1>2 DEF Callee, Sends
    <2>2. CASE QueryJobs \/ NextJob \/ Rebooted \/ ReadPower \/ ResetReturns \/ Posted
      <3>1. /\ UNCHANGED hostVars /\ UNCHANGED cut
            /\ pc \in {"jobs", "each", "rebooted", "chassis", "reset_done", "posted"}
        BY <2>2 DEF QueryJobs, NextJob, Rebooted, ReadPower, ResetReturns, Posted
      <3>2. QED
        BY <1>0, <3>1, StillOwn DEF hostVars
    <2>3. QED
      BY <2>1, <2>2, ResetOwn, PostOwn, WatchEndsOwn DEF ApplyStep
  <1>3. CASE UNCHANGED vars
    <2>1. UNCHANGED <<jobs, interrupted, pc, watched, outcome, cut>>
      BY <1>3 DEF vars, jobApplyVars, hostVars, applyVars
    <2>2. QED
      BY <1>0, <2>1 DEF OwnInv, MineOK, InterruptedOK, WatchesOwn, Final
  <1>4. QED
    BY <1>1, <1>2, <1>3, PatchOwn, OutsideOwn DEF Next, ChangeStep

\* OwnInv always holds.
LEMMA OwnInvariance == Spec => []OwnInv
  BY InitOwn, NextOwn, PTL DEF Spec

\* OwnJobNotInterrupted: a settings command resets the host under a job of its
\* change only if fetch_task has returned from the watch of that job early,
\* whatever was refused, lost or reset by others.
THEOREM OwnJobSafe == Spec => []OwnJobNotInterrupted
  <1>1. OwnInv => OwnJobNotInterrupted
    BY DEF OwnInv, InterruptedOK, OwnJobNotInterrupted
  <1>2. QED
    BY OwnInvariance, <1>1, PTL

\* ChangeJobEnded: a settings command that returns leaves a job that holds its
\* change unfinished only if fetch_task has returned from the watch of it early,
\* and reports no end the job has not come to.
THEOREM Ended == Spec => []ChangeJobEnded
  <1>1. OwnInv => ChangeJobEnded
    <2> SUFFICES ASSUME OwnInv, outcome = "returned"
                 PROVE  /\ \A j \in JobIds :
                              "mine" \in jobs[j].holds => jobs[j].state \in Finished \/ j \in cut
                        /\ result.state \in Finished => jobs[result.job].state = result.state
      BY DEF ChangeJobEnded
    <2>1. pc = "done"
      BY DEF OwnInv, IInv, ReturnsOK
    <2>2. QED
      BY <2>1 DEF OwnInv, IInv, JobsOK, MineOK, WatchesOwn, Final
  <1>2. QED
    BY OwnInvariance, <1>1, PTL
-----------------------------------------------------------------------------
(* The settings of others that the command was shown stay out of its change. *)

\* All that others have staged came after the command has last looked or
\* committed, or was not shown to it.
Seen == staged \ {"mine"} \subseteq unseen

\* The calls that look at, or commit, what is staged before the PATCH.
Careful ==
    \/ request.command = "bios-change" /\ ~request.commit_pending
    \/ request.commit_pending /\ request.command # "boot-source-update"

\* The commit that was to come first has been refused.
NotCommitted == refused /\ request.commit_pending

\* What is staged when the PATCH comes, and on the ways to it: only a call with
\* commit_pending comes to the PATCH from a job_apply, which has taken the lot.
ApartOK ==
    /\ request.command = "bios-change" => pc # "commit_first"
    /\ apply.back = "patch" => request.commit_pending
    /\ pc = "posted" \/ (pc = "watch" /\ watched.back = "posted") => Seen
    /\ pc = "patch" /\ Careful => Seen \/ NotCommitted
    /\ Careful => joined = {} \/ NotCommitted

ApartInv == IInv /\ ApartOK

\* ApartInv holds when a command begins.
LEMMA InitApart == Init => ApartInv
  BY InitInv DEF ApartInv, ApartOK, Init

\* ApartInv is kept by what happens outside of the command.
LEMMA OutsideApart == ApartInv /\ Outside => ApartInv'
  <1> SUFFICES ASSUME ApartInv, Outside PROVE ApartInv'
    OBVIOUS
  <1>1. IInv' /\ UNCHANGED applyVars /\ UNCHANGED <<request, sent, joined, refused>>
    BY OutsideInv DEF ApartInv, Outside
  <1>2. Seen => Seen'
    BY DEF Seen, Outside
  <1>3. QED
    BY <1>1, <1>2 DEF ApartInv, ApartOK, Careful, NotCommitted, applyVars

\* ApartInv is kept by the steps of the command up to the PATCH.
LEMMA BeforeApart ==
    ApartInv /\ (Prepare \/ CommitFirst \/ QueryPending) => ApartInv'
  <1> SUFFICES ASSUME ApartInv, Prepare \/ CommitFirst \/ QueryPending
               PROVE  ApartInv'
    OBVIOUS
  <1>1. IInv' /\ request \in RequestType
    BY PrepareInv, CommitFirstInv, QueryPendingInv DEF ApartInv, IInv, TypeOK
  <1>2. UNCHANGED <<staged, joined, refused, request>>
    BY DEF Prepare, CommitFirst, QueryPending, Calm, hostVars, ownVars
  <1>3. CASE Prepare
    BY <1>1, <1>2, <1>3
       DEF Prepare, Goto, Return, Raise, Calm, ApartInv, ApartOK, Careful, NotCommitted,
           RequestType, Arguments
  <1>4. CASE CommitFirst
    BY <1>1, <1>2, <1>4, CallParts
       DEF CommitFirst, CallJobApply, Goto, ApartInv, ApartOK, Careful, NotCommitted
  <1>5. CASE QueryPending
    <2>1. PICK seen \in PendingSeen :
            /\ \/ seen = {} /\ Goto("patch") /\ UNCHANGED apply
               \/ seen # {} /\ request.commit_pending /\ CallJobApply("patch")
               \/ seen # {} /\ ~request.commit_pending /\ Raise /\ UNCHANGED apply
            /\ unseen' = staged \ seen
      BY <1>5 DEF QueryPending
    <2>2. seen = {} => Seen'
      BY <1>2, <2>1 DEF Seen
    <2>3. QED
      BY <1>1, <1>2, <2>1, <2>2, CallParts
         DEF CallJobApply, Goto, Raise, ApartInv, ApartOK, Careful, NotCommitted
  <1>6. QED
    BY <1>3, <1>4, <1>5

\* ApartInv is kept by the PATCH and by what follows it.
LEMMA AfterApart ==
    ApartInv /\ (Patch \/ Patched \/ Settle \/ Last) => ApartInv'
  <1> SUFFICES ASSUME ApartInv, Patch \/ Patched \/ Settle \/ Last
               PROVE  ApartInv'
    OBVIOUS
  <1>1. IInv'
    BY PatchInv, PatchedInv, SettleInv, LastInv DEF ApartInv
  <1>2. CASE Patch
    <2>1. /\ pc = "patch"
          /\ joined' = staged \ ({"mine"} \union unseen)
          /\ UNCHANGED <<apply, request, refused>>
      BY <1>2 DEF Patch
    <2>2. \/ pc' \in {"settle", "done"}
          \/ /\ pc' = "watch"
             /\ \E j \in Free : watched' = [job |-> j, back |-> "patched", state |-> "None"]
      BY <1>2 DEF Patch, PatchStaged, PatchQueued, PatchRefused, Raise, Watch, Goto
    <2>3. Seen => joined' = {}
      BY <2>1 DEF Seen
    <2>4. QED
      BY <1>1, <2>1, <2>2, <2>3 DEF ApartInv, ApartOK, Careful, NotCommitted
  <1>3. CASE Patched \/ Settle \/ Last
    BY <1>1, <1>3, CallParts
       DEF Patched, Settle, Last, CallJobApply, Goto, Return, Calm, hostVars, ownVars,
           ApartInv, ApartOK, Careful, NotCommitted
  <1>4. QED
    BY <1>2, <1>3

\* ApartInv is kept by job_apply and by the reboot.
LEMMA CalleeApart == ApartInv /\ Callee => ApartInv'
  <1> SUFFICES ASSUME ApartInv, Callee PROVE ApartInv'
    OBVIOUS
  <1>1. /\ ApplyStep /\ Sends
        /\ UNCHANGED <<request, joined>>
        /\ unseen' = unseen \intersect staged'
        /\ refused => refused'
    BY DEF Callee, Sends
  <1>2. IInv'
    BY <1>1, QueryJobsInv, NextJobInv, RebootedInv, ReadPowerInv, ResetInv, ResetReturnsInv,
       PostInv, PostedInv, WatchEndsInv DEF ApplyStep, ApartInv
  <1>3. ASSUME UNCHANGED <<staged, apply>>,
               pc' \notin {"commit_first", "patch", "posted"},
               pc' = "watch" => watched'.back # "posted"
        PROVE  ApartInv'
    BY <1>1, <1>2, <1>3 DEF ApartInv, ApartOK, Careful, NotCommitted
  <1>4. /\ boot \in {"rebooted", "done"}
        /\ watched.back \in {"each", "reset_done", "posted", "patched", "done"}
        /\ apply.back \in {"done", "patch", "last"}
    BY WatchParts, ReturnParts DEF ApartInv, IInv, TypeOK
  <1>5. CASE QueryJobs \/ NextJob \/ Rebooted \/ ReadPower \/ ResetReturns
    BY <1>3, <1>4, <1>5
       DEF QueryJobs, NextJob, Rebooted, ReadPower, ResetReturns, ReturnFromReboot,
           Return, Raise, Goto, Watch, hostVars
  <1>6. CASE Reset
    <2>1. UNCHANGED <<staged, apply>>
      BY <1>6
         DEF Reset, ResetUnreachable, ResetDone, ResetTasked, ResetRefused, ResetBy, hostVars
    <2>2. CASE ResetTasked
      BY <1>3, <2>1, <2>2 DEF ResetTasked, Watch, Goto
    <2>3. CASE ResetUnreachable \/ ResetDone \/ ResetRefused
      <3>1. Raise \/ ReturnFromReboot \/ Goto("reset_done")
        BY <2>3 DEF ResetUnreachable, ResetDone, ResetRefused
      <3>2. pc' \in {"done", "rebooted", "reset_done"}
        BY <1>4, <3>1 DEF ReturnFromReboot, Return, Raise, Goto
      <3>3. QED
        BY <1>3, <2>1, <3>2
    <2>4. QED
      BY <1>6, <2>2, <2>3 DEF Reset
  <1>7. CASE WatchEnds
    <2>1. UNCHANGED <<staged, apply>> /\ pc = "watch"
      BY <1>7 DEF WatchEnds, hostVars
    <2>2. Seen => Seen'
      BY <1>1, <2>1 DEF Seen
    <2>3. CASE Raise
      BY <1>3, <2>1, <2>3 DEF Raise
    <2>4. CASE pc' = watched.back
      BY <1>1, <1>2, <1>4, <2>1, <2>2, <2>4 DEF ApartInv, ApartOK, Careful, NotCommitted
    <2>5. QED
      BY <1>7, <2>3, <2>4 DEF WatchEnds, Goto
  <1>8. CASE Posted
    <2>1. UNCHANGED <<staged, apply, watched>> /\ pc = "posted"
      BY <1>8 DEF Posted, hostVars
    <2>2. Seen'
      BY <1>1, <2>1 DEF Seen, ApartInv, ApartOK
    <2>3. pc' \in {"done", "patch", "last"}
      BY <1>4, <1>8 DEF Posted, ReturnFromApply, Return, Goto
    <2>4. QED
      BY <1>1, <1>2, <2>1, <2>2, <2>3 DEF ApartInv, ApartOK, Careful, NotCommitted
  <1>9. CASE Post
    <2>1. /\ apply.setting = "bios" /\ apply.async = FALSE
          /\ UNCHANGED apply /\ pc = "post"
      BY <1>9 DEF Post, ApartInv, IInv, TypeOK, ArgumentsType
    <2>2. CASE PostQueued
      <3>1. staged' = {}
        BY <2>1, <2>2 DEF PostQueued, PostTakes
      <3>2. pc' \in {"watch", "done"} /\ Seen'
        BY <2>2, <3>1 DEF PostQueued, Watch, Raise, Goto, Seen
      <3>3. QED
        BY <1>1, <1>2, <2>1, <3>2 DEF ApartInv, ApartOK, Careful, NotCommitted
    <2>3. CASE PostRefused
      <3>1. pc' \in {"done", "last"} \/ (pc' = "patch" /\ pc' = apply.back)
        BY <1>4, <2>1, <2>3
           DEF PostRefused, ReturnFromApply, Return, Raise, Goto
      <3>2. pc' = "patch" => refused' /\ request.commit_pending
        BY <1>1, <2>1, <3>1 DEF Sends, ApartInv, ApartOK
      <3>3. QED
        BY <1>1, <1>2, <2>1, <3>1, <3>2 DEF ApartInv, ApartOK, Careful, NotCommitted
    <2>4. QED
      BY <1>9, <2>2, <2>3 DEF Post
  <1>10. QED
    BY <1>1, <1>5, <1>6, <1>7, <1>8, <1>9 DEF ApplyStep

\* ApartInv is kept by every step.
LEMMA NextApart == ApartInv /\ [Next]_vars => ApartInv'
  <1> SUFFICES ASSUME ApartInv, [Next]_vars PROVE ApartInv'
    OBVIOUS
  <1>1. CASE UNCHANGED vars
    BY <1>1, NextInv
       DEF vars, jobApplyVars, hostVars, applyVars, ownVars, ApartInv, ApartOK, Careful,
           NotCommitted, Seen
  <1>2. QED
    BY <1>1, OutsideApart, BeforeApart, AfterApart, CalleeApart DEF Next, ChangeStep

\* ApartInv always holds.
LEMMA ApartInvariance == Spec => []ApartInv
  BY InitApart, NextApart, PTL DEF Spec

\* OthersNotMixedIn: bios-change never changes on top of settings of others that
\* its query has shown, unless it was told to commit them; who else stages, and
\* when, and what fails, makes no difference.
THEOREM OthersApart == Spec => []OthersNotMixedIn
  <1>1. ApartInv => OthersNotMixedIn
    BY DEF ApartInv, ApartOK, Careful, NotCommitted, OthersNotMixedIn
  <1>2. QED
    BY ApartInvariance, <1>1, PTL

\* PendingCommittedFirst: with commit_pending the PATCH comes on top of settings
\* of others that were there to be committed only if the controller has refused
\* the commit.  boot-source-update ignores the flag.
THEOREM CommittedFirst == Spec => []PendingCommittedFirst
  <1>1. ApartInv => PendingCommittedFirst
    BY DEF ApartInv, ApartOK, Careful, NotCommitted, PendingCommittedFirst
  <1>2. QED
    BY ApartInvariance, <1>1, PTL
-----------------------------------------------------------------------------
(* job-apply as a command of its own *)

\* The job that job-apply has posted is under watch, or the watch was given up.
PostedWatched(j) ==
    /\ watched.back = "posted" /\ watched.job = j
    /\ pc = "watch" \/ (pc = "posted" /\ j \in cut /\ watched.state \notin Finished)

\* The command has returned, and named the job as unfinished.
NamedUnfinished(j) ==
    outcome = "returned" /\ j \in cut /\ result.job = j /\ result.state \notin Finished

\* A job the controller reboots for.
PostedOK ==
    \A j \in JobIds :
        jobs[j].auto =>
            Final(j) \/ outcome = "raised" \/ PostedWatched(j) \/ NamedUnfinished(j)

\* An end that was seen or is reported is the end of the job.
SeenOK ==
    /\ watched.state \in Finished =>
           watched.job \in JobIds /\ jobs[watched.job].state = watched.state
    /\ result.state \in Finished =>
           result.job \in JobIds /\ jobs[result.job].state = result.state

\* Where the command is, and what it watches there.
PlaceOK ==
    /\ pc = "rebooted" \/ boot = "rebooted" => current \in JobIds
    /\ pc = "watch" => watched.job \in JobIds /\ watched.back # "done"
    /\ pc = "posted" => watched.job \in JobIds /\ watched.back = "posted"
    /\ pc # "done" => outcome = "none"

ApplyInv == ApplyTypeOK /\ PostedOK /\ SeenOK /\ PlaceOK

\* What every step keeps of the queue: a finished job does not change, and no
\* job becomes one the controller reboots for.
Frozen ==
    \A j \in JobIds :
        /\ Final(j) => jobs'[j].state = jobs[j].state
        /\ jobs'[j].auto => jobs[j].auto

ApplyWatch == [job : JobIds \union {NoId}, back : {"each", "reset_done", "posted", "done"},
               state : AnswerStates]
ApplyResult == [verdict : Verdicts \union {"none"}, job : JobIds \union {NoId},
                state : AnswerStates]

\* The parts of the records of a job-apply that is well typed.
LEMMA ApplyParts ==
    ASSUME ApplyTypeOK
    PROVE  /\ HostTypeOK /\ jobs \in QueueType
           /\ apply.back = "done"
           /\ watched \in ApplyWatch
           /\ watched.job \in JobIds \union {NoId}
           /\ watched.back \in {"each", "reset_done", "posted", "done"}
           /\ result \in ApplyResult
           /\ result.job \in JobIds \union {NoId}
           /\ boot \in {"rebooted", "done"}
  BY DEF ApplyTypeOK, ApplyArgs, HostTypeOK, QueueType, ApplyWatch, ApplyResult

\* A watch that begins, with its parts.
LEMMA ApplyWatchIn ==
    ASSUME NEW id \in JobIds \union {NoId},
           NEW back \in {"each", "reset_done", "posted"}
    PROVE  /\ [job |-> id, back |-> back, state |-> "None"] \in ApplyWatch
           /\ [job |-> id, back |-> back, state |-> "None"].job = id
           /\ [job |-> id, back |-> back, state |-> "None"].back = back
           /\ [job |-> id, back |-> back, state |-> "None"].state \notin Finished
  BY DEF ApplyWatch, AnswerStates, QueuedStates, Finished

\* The answer of a watch is noted with the job.
LEMMA ApplyAnswered ==
    ASSUME NEW w \in ApplyWatch, NEW s \in AnswerStates
    PROVE  /\ [w EXCEPT !.state = s] \in ApplyWatch
           /\ [w EXCEPT !.state = s].job = w.job
           /\ [w EXCEPT !.state = s].back = w.back
           /\ [w EXCEPT !.state = s].state = s
  BY DEF ApplyWatch

\* ApplyInv holds when the command begins.
LEMMA InitApply == ApplyInit => ApplyInv
  <1> SUFFICES ASSUME ApplyInit PROVE ApplyInv
    OBVIOUS
  <1>. USE JobApplyAssumption
  <1>1. PICK S \in InitialScheduled : \E k \in [S -> {"BIOSConfiguration", "FirmwareUpdate"}] :
            jobs = [j \in JobIds |-> IF j \in S THEN Job("Scheduled", k[j], {"other"}, FALSE)
                                     ELSE NoJob]
    BY DEF ApplyInit, HostInit
  <1>2. HostTypeOK
    BY <1>1 DEF ApplyInit, HostInit, HostTypeOK, Job, NoJob, QueuedStates, JobKinds, Authors
  <1>3. ApplyTypeOK
    BY <1>2 DEF ApplyInit, ApplyTypeOK, ApplyArgs, NoResult, Verdicts, AnswerStates, QueuedStates
  <1>4. PostedOK
    BY <1>1 DEF PostedOK, Job, NoJob
  <1>5. SeenOK /\ PlaceOK
    BY DEF ApplyInit, SeenOK, PlaceOK, NoResult, Finished
  <1>6. QED
    BY <1>3, <1>4, <1>5 DEF ApplyInv

\* A step that keeps the queue Frozen, begins or ends no watch and reports
\* nothing of a job keeps what is known of the jobs.
LEMMA PostedKept ==
    ASSUME ApplyInv, Frozen, UNCHANGED cut,
           watched' = watched \/ watched'.state \notin Finished,
           UNCHANGED result \/ result'.state \notin Finished,
           \/ pc \notin {"watch", "posted", "done"}
           \/ outcome' = "raised"
           \/ UNCHANGED <<pc, watched, outcome, result>>
    PROVE  PostedOK' /\ SeenOK'
  <1>1. result.job \in JobIds \union {NoId} /\ watched.job \in JobIds \union {NoId}
    BY ApplyParts DEF ApplyInv
  <1>2. SeenOK'
    BY <1>1 DEF ApplyInv, SeenOK, Frozen, Final
  <1>3. PostedOK'
    <2> SUFFICES ASSUME NEW j \in JobIds, jobs'[j].auto
                 PROVE  \/ jobs'[j].state \in Finished \/ outcome' = "raised"
                        \/ PostedWatched(j)' \/ NamedUnfinished(j)'
      BY DEF PostedOK, Final
    <2>1. Final(j) \/ outcome = "raised" \/ PostedWatched(j) \/ NamedUnfinished(j)
      BY DEF ApplyInv, PostedOK, Frozen
    <2>2. Final(j) => jobs'[j].state \in Finished
      BY DEF Frozen, Final
    <2>3. pc \notin {"watch", "posted", "done"} => Final(j)
      BY <2>1 DEF ApplyInv, PlaceOK, PostedWatched, NamedUnfinished
    <2>4. QED
      BY <2>1, <2>2, <2>3 DEF PostedWatched, NamedUnfinished
  <1>4. QED
    BY <1>2, <1>3

\* A job added to the queue, before or after a reset has started others.
LEMMA ApplyAdded ==
    ASSUME ApplyTypeOK, NEW j \in Free, NEW queue \in QueueType,
           queue = jobs \/ queue = Started,
           NEW state \in {"Scheduled", "Running"}, NEW kind \in JobKinds,
           NEW holds \in SUBSET Authors, NEW auto \in BOOLEAN,
           jobs' = [queue EXCEPT ![j] = Job(state, kind, holds, auto)]
    PROVE  /\ jobs' \in QueueType /\ j \in JobIds
           /\ jobs[j].state = "None"
           /\ jobs'[j].auto = auto
           /\ \A i \in JobIds \ {j} : /\ Final(i) => jobs'[i].state = jobs[i].state
                                      /\ jobs'[i].auto = jobs[i].auto
  <1>1. j \in JobIds /\ jobs[j].state = "None"
    BY DEF Free
  <1>2. jobs' \in QueueType
    BY <1>1, JobType DEF QueueType, QueuedStates
  <1>3. \A i \in JobIds \ {j} : jobs'[i] = queue[i]
    BY <1>1 DEF QueueType
  <1>4. \A i \in JobIds : Final(i) => queue[i].state = jobs[i].state
    BY ApplyParts, StartedJobs DEF Final, Finished
  <1>5. \A i \in JobIds : queue[i].auto = jobs[i].auto
    BY ApplyParts DEF Started, HostTypeOK, QueuedStates
  <1>6. jobs'[j].auto = auto
    BY <1>1 DEF QueueType, Job
  <1>7. QED
    BY <1>1, <1>2, <1>3, <1>4, <1>5, <1>6

\* A reset, or power coming back, freezes what is finished.
LEMMA StartedFrozen ==
    ASSUME ApplyTypeOK, jobs' = Started
    PROVE  Frozen
  BY ApplyParts, StartedJobs DEF Started, QueueType, Frozen, Final, Finished

\* ApplyInv is kept by what happens outside of the command.
LEMMA HostApply == ApplyInv /\ HostStep /\ UNCHANGED applyVars => ApplyInv'
  <1> SUFFICES ASSUME ApplyInv, HostStep, UNCHANGED applyVars PROVE ApplyInv'
    OBVIOUS
  <1>1. ApplyTypeOK /\ HostTypeOK /\ jobs \in QueueType
    BY ApplyParts DEF ApplyInv
  <1>2. ASSUME NEW who \in {"client", "controller", "operator"}, ResetBy(who)
        PROVE  HostTypeOK' /\ Frozen
    BY <1>1, <1>2, StartedJobs, StartedFrozen DEF ResetBy, HostTypeOK
  <1>3. HostTypeOK' /\ Frozen
    <2>1. CASE JobEnds
      <3>1. PICK j \in JobIds :
              /\ jobs[j].state = "Running"
              /\ \/ /\ jobs' = [jobs EXCEPT ![j].state = "Completed"]
                    /\ applied' = applied \union jobs[j].holds
                 \/ /\ jobs' = [jobs EXCEPT ![j].state = "Failed"]
                    /\ UNCHANGED applied
        BY <2>1 DEF JobEnds
      <3>2. HostTypeOK'
        BY <1>1, <2>1, <3>1 DEF JobEnds, HostTypeOK, QueuedStates
      <3>3. Frozen
        BY <1>1, <3>1 DEF QueueType, Frozen, Final, Finished
      <3>4. QED
        BY <3>2, <3>3
    <2>2. CASE JobIsDue
      BY <1>2, <2>2 DEF JobIsDue
    <2>3. CASE OperatorActs
      <3>1. CASE OperatorResets /\ ResetBy("operator")
        BY <1>2, <3>1
      <3>2. CASE /\ power' = IF power = "on" THEN "off" ELSE "on"
                 /\ jobs' = IF power = "off" THEN Started ELSE jobs
                 /\ UNCHANGED <<staged, applied, interrupted>>
        <4>1. HostTypeOK'
          BY <1>1, <3>2, StartedJobs DEF HostTypeOK
        <4>2. jobs' = Started \/ jobs' = jobs
          BY <3>2
        <4>3. QED
          BY <1>1, <4>1, <4>2, StartedFrozen DEF Frozen
      <3>3. CASE /\ staged' = staged \union {"other"}
                 /\ UNCHANGED <<power, jobs, applied, interrupted>>
        BY <1>1, <3>3 DEF HostTypeOK, Authors, Frozen
      <3>4. QED
        BY <2>3, <3>1, <3>2, <3>3 DEF OperatorActs
    <2>4. QED
      BY <2>1, <2>2, <2>3 DEF HostStep
  <1>4. ApplyTypeOK'
    BY <1>3 DEF ApplyInv, ApplyTypeOK, applyVars
  <1>5. PostedOK' /\ SeenOK'
    BY <1>3, PostedKept DEF applyVars
  <1>6. PlaceOK'
    BY DEF ApplyInv, PlaceOK, applyVars
  <1>7. QED
    BY <1>4, <1>5, <1>6 DEF ApplyInv

\* ApplyInv is kept by the steps that leave the controller alone.
LEMMA LoopApply ==
    ApplyInv /\ (QueryJobs \/ NextJob \/ Rebooted \/ ReadPower \/ ResetReturns) => ApplyInv'
  <1> SUFFICES ASSUME ApplyInv, QueryJobs \/ NextJob \/ Rebooted \/ ReadPower \/ ResetReturns
               PROVE  ApplyInv'
    OBVIOUS
  <1>1. /\ UNCHANGED <<hostVars, compute_reset, apply, cut>>
        /\ pc \notin {"watch", "posted", "done"}
        /\ outcome = "none"
    BY DEF QueryJobs, NextJob, Rebooted, ReadPower, ResetReturns, ApplyInv, PlaceOK
  <1>2. HostTypeOK' /\ Frozen
    BY <1>1 DEF ApplyInv, ApplyTypeOK, HostTypeOK, hostVars, Frozen
  <1>3. boot \in {"rebooted", "done"}
    BY ApplyParts DEF ApplyInv
  <1>4. CASE QueryJobs \/ NextJob \/ ReadPower \/ ResetReturns
    <2>. USE <1>4 DEF QueryJobs, NextJob, ReadPower, ResetReturns, ReturnFromReboot,
                      Return, Raise, Goto
    <2>1. ApplyTypeOK'
      BY <1>1, <1>2, <1>3 DEF ApplyInv, ApplyTypeOK
    <2>2. UNCHANGED <<watched, result>>
      OBVIOUS
    <2>3. PostedOK' /\ SeenOK'
      BY <1>1, <1>2, <2>2, PostedKept
    <2>4. PlaceOK'
      <3>1. CASE NextJob
        BY <1>1, <3>1 DEF ApplyInv, ApplyTypeOK, PlaceOK
      <3>2. CASE QueryJobs \/ ReadPower \/ ResetReturns
        BY <1>1, <1>3, <3>2 DEF ApplyInv, PlaceOK
      <3>3. QED
        BY <3>1, <3>2
    <2>5. QED
      BY <2>1, <2>3, <2>4 DEF ApplyInv
  <1>5. CASE Rebooted
    <2>0. pc = "rebooted" /\ current \in JobIds /\ UNCHANGED <<result, boot, todo, current>>
      BY <1>5 DEF Rebooted, Watch, Goto, Raise, ApplyInv, PlaceOK
    <2>1. CASE Watch(current, "each")
      <3>1. /\ watched' \in ApplyWatch /\ watched'.job = current
            /\ watched'.back = "each" /\ watched'.state \notin Finished
        BY <2>0, <2>1, ApplyWatchIn DEF Watch
      <3>2. ApplyTypeOK'
        BY <1>1, <1>2, <2>0, <2>1, <3>1 DEF Watch, Goto, ApplyWatch, ApplyInv, ApplyTypeOK
      <3>3. PostedOK' /\ SeenOK'
        BY <1>1, <1>2, <2>0, <3>1, PostedKept
      <3>4. PlaceOK'
        BY <1>1, <2>0, <2>1, <3>1 DEF Watch, Goto, PlaceOK
      <3>5. QED
        BY <3>2, <3>3, <3>4 DEF ApplyInv
    <2>2. CASE (Goto("post") \/ Goto("each") \/ Raise) /\ UNCHANGED watched
      <3>1. ApplyTypeOK'
        BY <1>1, <1>2, <2>0, <2>2 DEF Goto, Raise, ApplyInv, ApplyTypeOK
      <3>2. PostedOK' /\ SeenOK'
        BY <1>1, <1>2, <2>0, <2>2, PostedKept
      <3>3. PlaceOK'
        BY <1>1, <2>0, <2>2 DEF Goto, Raise, PlaceOK
      <3>4. QED
        BY <3>1, <3>2, <3>3 DEF ApplyInv
    <2>3. QED
      BY <1>5, <2>1, <2>2 DEF Rebooted
  <1>6. QED
    BY <1>4, <1>5

\* ApplyInv is kept by the reset, whatever comes of it.
LEMMA ResetApply == ApplyInv /\ Reset => ApplyInv'
  <1> SUFFICES ASSUME ApplyInv, Reset PROVE ApplyInv'
    OBVIOUS
  <1>1. /\ pc = "reset" /\ boot \in {"rebooted", "done"} /\ outcome = "none"
        /\ UNCHANGED <<compute_reset, apply, boot, todo, current, cut>>
        /\ ApplyTypeOK /\ HostTypeOK
    BY ApplyParts DEF Reset, ApplyInv, PlaceOK
  <1>2. ASSUME UNCHANGED watched, Raise \/ ReturnFromReboot \/ Goto("reset_done"),
               HostTypeOK', Frozen
        PROVE  ApplyInv'
    <2>. USE <1>2 DEF Raise, ReturnFromReboot, Return, Goto
    <2>1. ApplyTypeOK'
      BY <1>1 DEF ApplyInv, ApplyTypeOK
    <2>2. PostedOK' /\ SeenOK'
      BY <1>1, PostedKept
    <2>3. PlaceOK'
      BY <1>1 DEF ApplyInv, PlaceOK
    <2>4. QED
      BY <2>1, <2>2, <2>3 DEF ApplyInv
  <1>3. CASE ResetUnreachable \/ ResetRefused
    <2>1. UNCHANGED hostVars /\ UNCHANGED watched /\ (Raise \/ Goto("reset_done"))
      BY <1>3 DEF ResetUnreachable, ResetRefused
    <2>2. HostTypeOK' /\ Frozen
      BY <1>1, <2>1 DEF HostTypeOK, hostVars, Frozen
    <2>3. QED
      BY <1>2, <2>1, <2>2
  <1>4. CASE ResetDone
    <2>1. HostTypeOK' /\ Frozen
      BY <1>1, <1>4, StartedJobs, StartedFrozen DEF ResetDone, ResetBy, HostTypeOK
    <2>2. UNCHANGED watched /\ (Raise \/ ReturnFromReboot)
      BY <1>4 DEF ResetDone
    <2>3. QED
      BY <1>2, <2>1, <2>2
  <1>5. CASE ResetTasked
    <2>1. PICK j \in Free :
            /\ jobs' = [Started EXCEPT ![j] = Job("Running", "RebootNoForce", {}, FALSE)]
            /\ Watch(j, "reset_done")
      BY <1>5 DEF ResetTasked
    <2>2. /\ interrupted' = interrupted \union {i \in JobIds : jobs[i].state = "Running"}
          /\ UNCHANGED <<power, staged, applied>>
      BY <1>5 DEF ResetTasked
    <2>3. Started \in QueueType /\ "RebootNoForce" \in JobKinds /\ {} \in SUBSET Authors
      BY <1>1, StartedJobs DEF QueueType, JobKinds
    <2>4. /\ jobs' \in QueueType /\ j \in JobIds
          /\ jobs[j].state = "None"
          /\ jobs'[j].auto = FALSE
          /\ \A i \in JobIds \ {j} : /\ Final(i) => jobs'[i].state = jobs[i].state
                                     /\ jobs'[i].auto = jobs[i].auto
      BY <1>1, <2>1, <2>3, ApplyAdded
    <2>5. HostTypeOK'
      BY <1>1, <2>2, <2>4 DEF HostTypeOK, QueueType
    <2>6. Frozen
      BY <2>4 DEF Frozen, Final, Finished
    <2>7. /\ watched' \in ApplyWatch /\ watched'.job = j
          /\ watched'.back = "reset_done" /\ watched'.state \notin Finished
          /\ pc' = "watch" /\ UNCHANGED <<result, outcome>>
      BY <2>1, <2>4, ApplyWatchIn DEF Watch, Goto
    <2>8. ApplyTypeOK'
      BY <1>1, <2>5, <2>7 DEF ApplyWatch, ApplyInv, ApplyTypeOK
    <2>9. PostedOK' /\ SeenOK'
      BY <1>1, <2>6, <2>7, PostedKept
    <2>10. PlaceOK'
      BY <1>1, <2>4, <2>7 DEF ApplyInv, PlaceOK
    <2>11. QED
      BY <2>8, <2>9, <2>10 DEF ApplyInv
  <1>6. QED
    BY <1>3, <1>4, <1>5 DEF Reset

\* ApplyInv is kept by the POST for the staged settings.
LEMMA PostApply == ApplyInv /\ Post => ApplyInv'
  <1> SUFFICES ASSUME ApplyInv, Post PROVE ApplyInv'
    OBVIOUS
  <1>1. /\ pc = "post" /\ apply.back = "done" /\ outcome = "none"
        /\ UNCHANGED <<compute_reset, apply, boot, todo, current, cut>>
        /\ ApplyTypeOK /\ HostTypeOK
    BY ApplyParts DEF Post, ApplyInv, PlaceOK
  <1>2. CASE PostRefused
    <2>1. UNCHANGED hostVars /\ UNCHANGED watched
          /\ (Raise \/ Return(Result("Error", NoId, "None")))
      BY <1>1, <1>2 DEF PostRefused, ReturnFromApply
    <2>2. HostTypeOK' /\ Frozen
      BY <1>1, <2>1 DEF HostTypeOK, hostVars, Frozen
    <2>3. /\ Result("Error", NoId, "None") \in ApplyResult
          /\ Result("Error", NoId, "None").state \notin Finished
      BY DEF ApplyResult, Result, Verdicts, ApiRespondToString, AnswerStates, QueuedStates,
             Finished
    <2>4. ApplyTypeOK'
      BY <1>1, <2>1, <2>2, <2>3 DEF Raise, Return, ApplyResult, ApplyInv, ApplyTypeOK
    <2>5. PostedOK' /\ SeenOK'
      BY <1>1, <2>1, <2>2, <2>3, PostedKept DEF Raise, Return
    <2>6. PlaceOK'
      BY <1>1, <2>1 DEF Raise, Return, ApplyInv, PlaceOK
    <2>7. QED
      BY <2>4, <2>5, <2>6 DEF ApplyInv
  <1>3. CASE PostQueued
    <2>1. PICK j \in Free :
            /\ jobs' = [jobs EXCEPT ![j] = Job("Scheduled", "BIOSConfiguration", PostTakes, TRUE)]
            /\ staged' = staged \ PostTakes
            /\ \/ ~apply.async /\ Watch(j, "posted")
               \/ (apply.async \/ "lost" \in Faults) /\ Raise /\ UNCHANGED watched
      BY <1>3 DEF PostQueued
    <2>2. UNCHANGED <<power, applied, interrupted>>
      BY <1>3 DEF PostQueued
    <2>3. /\ jobs \in QueueType /\ staged \subseteq Authors
          /\ PostTakes \in SUBSET Authors /\ "BIOSConfiguration" \in JobKinds
      BY <1>1 DEF HostTypeOK, QueueType, JobKinds, PostTakes
    <2>4. /\ jobs' \in QueueType /\ j \in JobIds
          /\ jobs[j].state = "None"
          /\ \A i \in JobIds \ {j} : /\ Final(i) => jobs'[i].state = jobs[i].state
                                     /\ jobs'[i].auto = jobs[i].auto
      BY <1>1, <2>1, <2>3, ApplyAdded
    <2>5. HostTypeOK'
      BY <1>1, <2>1, <2>2, <2>3, <2>4 DEF HostTypeOK, QueueType
    <2>6. \A i \in JobIds : jobs[i].auto => Final(i)
      BY <1>1 DEF ApplyInv, PostedOK, PostedWatched, NamedUnfinished
    <2>7. result.state \notin Finished \/ (result.job \in JobIds /\ Final(result.job))
      BY DEF ApplyInv, SeenOK, Final
    <2>8. CASE Watch(j, "posted")
      <3>1. /\ watched' \in ApplyWatch /\ watched'.job = j
            /\ watched'.back = "posted" /\ watched'.state \notin Finished
            /\ pc' = "watch" /\ UNCHANGED <<result, outcome>>
        BY <2>4, <2>8, ApplyWatchIn DEF Watch, Goto
      <3>2. ApplyTypeOK'
        BY <1>1, <2>5, <3>1 DEF ApplyWatch, ApplyInv, ApplyTypeOK
      <3>3. SeenOK'
        BY <2>4, <2>7, <3>1 DEF ApplyInv, SeenOK, Final, Finished
      <3>4. PostedOK'
        BY <2>4, <2>6, <3>1 DEF PostedOK, PostedWatched, Final
      <3>5. PlaceOK'
        BY <1>1, <2>4, <3>1 DEF ApplyInv, PlaceOK
      <3>6. QED
        BY <3>2, <3>3, <3>4, <3>5 DEF ApplyInv
    <2>9. CASE Raise /\ UNCHANGED watched
      <3>. USE <2>9 DEF Raise
      <3>1. ApplyTypeOK'
        BY <1>1, <2>5 DEF ApplyInv, ApplyTypeOK
      <3>2. watched.state \notin Finished \/ (watched.job \in JobIds /\ Final(watched.job))
        BY DEF ApplyInv, SeenOK, Final
      <3>3. SeenOK'
        BY <2>4, <2>7, <3>2 DEF ApplyInv, SeenOK, Final, Finished
      <3>4. PostedOK' /\ PlaceOK'
        BY <1>1 DEF PostedOK, ApplyInv, PlaceOK
      <3>5. QED
        BY <3>1, <3>3, <3>4 DEF ApplyInv
    <2>10. QED
      BY <2>1, <2>8, <2>9
  <1>4. QED
    BY <1>2, <1>3 DEF Post

\* ApplyInv is kept when a watch ends: with its job, early, or by an exception.
LEMMA WatchApply == ApplyInv /\ WatchEnds => ApplyInv'
  <1> SUFFICES ASSUME ApplyInv, WatchEnds PROVE ApplyInv'
    OBVIOUS
  <1>1. /\ UNCHANGED <<hostVars, compute_reset, apply, boot, todo, current, result>>
        /\ pc = "watch" /\ outcome = "none" /\ watched.job \in JobIds
        /\ watched \in ApplyWatch
        /\ watched.back \in {"each", "reset_done", "posted"}
        /\ jobs[watched.job].state \in QueuedStates
    BY ApplyParts DEF WatchEnds, Goto, Raise, ApplyInv, PlaceOK, QueueType
  <1>2. HostTypeOK' /\ Frozen /\ UNCHANGED jobs
    BY <1>1 DEF ApplyInv, ApplyTypeOK, HostTypeOK, hostVars, Frozen
  <1>3. CASE Raise /\ UNCHANGED <<watched, cut>>
    <2>. USE <1>3 DEF Raise
    <2>1. ApplyTypeOK'
      BY <1>1, <1>2 DEF ApplyInv, ApplyTypeOK
    <2>2. PostedOK' /\ SeenOK'
      BY <1>1, <1>2, PostedKept
    <2>3. PlaceOK'
      BY <1>1 DEF ApplyInv, PlaceOK
    <2>4. QED
      BY <2>1, <2>2, <2>3 DEF ApplyInv
  <1>4. ASSUME NEW s \in WatchAnswers(jobs[watched.job].state),
               watched' = [watched EXCEPT !.state = s],
               cut' = IF s \in Finished THEN cut ELSE cut \union {watched.job},
               Goto(watched.back)
        PROVE  ApplyInv'
    <2>. USE <1>4 DEF Goto
    <2>1. s \in AnswerStates /\ (s \in Finished => s = jobs[watched.job].state)
      BY <1>1, Answers
    <2>2. /\ watched' \in ApplyWatch /\ watched'.job = watched.job
          /\ watched'.back = watched.back /\ watched'.state = s
      BY <1>1, <2>1, ApplyAnswered
    <2>3. ApplyTypeOK'
      BY <1>1, <1>2, <2>2 DEF ApplyWatch, ApplyInv, ApplyTypeOK
    <2>4. SeenOK'
      BY <1>1, <1>2, <2>1, <2>2 DEF ApplyInv, SeenOK
    <2>5. PostedOK'
      <3> SUFFICES ASSUME NEW j \in JobIds, jobs[j].auto
                   PROVE  Final(j) \/ PostedWatched(j)'
        BY <1>2 DEF PostedOK, Final
      <3>1. Final(j) \/ (watched.back = "posted" /\ watched.job = j)
        BY <1>1 DEF ApplyInv, PostedOK, PostedWatched, NamedUnfinished
      <3>2. QED
        BY <2>1, <2>2, <3>1 DEF PostedWatched, Final
    <2>6. PlaceOK'
      BY <1>1, <2>2 DEF ApplyInv, PlaceOK
    <2>7. QED
      BY <2>3, <2>4, <2>5, <2>6 DEF ApplyInv
  <1>5. QED
    BY <1>3, <1>4 DEF WatchEnds

\* ApplyInv is kept by the return of what the watch has answered.
LEMMA PostedApply == ApplyInv /\ Posted => ApplyInv'
  <1> SUFFICES ASSUME ApplyInv, Posted PROVE ApplyInv'
    OBVIOUS
  <1>1. /\ UNCHANGED <<hostVars, compute_reset, apply, boot, todo, current, watched, cut>>
        /\ pc = "posted" /\ outcome = "none" /\ watched.job \in JobIds
        /\ watched \in ApplyWatch
        /\ Return(Result("AcceptedTaskGenerated", watched.job, watched.state))
    BY ApplyParts DEF Posted, ReturnFromApply, ApplyInv, PlaceOK
  <1>2. HostTypeOK' /\ UNCHANGED jobs
    BY <1>1 DEF ApplyInv, ApplyTypeOK, HostTypeOK, hostVars
  <1>3. /\ result' \in ApplyResult
        /\ result'.job = watched.job
        /\ result'.state = watched.state
        /\ pc' = "done" /\ outcome' = "returned"
    BY <1>1 DEF Return, Result, ApplyWatch, ApplyResult, Verdicts, ApiRespondToString
  <1>4. ApplyTypeOK'
    BY <1>1, <1>2, <1>3 DEF ApplyResult, ApplyInv, ApplyTypeOK
  <1>5. SeenOK'
    BY <1>1, <1>2, <1>3 DEF ApplyInv, SeenOK
  <1>6. PostedOK'
    <2> SUFFICES ASSUME NEW j \in JobIds, jobs[j].auto
                 PROVE  Final(j) \/ NamedUnfinished(j)'
      BY <1>2 DEF PostedOK, Final
    <2>1. Final(j) \/ (j \in cut /\ watched.job = j /\ watched.state \notin Finished)
      BY <1>1 DEF ApplyInv, PostedOK, PostedWatched, NamedUnfinished
    <2>2. QED
      BY <1>1, <1>3, <2>1 DEF NamedUnfinished
  <1>7. PlaceOK'
    BY <1>1, <1>3 DEF ApplyInv, PlaceOK
  <1>8. QED
    BY <1>4, <1>5, <1>6, <1>7 DEF ApplyInv

\* ApplyInv is kept by every step.
LEMMA NextApply == ApplyInv /\ [ApplyNext]_jobApplyVars => ApplyInv'
  <1> SUFFICES ASSUME ApplyInv, [ApplyNext]_jobApplyVars PROVE ApplyInv'
    OBVIOUS
  <1>1. CASE UNCHANGED jobApplyVars
    <2>1. ApplyTypeOK'
      BY <1>1 DEF jobApplyVars, hostVars, applyVars, ApplyInv, ApplyTypeOK, HostTypeOK
    <2>2. PostedOK' /\ SeenOK' /\ PlaceOK'
      BY <1>1 DEF jobApplyVars, hostVars, applyVars, ApplyInv, PostedOK, SeenOK, PlaceOK,
                  PostedWatched, NamedUnfinished, Final
    <2>3. QED
      BY <2>1, <2>2 DEF ApplyInv
  <1>2. QED
    BY <1>1, HostApply, LoopApply, ResetApply, PostApply, WatchApply, PostedApply
       DEF ApplyNext, ApplyStep

\* ApplyInv always holds.
LEMMA ApplyInvariance == ApplySpec => []ApplyInv
  BY InitApply, NextApply, PTL DEF ApplySpec

\* PostedJobsEnded: a job-apply that returns normally leaves a job it has posted
\* unfinished only if fetch_task has returned from its watch early, and then
\* names the job and no end of it; and an end it reports is the job's, for any
\* queue, any faults and any acts of an operator.
THEOREM PostedSeenToEnd == ApplySpec => []PostedJobsEnded
  <1>1. ApplyInv => PostedJobsEnded
    <2> SUFFICES ASSUME ApplyInv, outcome = "returned"
                 PROVE  /\ \A j \in JobIds : jobs[j].auto =>
                              \/ jobs[j].state \in Finished
                              \/ j \in cut /\ result.job = j /\ result.state \notin Finished
                        /\ result.state \in Finished => jobs[result.job].state = result.state
      BY DEF PostedJobsEnded
    <2>1. pc = "done"
      BY DEF ApplyInv, PlaceOK
    <2>2. QED
      BY <2>1 DEF ApplyInv, PostedOK, SeenOK, PostedWatched, NamedUnfinished, Final
  <1>2. QED
    BY ApplyInvariance, <1>1, PTL

\* ApplyTypeOK: every variable of job-apply and of the reboot keeps its type.
THEOREM ApplyTypeCorrect == ApplySpec => []ApplyTypeOK
  <1>1. ApplyInv => ApplyTypeOK
    BY DEF ApplyInv
  <1>2. QED
    BY ApplyInvariance, <1>1, PTL
=============================================================================
