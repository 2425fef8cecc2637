--------------------------- MODULE HostController ---------------------------
(***************************************************************************)
(* The host and its management controller as the settings commands of the  *)
(* client see them: settings staged until a configuration job takes them,  *)
(* jobs that wait for a host reset, and a host that the client, a job of   *)
(* the controller or an operator may reset.  None of this is code of the   *)
(* repository; it is modelled from how the client uses it.                 *)
(***************************************************************************)
EXTENDS FiniteSets, Naturals

CONSTANTS
    JobIds,             \* the job ids the controller can give out
    OperatorResets,     \* TRUE: somebody else may reset the host
    OperatorPowers,     \* TRUE: somebody else may switch the host on and off
    OperatorStages      \* TRUE: somebody else may stage settings

ASSUME HostControllerAssumption ==
    /\ OperatorResets \in BOOLEAN
    /\ OperatorPowers \in BOOLEAN
    /\ OperatorStages \in BOOLEAN

VARIABLES
    power,          \* on | off
    staged,         \* whose settings are staged and not yet in a job
    jobs,           \* the job queue
    applied,        \* whose settings are in force
    interrupted     \* history: jobs running when the client reset the host

hostVars == <<power, staged, jobs, applied, interrupted>>

Authors == {"mine", "other"}
JobKinds == {"BIOSConfiguration", "FirmwareUpdate", "RebootNoForce"}
QueuedStates == {"None", "Scheduled", "Running", "Completed", "Failed"}
Finished == {"Completed", "Failed"}

\* auto: the controller resets the host itself when the job is due.
Job(state, kind, holds, auto) ==
    [state |-> state, kind |-> kind, holds |-> holds, auto |-> auto]

NoJob == Job("None", "BIOSConfiguration", {}, FALSE)

Free == {j \in JobIds : jobs[j].state = "None"}

\* A reset, or power coming back, starts every scheduled job.
Started == [j \in JobIds |->
               IF jobs[j].state = "Scheduled" THEN [jobs[j] EXCEPT !.state = "Running"]
               ELSE jobs[j]]

ResetBy(who) ==
    /\ power = "on"
    /\ jobs' = Started
    /\ interrupted' =
           IF who = "client" THEN interrupted \union {j \in JobIds : jobs[j].state = "Running"}
           ELSE interrupted
    /\ UNCHANGED <<power, staged, applied>>

JobEnds ==
    /\ \E j \in JobIds :
           /\ jobs[j].state = "Running"
           /\ \/ /\ jobs' = [jobs EXCEPT ![j].state = "Completed"]
                 /\ applied' = applied \union jobs[j].holds
              \/ /\ jobs' = [jobs EXCEPT ![j].state = "Failed"]
                 /\ UNCHANGED applied
    /\ UNCHANGED <<power, staged, interrupted>>

JobIsDue ==
    /\ \E j \in JobIds : jobs[j].state = "Scheduled" /\ jobs[j].auto
    /\ ResetBy("controller")

OperatorActs ==
    \/ OperatorResets /\ ResetBy("operator")
    \/ /\ OperatorPowers
       /\ power' = IF power = "on" THEN "off" ELSE "on"
       /\ jobs' = IF power = "off" THEN Started ELSE jobs
       /\ UNCHANGED <<staged, applied, interrupted>>
    \/ /\ OperatorStages
       /\ staged' = staged \union {"other"}
       /\ UNCHANGED <<power, jobs, applied, interrupted>>

HostStep == JobEnds \/ JobIsDue \/ OperatorActs

HostTypeOK ==
    /\ power \in {"on", "off"}
    /\ staged \subseteq Authors
    /\ jobs \in [JobIds -> [state : QueuedStates, kind : JobKinds,
                            holds : SUBSET Authors, auto : BOOLEAN]]
    /\ applied \subseteq Authors
    /\ interrupted \subseteq JobIds
=============================================================================
