------------------------------- MODULE BmcJob -------------------------------
(***************************************************************************)
(* The managed controller's side of one job.  The controller is not part   *)
(* of the repository: this module says only what src/ relies on.  A job    *)
(* has a JobState in the Dell job queue and is shown a second time as a    *)
(* Redfish Task; fetch_task reads both.                                    *)
(***************************************************************************)
EXTENDS Integers, FiniteSets

CONSTANTS
    InitialJobs,    \* the states the job may be in when the watch begins
    Servers         \* the task services to be considered.  faults: the status
                    \* codes of replies that do not describe the task; monitor:
                    \* 202 until the job settles, as the comments of
                    \* fetch_task's loop have it

VARIABLES
    server,    \* the task service of this controller
    job,       \* the JobState of the watched job, or "Deleted"
    passed     \* history: every JobState the job has been in

bmcVars == <<server, job, passed>>

\* The JobState strings of the Dell job queue (class JobState).
JobStates ==
    {"New", "Scheduling", "Scheduled", "Downloading", "Downloaded", "Waiting",
     "Running", "Paused", "PendingActivation", "RebootPending",
     "RebootCompleted", "RebootFailed", "Completed", "CompletedWithErrors",
     "Failed", "Unknown"}

ASSUME BmcJobAssumption ==
    /\ InitialJobs \subseteq JobStates
    /\ Servers \subseteq [faults : SUBSET Nat, monitor : BOOLEAN]

\* The states in which the controller has stopped working on the job.
Settled ==
    {"RebootCompleted", "RebootFailed", "Completed", "CompletedWithErrors",
     "Failed", "Deleted"}

\* The steps of a job.  Besides these, a job is deleted from any state (by
\* another administrator, or with the whole queue).
Moves ==
    {<<"New", "Scheduling">>, <<"New", "Downloading">>,
     <<"Downloading", "Downloaded">>, <<"Downloading", "Failed">>,
     <<"Downloaded", "Scheduling">>, <<"Scheduling", "Scheduled">>,
     <<"Scheduled", "Running">>, <<"Scheduled", "Waiting">>,
     <<"Scheduled", "PendingActivation">>, <<"Waiting", "Running">>,
     <<"PendingActivation", "Running">>, <<"Unknown", "Running">>,
     <<"Running", "Paused">>, <<"Paused", "Running">>,
     <<"Running", "RebootPending">>, <<"Running", "Completed">>,
     <<"Running", "CompletedWithErrors">>, <<"Running", "Failed">>,
     <<"RebootPending", "RebootCompleted">>, <<"RebootPending", "RebootFailed">>}

\* The TaskState string of the job's Task resource.  "Cancelling" is what the
\* Redfish schema calls the state of a task that is being withdrawn.
TaskView ==
    [s \in JobStates \union {"Deleted"} |->
        IF s \in {"New", "Downloaded"} THEN "New"
        ELSE IF s \in {"Scheduling", "Scheduled"} THEN "Starting"
        ELSE IF s \in {"Waiting", "PendingActivation", "RebootPending"} THEN "Pending"
        ELSE IF s \in {"Running", "Downloading"} THEN "Running"
        ELSE IF s = "Paused" THEN "Suspended"
        ELSE IF s \in {"Completed", "CompletedWithErrors", "RebootCompleted"} THEN "Completed"
        ELSE IF s \in {"Failed", "RebootFailed"} THEN "Exception"
        ELSE IF s = "Unknown" THEN "Cancelling" ELSE "Killed"]

\* The TaskStatus strings the Task may carry.  While the controller works on the
\* job it may already complain of it; what it says of a settled job is fixed.
TaskStatusView ==
    [s \in JobStates \union {"Deleted"} |->
        IF s = "CompletedWithErrors" THEN {"Warning"}
        ELSE IF s \in {"Failed", "RebootFailed"} THEN {"Critical"}
        ELSE IF s \in Settled THEN {"Ok"} ELSE {"Ok", "Warning", "Critical"}]

BmcInit ==
    /\ server \in Servers
    /\ job \in InitialJobs
    /\ passed = {job}

BmcStep ==
    \E s \in JobStates \union {"Deleted"} :
        /\ <<job, s>> \in Moves \/ s = "Deleted"
        /\ job' = s
        /\ passed' = passed \union {s}
        /\ UNCHANGED server

BmcTypeOK ==
    /\ server \in Servers
    /\ job \in JobStates \union {"Deleted"}
    /\ passed \subseteq JobStates \union {"Deleted"}
    /\ job \in passed
=============================================================================
