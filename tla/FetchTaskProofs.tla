-------------------------- MODULE FetchTaskProofs --------------------------
(***************************************************************************)
(* Theorems about FetchTask, for every value of its constants.  IInv is    *)
(* shown to be inductive action by action; type correctness, the pauses    *)
(* and the refinement of WatchContract follow from it.                     *)
(***************************************************************************)
EXTENDS FetchTask, TLAPS

\* The mappings of the manager land in the enums they are declared to.
LEMMA MappingTypes ==
    /\ "Unknown" \in TaskStates
    /\ \A s \in DOMAIN TaskStateMapping : TaskStateMapping[s] \in TaskStates
    /\ DOMAIN JobStateMapping = JobStates \ {"New", "Paused"}
    /\ \A s \in DOMAIN JobStateMapping : JobStateMapping[s] \in JobStates
    /\ \A s \in JobStates \union {"Deleted"} :
        /\ s \in DOMAIN TaskView
        /\ TaskStatusView[s] \subseteq {"Ok", "Warning", "Critical"}
  <1>1. "Unknown" \in TaskStates
    BY DEF TaskStates
  <1>2. \A s \in DOMAIN TaskStateMapping : TaskStateMapping[s] \in TaskStates
    BY DEF TaskStates
  <1>3. /\ DOMAIN JobStateMapping = JobStates \ {"New", "Paused"}
        /\ \A s \in DOMAIN JobStateMapping : JobStateMapping[s] \in JobStates
    BY DEF JobStateMapping
  <1>4. \A s \in JobStates \union {"Deleted"} :
            TaskStatusView[s] \subseteq {"Ok", "Warning", "Critical"}
    BY DEF TaskStatusView
  <1>5. DOMAIN TaskView = JobStates \union {"Deleted"}
    BY DEF TaskView
  <1>6. QED
    BY <1>1, <1>2, <1>3, <1>4, <1>5

\* What get_task_state makes of a reply is a state the job has shown.
LEMMA ParsedType ==
    ASSUME IInv, pc = "handle", ParseError(resp) = "none"
    PROVE  /\ Parsed(resp).state \in TaskStates
           /\ Parsed(resp).status \in {"Ok", "Warning", "Critical"}
           /\ Shown(Parsed(resp).state)
  <1>1. CASE resp.body = "none"
    BY <1>1, MappingTypes DEF Parsed, Shown
  <1>2. CASE resp.body # "none"
    <2>1. resp.body = "task"
      BY <1>2 DEF IInv, TypeOK, ReplyRecords, ParseError
    <2>2. resp.state \in DOMAIN TaskStateMapping
      BY <2>1 DEF ParseError
    <2>3. PICK p \in passed : resp.state = TaskView[p]
      BY <2>1 DEF IInv
    <2>4. /\ Parsed(resp).state = TaskStateMapping[resp.state]
          /\ Parsed(resp).status = resp.status
      BY <1>2 DEF Parsed
    <2>5. resp.status \in {"Ok", "Warning", "Critical"}
      BY DEF IInv, TypeOK, ReplyRecords
    <2>6. QED
      BY <2>2, <2>3, <2>4, <2>5, MappingTypes DEF Shown
  <1>3. QED
    BY <1>1, <1>2

\* A state that has been shown stays shown.
LEMMA ShownStable ==
    ASSUME NEW s, Shown(s), passed \subseteq passed'
    PROVE  Shown(s)'
  BY DEF Shown

\* What the answers of the function are made of.
LEMMA OutcomeTypes ==
    /\ Contract!Pending \in Outcomes
    /\ \A s \in TaskStates : /\ Contract!Returned("TaskState", s) \in Outcomes
                             /\ Contract!Returned("TaskState", s) # Contract!Pending
    /\ \A s \in JobStates : /\ Contract!Returned("JobState", s) \in Outcomes
                            /\ Contract!Returned("JobState", s) # Contract!Pending
    /\ \A e \in Contract!Exceptions : /\ Contract!Raised(e) \in Outcomes
                                      /\ Contract!Raised(e) # Contract!Pending
  BY DEF Outcomes, Contract!Pending, Contract!Returned, Contract!Raised

\* The exceptions of get_task_state are exceptions of the contract.
LEMMA ParseErrorType ==
    ASSUME ParseError(resp) # "none"
    PROVE  ParseError(resp) \in Contract!Exceptions
  BY DEF ParseError, Contract!Exceptions

\* The empty reply is a reply.
LEMMA NoReplyType == NoReply \in ReplyRecords
  <1>1. "Deleted" \in DOMAIN TaskView /\ TaskView["Deleted"] = "Killed"
    BY DEF TaskView, JobStates
  <1>2. QED
    BY <1>1 DEF NoReply, ReplyRecords, Retries

\* Reading the Retry-After header and consuming the reply.
LEMMA HandleType ==
    ASSUME IInv, FetchTaskAssumption, Handle
    PROVE  /\ pc = "handle"
           /\ BmcTypeOK'
           /\ passed' = passed
           /\ retry_after' \in RetryAfters \union {0}
           /\ asked' \subseteq RetryAfters
           /\ alarmed' \in BOOLEAN
           /\ resp' \in ReplyRecords
           /\ \A a \in asked' : a \in asked \/ a = retry_after'
  <1>1. /\ pc = "handle"
        /\ UNCHANGED bmcVars
    BY DEF Handle
  <1>2. BmcTypeOK' /\ passed' = passed
    BY <1>1 DEF IInv, TypeOK, BmcTypeOK, bmcVars
  <1>3. /\ resp.retry \in RetryAfters \union {NoHeader}
        /\ NoHeader \notin RetryAfters
    BY DEF Handle, IInv, TypeOK, ReplyRecords, Retries, NoHeader, FetchTaskAssumption
  <1>4. retry_after' \in RetryAfters \union {0}
    BY <1>3 DEF Handle, IInv, TypeOK
  <1>5. asked' \subseteq RetryAfters
    BY <1>3 DEF Handle, IInv, TypeOK
  <1>6. resp' \in ReplyRecords
    BY NoReplyType DEF Handle
  <1>7. \A a \in asked' : a \in asked \/ a = retry_after'
    BY DEF Handle
  <1>8. alarmed' \in BOOLEAN
    BY DEF Handle, IInv, TypeOK
  <1>9. QED
    BY <1>1, <1>2, <1>4, <1>5, <1>6, <1>7, <1>8

\* Leaving the loop with a state that has been shown, or with an exception.
LEMMA LeaveInv ==
    ASSUME IInv, FetchTaskAssumption, Handle, UNCHANGED sleep_time,
           task_state' \in TaskStates, Shown(task_state'),
           \/ \E s \in TaskStates : Return(s)
           \/ \E e \in Contract!Exceptions : Raise(e)
    PROVE  IInv'
  <1>1. pc' = "done" /\ outcome' # Contract!Pending /\ outcome' \in Outcomes
    BY OutcomeTypes DEF Return, Raise
  <1>2. sleep_time' \in Nat
    BY DEF IInv, TypeOK
  <1>3. TypeOK'
    BY <1>1, <1>2, HandleType DEF TypeOK
  <1>4. Shown(task_state)'
    BY HandleType DEF Shown
  <1>5. QED
    BY <1>1, <1>3, <1>4 DEF IInv, PauseInv

\* Going to sleep: the pause covers everything the server has asked for.
LEMMA SleepInv ==
    ASSUME IInv, FetchTaskAssumption, Handle, GoToSleep,
           task_state' \in TaskStates, Shown(task_state')
    PROVE  IInv'
  <1>1. pc' = "sleep" /\ outcome' = outcome
    BY DEF GoToSleep
  <1>2. outcome = Contract!Pending
    BY HandleType DEF IInv
  <1>3. retry_after' \in Nat /\ sleep_time \in Nat /\ DefaultSleep \in Nat
    <2>1. retry_after' \in RetryAfters \union {0}
      BY HandleType
    <2>2. RetryAfters \subseteq Nat /\ DefaultSleep \in Nat
      BY DEF FetchTaskAssumption
    <2>3. sleep_time \in Nat
      BY DEF IInv, TypeOK
    <2>4. QED
      BY <2>1, <2>2, <2>3
  <1>4. sleep_time' \in Nat /\ sleep_time' >= sleep_time /\ sleep_time' >= retry_after'
    BY <1>3 DEF GoToSleep
  <1>5. \A a \in asked : a \in Nat /\ sleep_time >= a
    BY HandleType DEF IInv, PauseInv, TypeOK, FetchTaskAssumption
  <1>6. \A a \in asked' : sleep_time' >= a
    BY <1>3, <1>4, <1>5, HandleType
  <1>7. sleep_time' >= DefaultSleep
    BY <1>3, <1>4, HandleType DEF IInv, PauseInv
  <1>8. TypeOK'
    BY <1>1, <1>2, <1>4, HandleType, OutcomeTypes DEF TypeOK
  <1>9. Shown(task_state)'
    BY HandleType DEF Shown
  <1>10. QED
    BY <1>1, <1>2, <1>6, <1>7, <1>8, <1>9 DEF IInv, PauseInv

\* return self.get_task_state(resp)[0]
LEMMA ReturnParsedInv ==
    ASSUME IInv, FetchTaskAssumption, Handle, ReturnParsed, UNCHANGED sleep_time
    PROVE  IInv'
  <1>1. CASE ParseError(resp) # "none" /\ Raise(ParseError(resp)) /\ UNCHANGED task_state
    BY <1>1, ParseErrorType, LeaveInv DEF IInv, TypeOK, Shown
  <1>2. CASE /\ ParseError(resp) = "none"
             /\ task_state' = Parsed(resp).state
             /\ Return(Parsed(resp).state)
    BY <1>2, HandleType, ParsedType, LeaveInv
  <1>3. QED
    BY <1>1, <1>2 DEF ReturnParsed

\* A reply built by the server names the state the job is in.
LEMMA RepliesType ==
    ASSUME BmcTypeOK, FetchTaskAssumption, NEW r \in Replies
    PROVE  /\ r \in ReplyRecords
           /\ r.body = "task" => \E p \in passed : r.state = TaskView[p]
  <1>1. job \in DOMAIN TaskView /\ job \in passed
    BY DEF BmcTypeOK, TaskView
  <1>2. TaskStatusView[job] \subseteq {"Ok", "Warning", "Critical"}
    BY MappingTypes DEF BmcTypeOK
  <1>3. \A c \in Nat, b \in {"task", "other", "none"}, t \in Retries,
           u \in {"Ok", "Warning", "Critical"} :
            /\ Reply(c, b, t, u) \in ReplyRecords
            /\ Reply(c, b, t, u).state = TaskView[job]
    BY <1>1 DEF Reply, ReplyRecords
  <1>4. server.faults \subseteq Nat /\ DescribingCodes \subseteq Nat
    BY BmcJobAssumption DEF BmcTypeOK, DescribingCodes
  <1>5. PICK c \in Nat, b \in {"task", "other", "none"}, t \in Retries,
             u \in {"Ok", "Warning", "Critical"} : r = Reply(c, b, t, u)
    <2>1. CASE r \in {Reply(c, b, t, "Ok") :
                          c \in {404, 410}, b \in {"other", "none"}, t \in Retries}
      <3>1. PICK c \in {404, 410}, b \in {"other", "none"}, t \in Retries :
                r = Reply(c, b, t, "Ok")
        BY <2>1
      <3>2. c \in Nat
        BY <3>1
      <3>3. QED
        BY <3>1, <3>2
    <2>2. CASE r \in {Reply(c, "task", t, u) :
                          c \in DescribingCodes, t \in Retries, u \in TaskStatusView[job]}
      BY <1>2, <1>4, <2>2
    <2>3. CASE r \in {Reply(c, b, t, "Ok") :
                          c \in server.faults, b \in {"other", "none"}, t \in Retries}
      BY <1>4, <2>3
    <2>4. QED
      BY <2>1, <2>2, <2>3 DEF Replies
  <1>6. QED
    BY <1>1, <1>3, <1>5

-----------------------------------------------------------------------------
(* The invariant *)

\* The function starts with the invariant.
LEMMA InitInv ==
    ASSUME FetchTaskAssumption, Init
    PROVE  IInv
  <1>1. BmcTypeOK
    BY BmcJobAssumption DEF Init, BmcInit, BmcTypeOK
  <1>2. NoReply \in ReplyRecords
    BY NoReplyType
  <1>3. TypeOK
    BY <1>1, <1>2, MappingTypes, OutcomeTypes DEF Init, TypeOK, FetchTaskAssumption
  <1>4. QED
    BY <1>3 DEF Init, IInv, PauseInv, Shown, FetchTaskAssumption

\* The steps that do not handle a reply.
LEMMA RequestInv ==
    ASSUME IInv, FetchTaskAssumption,
           GetJob \/ GetJobWithoutState \/ GetJobFails \/ Poll \/ PollFails \/ WakeUp
    PROVE  IInv'
  <1>1. /\ UNCHANGED <<server, job, passed, task_state, retry_after, sleep_time, asked, alarmed>>
        /\ pc # "done" /\ pc # "handle"
    BY DEF GetJob, GetJobWithoutState, GetJobFails, Poll, PollFails, WakeUp, bmcVars
  <1>2. /\ BmcTypeOK'
        /\ task_state' \in TaskStates
        /\ retry_after' \in RetryAfters \union {0}
        /\ asked' \subseteq RetryAfters
        /\ alarmed' \in BOOLEAN
        /\ sleep_time' \in Nat
        /\ Shown(task_state)'
        /\ PauseInv'
    BY <1>1 DEF IInv, TypeOK, BmcTypeOK, Shown, PauseInv
  <1>3. outcome = Contract!Pending
    BY <1>1 DEF IInv
  <1>4. CASE GetJob \/ GetJobWithoutState \/ GetJobFails \/ PollFails \/ WakeUp
    <2>1. resp' = resp /\ pc' # "handle"
      BY <1>4 DEF GetJob, GetJobWithoutState, GetJobFails, PollFails, WakeUp, Raise
    <2>2. /\ pc' \in {"get_job", "poll", "handle", "sleep", "done"}
          /\ outcome' \in Outcomes
          /\ outcome' = Contract!Pending <=> pc' # "done"
      <3>1. CASE GetJob
        <4>1. CASE pc' = "poll" /\ UNCHANGED outcome
          BY <4>1, <1>3, OutcomeTypes
        <4>2. CASE /\ job \in DOMAIN JobStateMapping
                   /\ pc' = "done"
                   /\ outcome' = Contract!Returned("JobState", JobStateMapping[job])
          BY <4>2, MappingTypes, OutcomeTypes
        <4>3. CASE Raise("UnexpectedResponse") \/ Raise("ResourceNotFound")
          BY <4>3, OutcomeTypes DEF Raise, Contract!Exceptions
        <4>4. QED
          BY <3>1, <4>1, <4>2, <4>3 DEF GetJob
      <3>2. CASE GetJobWithoutState \/ WakeUp
        BY <3>2, <1>3, OutcomeTypes DEF GetJobWithoutState, WakeUp
      <3>3. CASE GetJobFails \/ PollFails
        BY <3>3, OutcomeTypes DEF GetJobFails, PollFails, Raise, Contract!Exceptions
      <3>4. QED
        BY <1>4, <3>1, <3>2, <3>3
    <2>3. QED
      BY <1>2, <2>1, <2>2 DEF IInv, TypeOK
  <1>5. CASE Poll
    <2>1. /\ resp' \in ReplyRecords
          /\ resp'.body = "task" => \E p \in passed : resp'.state = TaskView[p]
      BY <1>5, RepliesType DEF Poll, IInv, TypeOK
    <2>2. pc' = "handle" /\ outcome' = outcome
      BY <1>5 DEF Poll
    <2>3. QED
      BY <1>1, <1>2, <1>3, <2>1, <2>2, OutcomeTypes DEF IInv, TypeOK
  <1>6. QED
    BY <1>4, <1>5

\* A Retry-After date ends the watch before the reply is looked at.
LEMMA HttpDateInv ==
    ASSUME IInv, OnHttpDate
    PROVE  IInv'
  <1>1. /\ UNCHANGED <<server, job, passed, task_state, retry_after, sleep_time, asked, alarmed>>
        /\ pc' = "done"
        /\ outcome' = Contract!Raised("ValueError")
        /\ resp' = NoReply
    BY DEF OnHttpDate, Raise, bmcVars
  <1>2. outcome' # Contract!Pending /\ outcome' \in Outcomes
    BY <1>1, OutcomeTypes DEF Contract!Exceptions
  <1>3. NoReply \in ReplyRecords
    BY NoReplyType
  <1>4. TypeOK'
    BY <1>1, <1>2, <1>3 DEF IInv, TypeOK, BmcTypeOK
  <1>5. Shown(task_state)'
    BY <1>1 DEF IInv, Shown
  <1>6. QED
    BY <1>1, <1>2, <1>4, <1>5 DEF IInv, PauseInv

\* The branches of the loop.
LEMMA BranchInv ==
    ASSUME IInv, FetchTaskAssumption,
           \/ OnServerError \/ OnGone \/ OnWaitedCode \/ OnAccepted \/ OnOk
           \/ OnWaitedState \/ OnUnforeseen
    PROVE  IInv'
  <1>1. CASE OnServerError \/ OnGone
    BY <1>1, LeaveInv DEF OnServerError, OnGone, IInv, TypeOK
  <1>2. CASE OnWaitedCode \/ OnOk \/ OnWaitedState
    BY <1>2, ReturnParsedInv DEF OnWaitedCode, OnOk, OnWaitedState
  <1>3. CASE OnAccepted
    <2>1. Handle
      BY <1>3 DEF OnAccepted
    <2>2. CASE Raise("JSONDecodeError") /\ UNCHANGED <<task_state, sleep_time>>
      BY <2>1, <2>2, LeaveInv DEF IInv, TypeOK, Contract!Exceptions
    <2>3. CASE /\ ParseError(resp) # "none" /\ Raise(ParseError(resp))
               /\ UNCHANGED <<task_state, sleep_time>>
      BY <2>1, <2>3, ParseErrorType, LeaveInv DEF IInv, TypeOK
    <2>4. CASE /\ ParseError(resp) = "none" /\ task_state' = Parsed(resp).state
               /\ Return(Parsed(resp).state) /\ UNCHANGED sleep_time
      BY <2>1, <2>4, HandleType, ParsedType, LeaveInv
    <2>5. CASE /\ ParseError(resp) = "none" /\ task_state' = Parsed(resp).state
               /\ GoToSleep
      BY <2>1, <2>5, HandleType, ParsedType, SleepInv
    <2>6. QED
      BY <1>3, <2>2, <2>3, <2>4, <2>5 DEF OnAccepted
  <1>4. CASE OnUnforeseen
    <2>1. Handle
      BY <1>4 DEF OnUnforeseen
    <2>2. CASE /\ ParseError(resp) # "none" /\ Raise(ParseError(resp))
               /\ UNCHANGED <<task_state, sleep_time>>
      BY <2>1, <2>2, ParseErrorType, LeaveInv DEF IInv, TypeOK
    <2>3. CASE /\ ParseError(resp) = "none" /\ task_state' = Parsed(resp).state
               /\ GoToSleep
      BY <2>1, <2>3, HandleType, ParsedType, SleepInv
    <2>4. QED
      BY <1>4, <2>2, <2>3 DEF OnUnforeseen
  <1>5. QED
    BY <1>1, <1>2, <1>3, <1>4

\* The job moving on its own disturbs nothing the client holds.
LEMMA AdvanceInv ==
    ASSUME IInv, Advance
    PROVE  IInv'
  <1>1. UNCHANGED clientVars /\ passed \subseteq passed' /\ BmcTypeOK'
    BY DEF Advance, BmcStep, IInv, TypeOK, BmcTypeOK
  <1>2. Shown(task_state)'
    BY <1>1 DEF IInv, Shown, clientVars
  <1>3. pc = "handle" /\ resp.body = "task" => \E p \in passed' : resp.state = TaskView[p]
    BY <1>1 DEF IInv
  <1>4. QED
    BY <1>1, <1>2, <1>3 DEF IInv, TypeOK, PauseInv, clientVars

\* IInv is an invariant of the specification.
THEOREM Invariance == Spec => []IInv
  <1>1. Init => IInv
    BY InitInv, FetchTaskAssumption
  <1>2. IInv /\ [Next]_vars => IInv'
    <2>1. SUFFICES ASSUME IInv, [Next]_vars PROVE IInv'
      OBVIOUS
    <2>2. CASE Client
      BY <2>1, <2>2, RequestInv, HttpDateInv, BranchInv, FetchTaskAssumption DEF Client
    <2>3. CASE Advance
      BY <2>1, <2>3, AdvanceInv
    <2>4. CASE UNCHANGED vars
      BY <2>1, <2>4 DEF vars, IInv, TypeOK, BmcTypeOK, PauseInv, Shown
    <2>5. QED
      BY <2>1, <2>2, <2>3, <2>4 DEF Next
  <1>3. QED
    BY <1>1, <1>2, PTL DEF Spec

\* Type correctness of fetch_task's variables.
THEOREM TypeCorrect == Spec => []TypeOK
  <1>1. IInv => TypeOK
    BY DEF IInv
  <1>2. QED
    BY <1>1, Invariance, PTL

\* No poll comes before the pause that any earlier reply of the watch asked for.
THEOREM Polite == Spec => []NeverPollsEarly
  <1>1. IInv => NeverPollsEarly
    BY DEF IInv, PauseInv, NeverPollsEarly
  <1>2. QED
    BY <1>1, Invariance, PTL

-----------------------------------------------------------------------------
(* The refinement of WatchContract *)

\* A shown state, as an answer, is one the contract allows.
LEMMA ShownIsAnswer ==
    ASSUME NEW s, Shown(s), BmcTypeOK
    PROVE  Contract!Returned("TaskState", s) \in Contract!Answers(passed)
  <1>1. CASE s = "Unknown"
    BY <1>1 DEF Contract!Answers
  <1>2. CASE \E p \in passed : /\ TaskView[p] \in DOMAIN TaskStateMapping
                               /\ s = TaskStateMapping[TaskView[p]]
    <2>1. Contract!TaskView = TaskView
      BY DEF TaskView, Contract!TaskView, JobStates, Contract!JobStates
    <2>2. QED
      BY <1>2, <2>1 DEF Contract!Answers, Contract!Truthful
  <1>3. QED
    BY <1>1, <1>2 DEF Shown

\* Every step of the client is a step of the contract or leaves it unchanged.
LEMMA ClientRefines ==
    ASSUME IInv, FetchTaskAssumption, Client
    PROVE  Contract!Answer \/ UNCHANGED Contract!contractVars
  <1>1. /\ UNCHANGED <<server, job, passed>>
        /\ pc # "done"
    BY DEF Client, GetJob, GetJobWithoutState, GetJobFails, Poll, PollFails,
           OnHttpDate, OnServerError, OnGone, OnWaitedCode, OnAccepted, OnOk,
           OnWaitedState, OnUnforeseen, WakeUp, Handle, bmcVars
  <1>2. outcome = Contract!Pending
    BY <1>1 DEF IInv
  <1>3. SUFFICES outcome' = outcome \/ outcome' \in Contract!Answers(passed)
    BY <1>1, <1>2 DEF Contract!Answer, Contract!contractVars, Contract!bmcVars
  <1>4. \A e \in Contract!Exceptions : Raise(e) => outcome' \in Contract!Answers(passed)
    BY DEF Raise, Contract!Answers
  <1>5. \A s : Shown(s) /\ Return(s) => outcome' \in Contract!Answers(passed)
    BY ShownIsAnswer DEF Return, IInv, TypeOK
  <1>6. Shown(task_state)
    BY DEF IInv
  <1>7. CASE GetJob
    <2>1. ASSUME job \in DOMAIN JobStateMapping,
                 outcome' = Contract!Returned("JobState", JobStateMapping[job])
          PROVE  outcome' \in Contract!Answers(passed)
      <3>1. job \in passed
        BY DEF IInv, TypeOK, BmcTypeOK
      <3>2. QED
        BY <2>1, <3>1 DEF Contract!Answers, Contract!Truthful
    <2>2. QED
      BY <1>4, <1>7, <2>1 DEF GetJob, Contract!Exceptions
  <1>8. CASE GetJobWithoutState \/ Poll \/ WakeUp
    BY <1>8 DEF GetJobWithoutState, Poll, WakeUp
  <1>9. CASE GetJobFails \/ PollFails \/ OnHttpDate
    BY <1>4, <1>9 DEF GetJobFails, PollFails, OnHttpDate, Contract!Exceptions
  <1>10. CASE OnServerError \/ OnGone
    BY <1>5, <1>6, <1>10 DEF OnServerError, OnGone
  <1>11. ASSUME Handle, ReturnParsed
         PROVE  outcome' \in Contract!Answers(passed)
    BY <1>4, <1>5, <1>11, HandleType, ParseErrorType, ParsedType DEF ReturnParsed
  <1>12. CASE OnWaitedCode \/ OnOk \/ OnWaitedState
    BY <1>11, <1>12 DEF OnWaitedCode, OnOk, OnWaitedState
  <1>13. CASE OnAccepted
    <2>1. CASE Raise("JSONDecodeError")
      BY <1>4, <2>1 DEF Contract!Exceptions
    <2>2. CASE ParseError(resp) # "none" /\ Raise(ParseError(resp))
      BY <1>4, <2>2, ParseErrorType
    <2>3. CASE ParseError(resp) = "none" /\ Return(Parsed(resp).state)
      <3>1. Handle
        BY <1>13 DEF OnAccepted
      <3>2. QED
        BY <1>5, <2>3, <3>1, HandleType, ParsedType
    <2>4. CASE GoToSleep
      BY <2>4 DEF GoToSleep
    <2>5. QED
      BY <1>13, <2>1, <2>2, <2>3, <2>4 DEF OnAccepted
  <1>14. CASE OnUnforeseen
    <2>1. CASE ParseError(resp) # "none" /\ Raise(ParseError(resp))
      BY <1>4, <2>1, ParseErrorType
    <2>2. CASE GoToSleep
      BY <2>2 DEF GoToSleep
    <2>3. QED
      BY <1>14, <2>1, <2>2 DEF OnUnforeseen
  <1>15. QED
    BY <1>7, <1>8, <1>9, <1>10, <1>12, <1>13, <1>14 DEF Client

\* fetch_task implements WatchContract.
THEOREM Refinement == Spec => ImplementsContract
  <1>1. Init => Contract!ContractInit
    BY DEF Init, BmcInit, Contract!ContractInit, Contract!BmcInit, JobStates,
           Contract!JobStates
  <1>2. IInv /\ [Next]_vars => [Contract!ContractNext]_Contract!contractVars
    <2>1. SUFFICES ASSUME IInv, [Next]_vars
                   PROVE  Contract!ContractNext \/ UNCHANGED Contract!contractVars
      BY DEF Contract!contractVars
    <2>2. CASE Client
      BY <2>1, <2>2, ClientRefines, FetchTaskAssumption DEF Contract!ContractNext
    <2>3. CASE Advance
      BY <2>3 DEF Advance, BmcStep, clientVars, Contract!ContractNext, Contract!BmcStep,
                  JobStates, Contract!JobStates, Moves, Contract!Moves
    <2>4. CASE UNCHANGED vars
      BY <2>4 DEF vars, Contract!contractVars
    <2>5. QED
      BY <2>1, <2>2, <2>3, <2>4 DEF Next
  <1>3. QED
    BY <1>1, <1>2, Invariance, PTL DEF Spec, ImplementsContract, Contract!ContractSpec

-----------------------------------------------------------------------------
(* What a caller may conclude from the contract alone *)

\* The answer, once given, stays among those the job's history allows.
Answered == outcome = Contract!Pending \/ outcome \in Contract!Answers(passed)

\* The contract keeps Answered true: the job's history only grows.
LEMMA ContractAnswered == Contract!ContractSpec => []Answered
  <1>1. Contract!ContractInit => Answered
    BY DEF Contract!ContractInit, Answered
  <1>2. Answered /\ [Contract!ContractNext]_Contract!contractVars => Answered'
    <2>1. SUFFICES ASSUME Answered, [Contract!ContractNext]_Contract!contractVars
                   PROVE  Answered'
      OBVIOUS
    <2>2. CASE Contract!Answer
      BY <2>2 DEF Contract!Answer, Answered, Contract!bmcVars
    <2>3. CASE Contract!BmcStep /\ UNCHANGED outcome
      <3>1. passed \subseteq passed'
        BY <2>3 DEF Contract!BmcStep
      <3>2. Contract!Answers(passed) \subseteq Contract!Answers(passed')
        BY <3>1 DEF Contract!Answers, Contract!Truthful
      <3>3. QED
        BY <2>1, <2>3, <3>2 DEF Answered
    <2>4. CASE UNCHANGED Contract!contractVars
      BY <2>1, <2>4 DEF Contract!contractVars, Answered
    <2>5. QED
      BY <2>1, <2>2, <2>3, <2>4 DEF Contract!ContractNext
  <1>3. QED
    BY <1>1, <1>2, PTL DEF Contract!ContractSpec

\* Only a finished job is shown as Completed, in either vocabulary.
LEMMA CompletedStates ==
    /\ \A s \in DOMAIN JobStateMapping : JobStateMapping[s] = "Completed" => s = "Completed"
    /\ \A s \in JobStates \union {"Deleted"} :
        /\ Contract!TaskView[s] \in DOMAIN TaskStateMapping
        /\ TaskStateMapping[Contract!TaskView[s]] = "Completed"
        => s \in {"Completed", "CompletedWithErrors", "RebootCompleted"}
  <1>1. \A s \in JobStates \union {"Deleted"} :
            Contract!TaskView[s] = "Completed"
            => s \in {"Completed", "CompletedWithErrors", "RebootCompleted"}
    BY DEF Contract!TaskView, JobStates, Contract!JobStates
  <1>2. \A t \in DOMAIN TaskStateMapping : TaskStateMapping[t] = "Completed" => t = "Completed"
    BY DEF TaskStateMapping
  <1>3. \A s \in DOMAIN JobStateMapping : JobStateMapping[s] = "Completed" => s = "Completed"
    BY DEF JobStateMapping
  <1>4. QED
    BY <1>1, <1>2, <1>3

\* No watch reports Completed of a job that has not finished, for any server.
THEOREM Truth == Spec => []CompletedIsTrue
  <1>1. IInv /\ Answered => CompletedIsTrue
    <2>1. SUFFICES ASSUME IInv, Answered, outcome.value = "Completed"
                   PROVE  passed \intersect {"Completed", "CompletedWithErrors",
                                             "RebootCompleted"} # {}
      BY DEF CompletedIsTrue
    <2>2. passed \subseteq JobStates \union {"Deleted"}
      BY <2>1 DEF IInv, TypeOK, BmcTypeOK
    <2>3. outcome \in Contract!Truthful(passed)
      BY <2>1 DEF Answered, Contract!Answers, Contract!Pending, Contract!Returned,
                  Contract!Raised, Contract!Exceptions
    <2>4. CASE \E s \in passed \intersect DOMAIN JobStateMapping :
                  outcome = Contract!Returned("JobState", JobStateMapping[s])
      BY <2>1, <2>4, CompletedStates DEF Contract!Returned
    <2>5. CASE \E s \in passed :
                  /\ Contract!TaskView[s] \in DOMAIN TaskStateMapping
                  /\ outcome = Contract!Returned("TaskState",
                                                 TaskStateMapping[Contract!TaskView[s]])
      BY <2>1, <2>2, <2>5, CompletedStates DEF Contract!Returned
    <2>6. QED
      BY <2>3, <2>4, <2>5 DEF Contract!Truthful
  <1>2. QED
    BY <1>1, Invariance, Refinement, ContractAnswered, PTL DEF ImplementsContract

-----------------------------------------------------------------------------
(* No answer too early *)

\* While the controller works on the job, a reply of an honest server says so
\* at the time it is handled as well, however old it is.
Accepted == resp.code = 202 /\ resp.body = "task"

PatientInv ==
    HonestServer =>
        /\ pc = "handle" /\ job \notin Settled => Accepted
        /\ outcome.kind = "TaskState" => job \in Settled \/ alarmed

\* The controller does not take up a job again.
LEMMA SettledStays == BmcStep /\ job \in Settled => job' \in Settled
  BY DEF BmcStep, Moves, Settled

\* What an honest server replies of a job that is not settled.
LEMMA HonestReply ==
    ASSUME BmcTypeOK, HonestServer, job \notin Settled, NEW r \in Replies
    PROVE  r.code = 202 /\ r.body = "task"
  <1>1. server.faults = {} /\ server.monitor = TRUE
    BY DEF HonestServer
  <1>2. job # "Deleted" /\ DescribingCodes = {202}
    BY <1>1 DEF Settled, DescribingCodes
  <1>3. PICK t \in Retries, u \in TaskStatusView[job] : r = Reply(202, "task", t, u)
    BY <1>1, <1>2 DEF Replies
  <1>4. QED
    BY <1>3 DEF Reply

\* The branch taken for such a reply raises or goes to sleep, unless the task
\* carries a complaint: then alarmed says so.
LEMMA AcceptedGoesOn ==
    ASSUME Accepted, HonestServer, FetchTaskAssumption,
           resp.status \in {"Ok", "Warning", "Critical"},
           \/ OnServerError \/ OnGone \/ OnWaitedCode \/ OnAccepted \/ OnOk
           \/ OnWaitedState \/ OnUnforeseen
    PROVE  /\ pc' # "handle"
           /\ outcome' = outcome \/ outcome'.kind = "raise" \/ alarmed'
  <1>1. resp.code = 202 /\ WaitFor \notin {200, 202}
    BY DEF Accepted, HonestServer
  <1>2. OnAccepted
    BY <1>1 DEF OnServerError, OnGone, OnWaitedCode, Waited, OnOk, OnWaitedState,
                OnUnforeseen, Unforeseen
  <1>3. CASE \E e : Raise(e)
    BY <1>3 DEF Raise, Contract!Raised
  <1>4. CASE Return(Parsed(resp).state) /\ Parsed(resp).status \in {"Critical", "Warning"}
    <2>1. resp.status # "Ok"
      BY <1>4 DEF Accepted, Parsed
    <2>2. QED
      BY <1>2, <1>4, <2>1 DEF OnAccepted, Handle, Accepted, Return
  <1>5. CASE GoToSleep
    BY <1>5 DEF GoToSleep
  <1>6. QED
    BY <1>2, <1>3, <1>4, <1>5 DEF OnAccepted

LEMMA PatientInit == Init => PatientInv
  BY DEF Init, PatientInv, Contract!Pending

LEMMA PatientNext == IInv /\ PatientInv /\ [Next]_vars => PatientInv'
  <1> SUFFICES ASSUME IInv, PatientInv, [Next]_vars, HonestServer'
               PROVE  /\ pc' = "handle" /\ job' \notin Settled => Accepted'
                      /\ outcome'.kind = "TaskState" => job' \in Settled \/ alarmed'
    BY DEF PatientInv
  <1>1. HonestServer
    <2>1. server' = server
      BY DEF Next, Client, Advance, BmcStep, GetJob, GetJobWithoutState, GetJobFails,
             Poll, PollFails, OnHttpDate, OnServerError, OnGone, OnWaitedCode, OnAccepted, OnOk,
             OnWaitedState, OnUnforeseen, Handle, WakeUp, bmcVars, vars
    <2>2. QED
      BY <2>1 DEF HonestServer
  <1>2. CASE \/ GetJob \/ GetJobWithoutState \/ GetJobFails \/ PollFails \/ WakeUp
             \/ OnHttpDate
    <2>1. pc' # "handle" /\ job' = job /\ alarmed' = alarmed
      BY <1>2 DEF GetJob, GetJobWithoutState, GetJobFails, PollFails, WakeUp, OnHttpDate,
                  Raise, bmcVars
    <2>2. outcome' = outcome \/ outcome'.kind # "TaskState"
      BY <1>2 DEF GetJob, GetJobWithoutState, GetJobFails, PollFails, WakeUp, OnHttpDate,
                  Raise, Contract!Raised, Contract!Returned
    <2>3. QED
      BY <1>1, <2>1, <2>2 DEF PatientInv
  <1>3. CASE Poll
    <2>1. resp' \in Replies /\ job' = job /\ outcome' = outcome /\ alarmed' = alarmed
      BY <1>3 DEF Poll, bmcVars
    <2>2. job \notin Settled => Accepted'
      BY <1>1, <2>1, HonestReply DEF IInv, TypeOK, Accepted
    <2>3. QED
      BY <1>1, <2>1, <2>2 DEF PatientInv
  <1>4. CASE \/ OnServerError \/ OnGone \/ OnWaitedCode \/ OnAccepted \/ OnOk
             \/ OnWaitedState \/ OnUnforeseen
    <2>1. pc = "handle" /\ job' = job /\ (alarmed => alarmed')
      BY <1>4 DEF OnServerError, OnGone, OnWaitedCode, OnAccepted, OnOk, OnWaitedState,
                  OnUnforeseen, Handle, bmcVars
    <2>2. CASE job \in Settled
      BY <2>1, <2>2
    <2>3. CASE job \notin Settled
      <3>1. resp.status \in {"Ok", "Warning", "Critical"}
        BY DEF IInv, TypeOK, ReplyRecords
      <3>2. /\ pc' # "handle"
            /\ outcome' = outcome \/ outcome'.kind = "raise" \/ alarmed'
        BY <1>1, <1>4, <2>1, <2>3, <3>1, AcceptedGoesOn, FetchTaskAssumption DEF PatientInv
      <3>3. QED
        BY <1>1, <2>1, <3>2 DEF PatientInv
    <2>4. QED
      BY <2>2, <2>3
  <1>5. CASE Advance
    BY <1>1, <1>5, SettledStays DEF Advance, clientVars, PatientInv, Accepted
  <1>6. CASE UNCHANGED vars
    BY <1>1, <1>6 DEF vars, PatientInv, Accepted
  <1>7. QED
    BY <1>2, <1>3, <1>4, <1>5, <1>6 DEF Next, Client

\* With a task service that keeps to the monitor protocol and does not fail, the
\* loop answers while the controller works on the job only because a reply has
\* carried a TaskStatus of Warning or Critical.
THEOREM Patient == Spec => []AnswersWhenSettled
  <1>1. PatientInv => AnswersWhenSettled
    BY DEF PatientInv, AnswersWhenSettled
  <1>2. QED
    BY <1>1, Invariance, PatientInit, PatientNext, PTL DEF Spec
=============================================================================
