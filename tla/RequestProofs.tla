---------------------------- MODULE RequestProofs ----------------------------
(***************************************************************************)
(* A mutating request and the guarded action that sends one.  For every    *)
(* set of status codes and arguments, a caller is told of success only     *)
(* when the controller has acted, and never of a refusal when the          *)
(* controller has said that it did.  For every policy, every Actions block *)
(* and every sequence of invocations, the gate of invoke_action lets       *)
(* through what its tokens allow and nothing else, and what it let through *)
(* is not denied.                                                          *)
(***************************************************************************)
EXTENDS InvokeAction, TLAPS

\* What the answer in hand says about the controller.
ReplyIsTrue ==
    /\ reply.code \in Nat
    /\ reply.location \in BOOLEAN
    /\ reply.body \in Bodies
    /\ pc # "done" => outcome.verdict = "none"
    /\ pc = "handle" /\ reply.location => effect = "task"
    /\ pc = "handle" /\ reply.code \in 200..299 /\ ~reply.location =>
           effect = "applied" \/ reply.code = 202

Inv ==
    /\ RequestTypeOK
    /\ ReplyIsTrue
    /\ SuccessIsTrue

\* What the table of status codes gives for each code.
LEMMA MappedCodes ==
    ASSUME NEW code
    PROVE  /\ code = 200 => Mapped(code) = Returned("Ok")
           /\ code = 201 => Mapped(code) = Returned("Created")
           /\ code = 202 => Mapped(code) = Returned("AcceptedTaskGenerated")
           /\ code = 204 => Mapped(code) = Returned("Success")
           /\ code \notin {200, 201, 202, 204} => Mapped(code) = Raised("KeyError")
  BY DEF Mapped, HttpCodeMapping

\* A failed request is raised or returned as Error, never as a success.
LEMMA FailureIsFailure ==
    ASSUME NEW r
    PROVE  \/ Failed(r).kind = "raised" /\ Failed(r).verdict = "none"
           \/ Failed(r) = Returned("Error")
  <1>1. \A c \in DOMAIN ClientErrors : Raised(ClientErrors[c]).kind = "raised"
                                    /\ Raised(ClientErrors[c]).verdict = "none"
    BY DEF Raised
  <1>2. QED
    BY <1>1 DEF Failed, Raised, Returned

\* What a caller of base_request_respond can be given for an answer.
LEMMA Verdict ==
    ASSUME NEW c \in Calls, NEW r, r.code \in Nat, r.location \in BOOLEAN
    PROVE  /\ Respond(c, r).kind \in {"returned", "raised"}
           /\ Respond(c, r).verdict \in Verdicts \union {"none"}
           /\ Respond(c, r).verdict \in {"Ok", "Success", "Created"} =>
                 ~r.location /\ r.code \in {200, 201, 204}
           /\ Respond(c, r).verdict = "AcceptedTaskGenerated" => r.location
  <1>. DEFINE read == ReadApiRespond(c, r)
  <1>1. CASE r.location
    <2>1. read = Returned("AcceptedTaskGenerated")
      BY <1>1 DEF ReadApiRespond
    <2>2. QED
      BY <1>1, <2>1 DEF Respond, Returned, Raised, Verdicts, ApiRespondToString
  <1>2. CASE ~r.location
    <2>1. \/ read = Mapped(r.code)
          \/ read = Failed(r)
      BY <1>2 DEF ReadApiRespond
    <2>2. CASE read = Mapped(r.code)
      <3>1. CASE r.code = 200
        BY <1>2, <2>2, <3>1, MappedCodes
           DEF Respond, Returned, Raised, Verdicts, ApiRespondToString
      <3>2. CASE r.code = 201
        BY <1>2, <2>2, <3>2, MappedCodes
           DEF Respond, Returned, Raised, Verdicts, ApiRespondToString
      <3>3. CASE r.code = 202
        BY <1>2, <2>2, <3>3, MappedCodes
           DEF Respond, Returned, Raised, Verdicts, ApiRespondToString
      <3>4. CASE r.code = 204
        BY <1>2, <2>2, <3>4, MappedCodes
           DEF Respond, Returned, Raised, Verdicts, ApiRespondToString
      <3>5. CASE r.code \notin {200, 201, 202, 204}
        BY <1>2, <2>2, <3>5, MappedCodes
           DEF Respond, Returned, Raised, Verdicts, ApiRespondToString
      <3>6. QED
        BY <3>1, <3>2, <3>3, <3>4, <3>5
    <2>3. CASE read = Failed(r)
      BY <1>2, <2>3, FailureIsFailure
         DEF Respond, Returned, Raised, Verdicts, ApiRespondToString
    <2>4. QED
      BY <2>1, <2>2, <2>3
  <1>3. QED
    BY <1>1, <1>2

\* The strengthened invariant holds before the request is sent.
LEMMA InitInv == RequestInit => Inv
  BY DEF RequestInit, Inv, RequestTypeOK, ReplyIsTrue, SuccessIsTrue, NoReply, Reply, Bodies,
         Unanswered, Verdicts, ApiRespondToString

\* Sending, losing and handling the request keep it.
LEMMA NextInv == Inv /\ [RequestNext]_requestVars => Inv'
  <1> SUFFICES ASSUME Inv, [RequestNext]_requestVars PROVE Inv'
    OBVIOUS
  <1>. USE ApiRequestAssumption DEF Inv, RequestTypeOK
  <1>1. CASE Send
    <2>1. CASE Carried
      BY <1>1, <2>1 DEF Send, Carried, ReplyIsTrue, SuccessIsTrue, Reply, Bodies
    <2>2. CASE Queued
      BY <1>1, <2>2 DEF Send, Queued, ReplyIsTrue, SuccessIsTrue, Reply, Bodies
    <2>3. CASE Refused
      BY <1>1, <2>3 DEF Send, Refused, ReplyIsTrue, SuccessIsTrue, Reply, Bodies
    <2>4. CASE Broken
      BY <1>1, <2>4 DEF Send, Broken, ReplyIsTrue, SuccessIsTrue, Reply, Bodies
    <2>5. QED
      BY <1>1, <2>1, <2>2, <2>3, <2>4 DEF Send
  <1>2. CASE Lose
    BY <1>2 DEF Lose, ReplyIsTrue, SuccessIsTrue, Raised
  <1>3. CASE Handle
    <2>1. /\ Respond(call, reply).kind \in {"returned", "raised"}
          /\ Respond(call, reply).verdict \in Verdicts \union {"none"}
          /\ Respond(call, reply).verdict \in {"Ok", "Success", "Created"} =>
                ~reply.location /\ reply.code \in {200, 201, 204}
          /\ Respond(call, reply).verdict = "AcceptedTaskGenerated" => reply.location
      BY Verdict DEF ReplyIsTrue
    <2>2. SuccessIsTrue'
      BY <1>3, <2>1 DEF Handle, ReplyIsTrue, SuccessIsTrue
    <2>3. QED
      BY <1>3, <2>1, <2>2 DEF Handle, ReplyIsTrue
  <1>4. CASE UNCHANGED requestVars
    BY <1>4 DEF requestVars, ReplyIsTrue, SuccessIsTrue
  <1>5. QED
    BY <1>1, <1>2, <1>3, <1>4 DEF RequestNext

\* A caller is told of success only when the controller has acted, and of a
\* task only when there is one, whichever codes the two sides use.
THEOREM ToldOnlyTheTruth == RequestSpec => []SuccessIsTrue
  <1>1. Inv => SuccessIsTrue
    BY DEF Inv
  <1>2. QED
    BY InitInv, NextInv, <1>1, PTL DEF RequestSpec

\* Every variable of a request keeps its type.
THEOREM TypeCorrect == RequestSpec => []RequestTypeOK
  <1>1. Inv => RequestTypeOK
    BY DEF Inv
  <1>2. QED
    BY InitInv, NextInv, <1>1, PTL DEF RequestSpec

-----------------------------------------------------------------------------
(* Nothing that was done is reported as refused *)

\* An answer of success is not read as a refusal.
LEMMA SuccessIsNotDenied ==
    ASSUME NEW c \in Calls, NEW r, r.code \in 200..299, r.location \in BOOLEAN
    PROVE  NotDenied(Respond(c, r))
  <1>. DEFINE read == ReadApiRespond(c, r)
  <1>1. read = Returned("AcceptedTaskGenerated") \/ read = Mapped(r.code)
    BY DEF ReadApiRespond
  <1>2. \/ \E v \in Verdicts \ {"Error"} : read = Returned(v)
        \/ read = Raised("KeyError")
    <2>1. CASE r.code \in {200, 201, 202, 204}
      BY <1>1, <2>1, MappedCodes DEF Verdicts, ApiRespondToString
    <2>2. CASE r.code \notin {200, 201, 202, 204}
      BY <1>1, <2>2, MappedCodes DEF Verdicts, ApiRespondToString
    <2> QED BY <2>1, <2>2
  <1>. HIDE DEF read
  <1>3. \/ Respond(c, r) = read
        \/ \E e \in {"AttributeError", "TaskIdUnavailable", "KeyError"} :
              Respond(c, r) = Raised(e)
    BY DEF Respond, read
  <1>4. NotDenied(read)
    BY <1>2 DEF NotDenied, Returned, Raised
  <1>5. \A e \in {"AttributeError", "TaskIdUnavailable", "KeyError"} : NotDenied(Raised(e))
    BY DEF NotDenied, Raised
  <1>6. QED
    BY <1>3, <1>4, <1>5

\* One that can be put into words becomes a verdict, whatever code the caller
\* expected.
LEMMA SayableIsReturned ==
    ASSUME NEW c \in Calls, NEW r, r.location \in BOOLEAN, Sayable(c, r)
    PROVE  Respond(c, r).kind = "returned"
  <1>1. CASE r.location
    BY <1>1 DEF Respond, ReadApiRespond, Returned, ApiRespondToString, Sayable
  <1>2. CASE ~r.location /\ r.code = 200
    <2>1. ReadApiRespond(c, r) = Returned("Ok")
      BY <1>2, MappedCodes DEF ReadApiRespond
    <2>2. QED
      BY <2>1 DEF Respond, Returned, ApiRespondToString, Sayable
  <1>3. CASE ~r.location /\ r.code = 204
    <2>1. ReadApiRespond(c, r) = Returned("Success")
      BY <1>3, MappedCodes DEF ReadApiRespond
    <2>2. QED
      BY <2>1 DEF Respond, Returned, ApiRespondToString, Sayable
  <1>4. QED
    BY <1>1, <1>2, <1>3 DEF Sayable

\* A request that has not been sent has no answer.
NoneYet == pc = "send" => reply.code = 0

TellInv ==
    /\ Inv
    /\ NoneYet
    /\ DoneIsReported

LEMMA InitTold == RequestInit => TellInv
  BY InitInv DEF TellInv, NoneYet, DoneIsReported, RequestInit, NoReply, Reply

\* Sending, losing and handling a request keep what is known of its answer.
LEMMA NextTold == TellInv /\ [RequestNext]_requestVars => TellInv'
  <1> SUFFICES ASSUME TellInv, [RequestNext]_requestVars PROVE TellInv'
    OBVIOUS
  <1>1. Inv'
    BY NextInv DEF TellInv
  <1>2. NoneYet' /\ DoneIsReported'
    <2>1. CASE Send
      BY <2>1 DEF Send, NoneYet, DoneIsReported
    <2>2. CASE Lose
      BY <2>2 DEF Lose, TellInv, NoneYet, DoneIsReported
    <2>3. CASE Handle
      <3>1. call \in Calls /\ reply.location \in BOOLEAN
        BY DEF TellInv, Inv, RequestTypeOK
      <3>2. /\ reply.code \in 200..299 => NotDenied(Respond(call, reply))
            /\ Sayable(call, reply) => Respond(call, reply).kind = "returned"
        BY <3>1, SuccessIsNotDenied, SayableIsReturned
      <3>3. /\ outcome' = Respond(call, reply)
            /\ call' = call /\ reply' = reply /\ pc' = "done"
        BY <2>3 DEF Handle
      <3>4. QED
        BY <3>2, <3>3 DEF NoneYet, DoneIsReported
    <2>4. CASE UNCHANGED requestVars
      BY <2>4 DEF requestVars, TellInv, NoneYet, DoneIsReported
    <2>5. QED
      BY <2>1, <2>2, <2>3, <2>4 DEF RequestNext
  <1>3. QED
    BY <1>1, <1>2 DEF TellInv

\* A request the controller has carried out or queued, and said so, is never
\* reported to the caller as refused, and is returned as done whenever its
\* answer can be put into words (base_request_respond).
THEOREM NothingDoneIsDenied == RequestSpec => []DoneIsReported
  <1>1. TellInv => DoneIsReported
    BY DEF TellInv
  <1>2. QED
    BY InitTold, NextTold, <1>1, PTL DEF RequestSpec

-----------------------------------------------------------------------------
(* The gate of invoke_action *)

\* The entry about to be POSTed performs what it is named for, is allowed, and
\* is the one asked for if the block that was read offers it.
Cleared ==
    /\ chosen.target # NoTarget
    /\ chosen.target \in Targets
    /\ Performs[chosen.target] = chosen.type
    /\ Allowed(request, Classify(chosen.type))
    /\ Exact(actions, request.full) # {} => chosen.type = request.full

\* What has been performed was cleared.
Justified ==
    \A t \in performed :
        /\ Allowed(request, Classify(t))
        /\ Exact(actions, request.full) # {} => t = request.full

\* The actions read are a block of the resource, an entry is POSTed only once
\* it is cleared, and the POST is the request of this invocation.
IInv ==
    /\ TypeOK
    /\ stage = "resolve" => actions \in Blocks
    /\ stage \in {"idle", "read", "resolve"} => performed = {}
    /\ stage = "post" => Cleared
    /\ Justified
    /\ call = PostCall(request)
    /\ Inv

\* An invocation resolves to an entry that has a target, performs its own type,
\* and is of the type asked for when the block has one.
LEMMA ResolvedEntry ==
    ASSUME NEW b \in Blocks, NEW r, NEW i \in Resolved(b, r)
    PROVE  /\ b[i].target # NoTarget
           /\ b[i].target \in Targets
           /\ Performs[b[i].target] = b[i].type
           /\ Exact(b, r.full) # {} => b[i].type = r.full
<1>1. /\ i \in DOMAIN b
      /\ b[i].target # NoTarget
      /\ Exact(b, r.full) # {} => b[i].type = r.full
  BY DEF Resolved, Kept, Exact, Fallback, SameShortName
<1>2. b \in Seq(Entries) /\ Truthful(b)
  BY InvokeActionAssumption
<1>3. b[i] \in Entries
  BY <1>1, <1>2
<1>4. b[i].target \in Targets
  BY <1>1, <1>3 DEF Entries
<1> QED BY <1>1, <1>2, <1>4 DEF Truthful

\* A request to be sent again is as it was at first.
LEMMA PostIsNew ==
    ASSUME NewPost, request' \in Requests
    PROVE  Inv' /\ NoneYet' /\ DoneIsReported'
<1>1. PostCall(request') \in Calls
  BY InvokeActionAssumption DEF PostCall, Calls, Requests
<1> QED BY <1>1 DEF NewPost, Inv, RequestTypeOK, ReplyIsTrue, SuccessIsTrue, NoneYet,
             DoneIsReported, NoReply, Reply, Bodies, Unanswered, Verdicts, ApiRespondToString

\* The strengthened invariant holds at first.
LEMMA Initially == Init => IInv
<1> SUFFICES ASSUME Init PROVE IInv
  OBVIOUS
<1>1. Inv
  BY InitInv DEF Init
<1> QED BY <1>1 DEF Init, IInv, Justified, TypeOK, Inv

\* Every step of the client and of the controller keeps it.
LEMMA Inductive == IInv /\ [Next]_vars => IInv'
<1> SUFFICES ASSUME IInv, [Next]_vars PROVE IInv'
  OBVIOUS
<1> USE DEF IInv, TypeOK
<1>1. CASE Invoke
  <2>1. Inv'
    BY <1>1, PostIsNew DEF Invoke
  <2> QED BY <1>1, <2>1 DEF Invoke, NewPost, Justified, Inv
<1>2. CASE Read
  <2>1. Inv'
    BY <1>2, NextInv DEF Read
  <2> QED BY <1>2, <2>1 DEF Read, Justified, requestVars, Inv
<1>3. CASE NotFound
  <2>1. Inv'
    BY <1>3, NextInv DEF NotFound
  <2> QED BY <1>3, <2>1 DEF NotFound, Justified, requestVars, Inv
<1>4. CASE Resolve
  <2>1. PICK i \in Resolved(actions, request) :
          /\ chosen' = actions[i]
          /\ IF Allowed(request, Classify(actions[i].type))
             THEN stage' = "post" /\ UNCHANGED result
             ELSE stage' = "done" /\ result' = "preview"
    BY <1>4 DEF Resolve
  <2>2. /\ stage = "resolve" /\ actions \in Blocks
        /\ UNCHANGED <<block, performed, request, actions>> /\ UNCHANGED requestVars
    BY <1>4 DEF Resolve
  <2>3. stage' = "post" => Cleared'
    BY <2>1, <2>2, ResolvedEntry DEF Cleared, Allowed
  <2>4. chosen' \in Entries
    BY <2>1, <2>2, InvokeActionAssumption DEF Resolved, Kept, Exact, Fallback, SameShortName
  <2>5. Inv'
    BY <2>2, NextInv
  <2> QED BY <2>1, <2>2, <2>3, <2>4, <2>5 DEF Justified, Inv, requestVars
<1>5. CASE Post
  <2>1. /\ stage = "post" /\ stage' \in {"post", "done"}
        /\ result' \in {result, "raised"}
        /\ UNCHANGED <<block, request, actions, chosen>> /\ UNCHANGED call
        /\ performed' = {} \/ performed' = {Performs[chosen.target]}
        /\ Send \/ Lose
    BY <1>5 DEF Post, Send, Lose
  <2>2. Cleared /\ Justified /\ Performs[chosen.target] \in Types
    BY <2>1, InvokeActionAssumption DEF Cleared
  <2>3. Justified' /\ Cleared'
    BY <2>1, <2>2 DEF Justified, Cleared
  <2>4. Inv'
    BY <2>1, NextInv DEF RequestNext
  <2>5. performed' \subseteq Types
    BY <2>1, <2>2
  <2> QED BY <2>1, <2>3, <2>4, <2>5 DEF Inv
<1>6. CASE HandlePost
  <2>1. Inv'
    BY <1>6, NextInv DEF HandlePost, RequestNext
  <2>2. UNCHANGED call
    BY <1>6 DEF HandlePost, Handle
  <2> QED BY <1>6, <2>1, <2>2 DEF HandlePost, Justified, Inv
<1>7. CASE ChangeBlock
  <2>1. Inv'
    BY <1>7, NextInv DEF ChangeBlock
  <2> QED BY <1>7, <2>1 DEF ChangeBlock, Justified, Cleared, invocation, requestVars, Inv
<1>8. CASE UNCHANGED vars
  <2>1. Inv'
    BY <1>8, NextInv DEF vars
  <2> QED BY <1>8, <2>1 DEF vars, Justified, Cleared, invocation, requestVars, Inv
<1> QED BY <1>1, <1>2, <1>3, <1>4, <1>5, <1>6, <1>7, <1>8 DEF Next

\* The strengthened invariant always holds.
LEMMA AlwaysIInv == Spec => []IInv
BY Initially, Inductive, PTL DEF Spec

\* Every variable of an invocation and of its POST keeps its type.
THEOREM InvocationTyped == Spec => []TypeOK
<1>1. IInv => TypeOK
  BY DEF IInv
<1> QED BY <1>1, AlwaysIInv, PTL

\* Only an action that the tokens of the invocation allow at its own level is
\* performed, whatever was asked for (Authorised, the gate of invoke_action).
THEOREM GateHolds == Spec => []Authorised
<1>1. ASSUME Justified, NEW t \in performed
      PROVE  /\ ~request.dry_run
             /\ \/ request.confirm
                \/ t \in DOMAIN ActionPolicy
                   /\ ActionPolicy[t] \in {"read_only", "reversible"}
             /\ \/ request.irreversible
                \/ t \notin DOMAIN ActionPolicy
                \/ ActionPolicy[t] # "irreversible"
  <2>1. Allowed(request, Classify(t))
    BY <1>1 DEF Justified
  <2>2. CASE t \in DOMAIN ActionPolicy
    <3>1. ActionPolicy[t] \in Levels
      BY <2>2, InvokeActionAssumption
    <3>2. Classify(t) = ActionPolicy[t]
      BY <2>2 DEF Classify
    <3> QED BY <2>1, <2>2, <3>1, <3>2 DEF Allowed, Levels
  <2>3. CASE t \notin DOMAIN ActionPolicy
    <3>1. Classify(t) = "destructive"
      BY <2>3 DEF Classify
    <3> QED BY <2>1, <2>3, <3>1 DEF Allowed
  <2> QED BY <2>2, <2>3
<1>2. IInv => Authorised
  BY <1>1 DEF IInv, Authorised
<1> QED BY <1>2, AlwaysIInv, PTL

\* No action that shares its short name with the one asked for is performed
\* while the block that was read offers the latter (invoke_action's lookup).
THEOREM ExactMatchWins == Spec => []NamedIsPreferred
<1>1. IInv => NamedIsPreferred
  BY DEF IInv, Justified, NamedIsPreferred
<1> QED BY <1>1, AlwaysIInv, PTL

-----------------------------------------------------------------------------
(* What was performed is reported *)

\* An invocation that is over has sent nothing or has passed on its outcome.
Passed ==
    /\ stage \in {"idle", "read", "resolve"} => pc = "send"
    /\ stage = "done" => pc \in {"send", "done"}
    /\ stage = "done" /\ pc = "done" =>
          result = IF outcome.kind = "returned" THEN "executed" ELSE "raised"

ReportInv ==
    /\ IInv
    /\ NoneYet
    /\ DoneIsReported
    /\ Passed

LEMMA InitReported == Init => ReportInv
<1> SUFFICES ASSUME Init PROVE ReportInv
  OBVIOUS
<1>1. TellInv /\ IInv
  BY InitTold, Initially DEF Init
<1> QED BY <1>1 DEF Init, RequestInit, ReportInv, TellInv, Passed

\* The steps of the POST are those of a request; the others leave it alone or
\* begin a new one.
LEMMA NextReported == ReportInv /\ [Next]_vars => ReportInv'
<1> SUFFICES ASSUME ReportInv, [Next]_vars PROVE ReportInv'
  OBVIOUS
<1>1. IInv'
  BY Inductive DEF ReportInv
<1>2. TellInv
  BY DEF ReportInv, IInv, TellInv
<1>3. NoneYet' /\ DoneIsReported'
  <2>1. CASE Invoke
    BY <2>1, PostIsNew DEF Invoke
  <2>2. CASE ~Invoke
    <3>1. [RequestNext]_requestVars
      BY <2>2 DEF Next, vars, Read, NotFound, Resolve, Post, HandlePost, ChangeBlock, RequestNext
    <3> QED BY <1>2, <3>1, NextTold DEF TellInv
  <2> QED BY <2>1, <2>2
<1>4. Passed'
  <2> USE DEF Passed, ReportInv
  <2>1. CASE Invoke
    BY <2>1 DEF Invoke, NewPost
  <2>2. CASE Read
    BY <2>2 DEF Read, requestVars
  <2>3. CASE NotFound
    BY <2>3 DEF NotFound, requestVars
  <2>4. CASE Resolve
    BY <2>4 DEF Resolve, requestVars
  <2>5. CASE Post
    <3>1. CASE Send /\ UNCHANGED <<stage, result>>
      BY <2>5, <3>1 DEF Post, Send
    <3>2. CASE Lose /\ stage' = "done" /\ result' = "raised"
      <4>1. pc' = "done" /\ outcome'.kind = "raised"
        BY <3>2 DEF Lose, Raised
      <4> QED BY <3>2, <4>1
    <3> QED BY <2>5, <3>1, <3>2 DEF Post
  <2>6. CASE HandlePost
    BY <2>6 DEF HandlePost, Handle
  <2>7. CASE ChangeBlock
    BY <2>7 DEF ChangeBlock, invocation, requestVars
  <2>8. CASE UNCHANGED vars
    BY <2>8 DEF vars, invocation, requestVars
  <2> QED BY <2>1, <2>2, <2>3, <2>4, <2>5, <2>6, <2>7, <2>8 DEF Next
<1> QED BY <1>1, <1>3, <1>4 DEF ReportInv

\* An action the controller has performed, and confirmed, is never given to the
\* caller as refused or as not sent, and is reported as executed whenever the
\* confirmation can be put into words (invoke_action, base_post).
THEOREM NothingPerformedIsDenied == Spec => []PerformedIsReported
<1>1. ReportInv => PerformedIsReported
  <2> SUFFICES ASSUME ReportInv, stage = "done", reply.code \in 200..299
               PROVE  /\ result \in {"executed", "raised"}
                      /\ NotDenied(outcome)
                      /\ Sayable(call, reply) => result = "executed"
    BY DEF PerformedIsReported
  <2>1. pc = "done"
    BY DEF ReportInv, Passed, NoneYet
  <2> QED BY <2>1 DEF ReportInv, Passed, DoneIsReported
<1>2. ReportInv /\ [Next]_vars => ReportInv'
  BY NextReported
<1> QED BY InitReported, <1>1, <1>2, PTL DEF Spec
=============================================================================
