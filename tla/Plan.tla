-------------------------------- MODULE Plan --------------------------------
(***************************************************************************)
(* The vocabulary in which module Commands states what the execute methods *)
(* do to the controller: a plan is a sequence of steps, each a GET with    *)
(* the way its failure and an incomplete document are dealt with, a loop   *)
(* over members, a request that changes something, or a local exception.   *)
(***************************************************************************)
EXTENDS Naturals, Sequences

\* How a GET can fail: 404, any other code but a success, no answer at all.
Failures == {"absent", "broken", "lost"}

\* What a command makes of a failure it catches, or of a document without
\* what comes next: nothing below it, go on regardless, or a row right away.
Handling == {"skip", "go", "row"}

Exceptions ==
    {"KeyError", "ValueError", "AttributeError", "TypeError", "RuntimeError",
     "ResourceNotFound", "UnexpectedResponse", "ConnectionError",
     "FailedDiscoverAction", "UnsupportedAction", "InvalidArgument",
     "RedfishException", "RedfishUnauthorized", "RedfishForbidden",
     "TaskIdUnavailable", "AuthenticationFailed", "JSONDecodeError",
     "NameError", "InvalidURL"}

\* The exception with which default_error_handler or requests reports one.
Raises(failure) ==
    CASE failure = "absent" -> "ResourceNotFound"
      [] failure = "broken" -> "UnexpectedResponse"
      [] failure = "lost" -> "ConnectionError"

\* Whether the status code of an answer is looked at: do_async answers go to
\* async_default_error_handler, which returns True for every code.
Checks == {"unless_async", "always", "never"}

Step(op) == [op |-> op, check |-> "always", caught |-> {}, then |-> "skip",
             lacks |-> "skip", expected |-> 0, error |-> "ValueError", to |-> 0]

Get(caught, then, lacks) ==
    [Step("get") EXCEPT !.check = "unless_async", !.caught = caught,
                        !.then = then, !.lacks = lacks]

Always(step) == [step EXCEPT !.check = "always"]

(* The GETs the commands are made of *)
Read == Get({}, "skip", "go")                 \* base_query, the document returned
List == Get({}, "skip", "skip")               \* base_query, then its members
Need(error) == Get({}, "skip", error)         \* base_query, then data[...]
Try == Get(Failures, "skip", "skip")          \* except: continue
Leaf == Get(Failures, "skip", "go")           \* except: continue; .get(...) after
Soft == Get(Failures, "go", "go")             \* _get: {} when it fails
Raw(lacks) == [Get({}, "skip", lacks) EXCEPT !.check = "never"]

(* The other steps *)
Found(root) == [Step(root) EXCEPT !.lacks = "go"]
Members == Found("members")                   \* self.idrac_members
Root == Found("root")                         \* self.idrac_manage_servers
NestedRoot == Found("nested")                 \* the same, of an invoked command
RootName == [Root EXCEPT !.lacks = "AttributeError"]    \* its last part: rsplit
Each == Step("each")                          \* for m in members, depth first
Gather == Step("gather")                      \* members joined to a list walked later
Row == Step("row")                            \* rows.append
Again == Step("again")                        \* a list appended to while walked
Fork(k) == [Step("fork") EXCEPT !.to = k]     \* when all of this is done, step k
IfNoRow == Step("if_no_row")
Unless(k) == [Step("unless") EXCEPT !.to = k] \* the GETs answered in full: step k
Else(k) == [Step("else") EXCEPT !.to = k]     \* one did not: step k
End == Step("end")
Send(expected) == [Step("send") EXCEPT !.expected = expected]
Post == Send(0)                               \* the answer is not looked at
Watch == Step("watch")                        \* fetch_task when a task was opened
Await == Step("await")                        \* fetch_task of a given job
Reboot == Step("reboot")                      \* IDracManager.reboot
Fail(error) == [Step("fail") EXCEPT !.error = error]

Roots == {"members", "root", "nested"}
Reads == {"get"} \union Roots

Steps ==
    [op : Reads \union
          {"each", "gather", "row", "again", "fork", "if_no_row", "unless", "else",
           "end", "send", "watch", "await", "reboot", "fail"},
     check : Checks, caught : SUBSET Failures, then : Handling \union Exceptions,
     lacks : Handling \union Exceptions, expected : {0} \union 200..299,
     error : Exceptions, to : Nat]
=============================================================================
