----------------------------- MODULE RunCommand -----------------------------
(***************************************************************************)
(* One invocation of the command line (main, sync_invoke, execute): the    *)
(* version check, the plan of the command, the GETs with which main        *)
(* completes the answer, and how it ends for the caller.  Each GET may be  *)
(* answered, answered without what the command looks for, or fail; so may  *)
(* those with which the manager and the system a command works on are      *)
(* found.  Whether these are the right ones is a question of module        *)
(* Session.                                                                *)
(***************************************************************************)
EXTENDS Plan, ApiRespond, FiniteSets

CONSTANTS
    Commands,       \* the plans of each command, by its name
    Fan,            \* bound of the model: members of a collection
    RefusalCodes,   \* codes of a controller that has done nothing
    MaxFaults       \* bound of the model: incomplete or failed answers

Has(p, ops) == \E k \in DOMAIN p : p[k].op \in ops

\* A jump goes forward, to something the command still has to do.
JumpsForward(p) ==
    \A k \in DOMAIN p : p[k].op \in {"fork", "unless", "else"} =>
        p[k].to \in k + 1..Len(p) /\ p[p[k].to].op # "end"

\* What a growing list is walked for again is the GET of one of its paths.
AsksAgain(p) ==
    \A k \in DOMAIN p : p[k].op = "again" => k > 1 /\ p[k - 1].op = "get"

\* A command that sends a change goes no further along a GET it does not
\* insist on.
Insists(p) ==
    Has(p, {"send"}) =>
        \A k \in DOMAIN p : p[k].op = "get" /\ "go" \in {p[k].lacks, p[k].then} =>
            k + 1 \in DOMAIN p /\ p[k + 1].op = "end"

\* Step s comes once: straight after what begins the plan, or after the loop
\* between the fork at f and the end at e.
Once(p, s, f, e) ==
    /\ f \in 0..e /\ e \in 0..s - 1
    /\ \A k \in (1..f - 1) \union (e + 1..s - 1) : p[k].op \in Reads
    /\ \A k \in s + 1..Len(p) : p[k].op \in {"watch", "reboot", "end", "fail"}
    /\ \/ f = 0 /\ e = 0
       \/ /\ f > 0 /\ p[f].op = "fork" /\ p[f].to = e + 1 /\ p[e].op = "end"
          /\ \A k \in f + 1..e : p[k].op \in Reads \union {"each", "end"}

\* A command sends one change, reads nothing after it, and resets the host only
\* then.
ActsOnce(p) ==
    /\ \A s \in DOMAIN p : p[s].op = "send" => \E f, e \in 0..s : Once(p, s, f, e)
    /\ \A r \in DOMAIN p : p[r].op = "reboot" => \E s \in 1..r - 1 : p[s].op = "send"

\* From step k on there is a row to come, after GETs and loops.
ToARow(p, k) ==
    \E r \in k..Len(p) :
        /\ p[r].op \in {"row", "again"}
        /\ \A j \in k..r - 1 : p[j].op \in {"get", "each", "gather"}

\* A command that reports rows has one for each member it walks.
MembersHaveRows(p) ==
    Has(p, {"row", "again"}) =>
        \A k \in DOMAIN p : p[k].op \in {"each", "gather"} => ToARow(p, k + 1)

ASSUME RunCommandAssumption ==
    /\ \A c \in DOMAIN Commands : Commands[c] # {} /\ Commands[c] \subseteq Seq(Steps)
    /\ RefusalCodes \subseteq 400..499
    /\ Fan \in Nat /\ MaxFaults \in Nat

\* How the execute methods are written.
ASSUME PlanAssumption ==
    \A c \in DOMAIN Commands : \A p \in Commands[c] :
        /\ JumpsForward(p) /\ AsksAgain(p)
        /\ Insists(p) /\ ActsOnce(p)
        /\ MembersHaveRows(p)

VARIABLES
    command, plan, do_async,    \* what is invoked
    phase,          \* version | execute | vendor | dell | done
    pending,        \* branches of the plan still to be followed, next first
    kept,           \* the cached properties idrac_members, idrac_manage_servers
    rows,           \* rows of the answer: their node, and whether all was read
    read_from,      \* history: nodes whose members were walked
    given_up,       \* history: nodes below which nothing is walked
    effect,         \* what the controller did: applied, task, reset
    verdict,        \* the verdict on the last request
    watched,        \* whether the answer has the state fetch_task returned
    faults,         \* history: incomplete or failed answers
    blamed,         \* history: one of them after the controller had acted
    outcome         \* none | shown | silent | error | traceback

invocation == <<command, plan, do_async>>
walk == <<pending, kept, rows, read_from, given_up>>
acts == <<effect, verdict, watched>>
vars == <<invocation, phase, walk, acts, faults, blamed, outcome>>

\* nowhere: the path it asks for is put together from a manager or a system that
\* was not found, None or empty.
Branch(step, node) ==
    [step |-> step, node |-> node, read |-> TRUE, stray |-> FALSE, nowhere |-> FALSE]

branch == Head(pending)
step == plan[branch.step]
At(op) == phase = "execute" /\ pending # <<>> /\ branch.step <= Len(plan) /\ step.op = op
next == [branch EXCEPT !.step = @ + 1]
Follow(b) == pending' = <<b>> \o Tail(pending)
Leave == pending' = Tail(pending)

Init ==
    /\ command \in DOMAIN Commands
    /\ plan \in Commands[command]
    /\ do_async \in BOOLEAN
    /\ phase = "version"
    /\ pending = <<Branch(1, <<>>)>>
    /\ kept = [r \in Roots |-> "none"]
    /\ rows = {} /\ read_from = {} /\ given_up = {}
    /\ effect = {}
    /\ verdict = "none"
    /\ watched = FALSE
    /\ faults = 0
    /\ blamed = FALSE
    /\ outcome = "none"

-----------------------------------------------------------------------------
(* How an invocation ends *)

\* The exceptions main and idrac_main_ctl put into words.
Caught ==
    {"RedfishException", "RedfishUnauthorized", "RedfishForbidden",
     "TaskIdUnavailable", "ResourceNotFound", "InvalidArgument",
     "FailedDiscoverAction", "UnsupportedAction", "ConnectionError",
     "AuthenticationFailed"}

Raise(exception) ==
    /\ phase' = "done"
    /\ outcome' = IF exception \in Caught THEN "error" ELSE "traceback"

Continue == UNCHANGED <<phase, outcome>>

\* An answer that is not what was asked for.
Fault ==
    /\ faults < MaxFaults
    /\ faults' = faults + 1
    /\ blamed' = (blamed \/ effect # {})

NoFault == UNCHANGED <<faults, blamed>>

\* The exceptions of a request that has no such host or port to go to.
Unreachable == {"ConnectionError", "InvalidURL"}

-----------------------------------------------------------------------------
(* main, before and after the command *)

\* check_api_version falls back to the service root on a 404.
CheckVersion ==
    /\ phase = "version"
    /\ \/ /\ phase' = "execute"
          /\ NoFault
          /\ UNCHANGED outcome
       \/ /\ Fault
          /\ \/ phase' = "execute" /\ UNCHANGED outcome
             \/ \E f \in Failures : Raise(Raises(f))
    /\ UNCHANGED <<invocation, walk, acts>>

\* The command has returned: main asks who made the controller.
CommandReturns ==
    /\ phase = "execute"
    /\ pending = <<>>
    /\ phase' = "vendor"
    /\ UNCHANGED <<invocation, walk, acts, faults, blamed, outcome>>

\* The state that fetch_task returns is a member of an Enum.  The encoder asks for
\* the __dict__ of what has none, and json_printer swallows the AttributeError.
Show ==
    /\ phase' = "done"
    /\ outcome' = IF watched THEN "silent" ELSE "shown"

\* A document of a Dell controller is given two versions before it is shown.
AskVendor ==
    /\ phase = "vendor"
    /\ \/ NoFault /\ \/ Show
                     \/ phase' = "dell" /\ UNCHANGED outcome
       \/ Fault /\ \/ Show
                   \/ \E f \in Failures : Raise(Raises(f))
    /\ UNCHANGED <<invocation, walk, acts>>

AskVersions ==
    /\ phase = "dell"
    /\ \/ NoFault /\ Show
       \/ Fault /\ \/ Show
                   \/ Raise("RuntimeError")
                   \/ \E f \in Failures : Raise(Raises(f))
    /\ UNCHANGED <<invocation, walk, acts>>

-----------------------------------------------------------------------------
(* GETs *)

\* What becomes of the branch when its GET gave nothing to go on with.
Handle(how) ==
    \/ /\ how = "skip"
       /\ Leave /\ Continue
       /\ given_up' = given_up \union (IF branch.stray THEN {} ELSE {branch.node})
       /\ UNCHANGED rows
    \/ /\ how = "go"
       /\ Follow([next EXCEPT !.read = FALSE]) /\ Continue
       /\ UNCHANGED <<given_up, rows>>
    \/ /\ how = "row"
       /\ Leave /\ Continue
       /\ rows' = rows \union {[node |-> branch.node, read |-> FALSE]}
       /\ UNCHANGED given_up
    \/ /\ how \in Exceptions
       /\ Raise(how)
       /\ UNCHANGED <<pending, given_up, rows>>

Answered ==
    /\ At("get") /\ ~branch.stray /\ ~branch.nowhere
    /\ Follow(next) /\ Continue
    /\ NoFault
    /\ UNCHANGED <<invocation, kept, rows, read_from, given_up, acts>>

Incomplete ==
    /\ At("get") /\ ~branch.stray /\ ~branch.nowhere
    /\ Handle(step.lacks)
    /\ Fault
    /\ UNCHANGED <<invocation, kept, read_from, acts>>

Unchecked == step.check = "never" \/ (step.check = "unless_async" /\ do_async)

\* Mutant: a failure that was caught ends the loop over the members.
FailsBreak(f) ==
    \/ f # "lost" /\ Unchecked /\ Handle(step.lacks)
    \/ /\ f = "lost" \/ ~Unchecked
       /\ f \in step.caught
       /\ pending' = <<>> /\ Continue
       /\ given_up' = given_up \union {branch.node}
       /\ UNCHANGED rows
    \/ (f = "lost" \/ ~Unchecked) /\ f \notin step.caught /\ Handle(Raises(f))

\* Mutant: the error handler returns instead of raising.
FailsQuietly(f) ==
    \/ f # "lost" /\ Unchecked /\ Handle(step.lacks)
    \/ (f = "lost" \/ ~Unchecked) /\ f \in step.caught /\ Handle(step.then)
    \/ (f = "lost" \/ ~Unchecked) /\ f \notin step.caught /\ Handle("go")

\* An error body passes for the document when no one looks at the code.
Fails(f) ==
    \/ f # "lost" /\ Unchecked /\ Handle(step.lacks)
    \/ (f = "lost" \/ ~Unchecked) /\ f \in step.caught /\ Handle(step.then)
    \/ (f = "lost" \/ ~Unchecked) /\ f \notin step.caught /\ Handle(Raises(f))

Refused ==
    /\ At("get") /\ ~branch.stray /\ ~branch.nowhere
    /\ \E f \in Failures : Fails(f)
    /\ Fault
    /\ UNCHANGED <<invocation, kept, read_from, acts>>

\* The path of a stray branch is the text of a document: there is no such
\* resource on any controller.
Stray ==
    /\ At("get") /\ branch.stray
    /\ Fails("absent")
    /\ NoFault
    /\ UNCHANGED <<invocation, kept, read_from, acts>>

\* Below an empty path the controller has something else or nothing; with None
\* there is no such host.
AskNowhere ==
    /\ At("get") /\ branch.nowhere /\ ~branch.stray
    /\ \/ Handle(step.lacks)
       \/ \E f \in Failures : Fails(f)
       \/ step.caught # Failures /\ Handle("InvalidURL")
    /\ NoFault
    /\ UNCHANGED <<invocation, kept, read_from, acts>>

\* A root is read once and kept.  Documents without the members or the links it
\* is taken from make it None or empty, which is kept too, and the command goes
\* on, unless it takes the path apart.
FindRoot(root) ==
    /\ At(root)
    /\ \/ kept[root] # "none" /\ UNCHANGED kept /\ NoFault
       \/ kept[root] = "none" /\ kept' = [kept EXCEPT ![root] = "found"] /\ NoFault
       \/ kept[root] = "none" /\ kept' = [kept EXCEPT ![root] = "nothing"] /\ Fault
    /\ \/ Follow([next EXCEPT !.nowhere = kept'[root] = "nothing"]) /\ Continue
       \/ kept'[root] = "nothing" /\ step.lacks \in Exceptions /\ Raise(step.lacks)
          /\ UNCHANGED pending

RootFails(root) ==
    /\ At(root) /\ kept[root] = "none"
    /\ \/ \E f \in Failures : Raise(Raises(f))
       \/ \E e \in Unreachable : Raise(e)
    /\ Fault
    /\ UNCHANGED <<pending, kept>>

Resolve ==
    /\ \E root \in Roots : FindRoot(root) \/ RootFails(root)
    /\ UNCHANGED <<invocation, rows, read_from, given_up, acts>>

-----------------------------------------------------------------------------
(* Loops and rows *)

Children == [i \in 1..Fan |-> Branch(branch.step + 1, Append(branch.node, i))]

Walk ==
    /\ \/ At("each") /\ pending' = Children \o Tail(pending)
       \/ At("gather") /\ pending' = Tail(pending) \o Children
    /\ read_from' = read_from \union {branch.node}
    /\ UNCHANGED <<kept, rows, given_up>>

\* Mutant: the loop over the growing list is given paths that exist.
AddRowUnmarked ==
    /\ \/ At("row") /\ Leave
       \/ At("again") /\ pending' = Append(Tail(pending), [branch EXCEPT !.step = @ - 1])
    /\ rows' = rows \union {[node |-> branch.node, read |-> branch.read]}
    /\ UNCHANGED <<kept, read_from, given_up>>

AddRow ==
    /\ \/ At("row") /\ Leave
       \/ /\ At("again")
          /\ pending' = Append(Tail(pending), [branch EXCEPT !.step = @ - 1, !.stray = TRUE])
    /\ rows' = rows \union {[node |-> branch.node, read |-> branch.read]}
    /\ UNCHANGED <<kept, read_from, given_up>>

Forked == <<[next EXCEPT !.node = Append(@, 1)], Branch(step.to, Append(branch.node, 0))>>

\* The second branch waits until all of the first is done.  What comes after
\* "unless" and "else" is asked for by a path put together anew.
Jump ==
    /\ \/ At("fork") /\ pending' = Forked \o Tail(pending)
       \/ /\ At("unless")
          /\ Follow([next EXCEPT !.read = TRUE, !.nowhere = FALSE, !.step = IF branch.read THEN step.to ELSE @])
       \/ /\ At("else")
          /\ Follow([next EXCEPT !.read = TRUE, !.nowhere = FALSE, !.step = IF branch.read THEN @ ELSE step.to])
       \/ At("if_no_row") /\ IF rows = {} THEN Follow(next) ELSE Leave
       \/ At("end") /\ Leave
       \/ /\ phase = "execute" /\ pending # <<>> /\ branch.step > Len(plan)
          /\ Leave
    /\ UNCHANGED <<kept, rows, read_from, given_up>>

Local ==
    /\ Walk \/ AddRow \/ Jump
    /\ UNCHANGED <<invocation, phase, acts, faults, blamed, outcome>>

LocalError ==
    /\ At("fail")
    /\ Raise(step.error)
    /\ UNCHANGED <<invocation, walk, acts, faults, blamed>>

-----------------------------------------------------------------------------
(* Requests that change the controller *)

call == [expected |-> step.expected, ignored |-> 0, async |-> do_async]

\* expected 0: the answer is handed to a function that raises on any.
Report(reply) ==
    LET r == IF step.expected = 0 THEN Returned("Ok") ELSE Respond(call, reply) IN
    /\ verdict' = r.verdict
    /\ \/ r.kind = "returned" /\ Follow(next) /\ Continue
       \/ r.kind = "raised" /\ Raise(r.error) /\ UNCHANGED pending

Sent ==
    /\ At("send") /\ ~branch.nowhere
    /\ \/ effect' = effect \union {"applied"} /\ \E c \in {200, 204} : Report(Reply(c, FALSE, "json"))
       \/ effect' = effect \union {"task"} /\ Report(Reply(202, TRUE, "json"))
       \/ effect' = effect /\ \E c \in RefusalCodes : Report(Reply(c, FALSE, "error"))
    /\ NoFault
    /\ UNCHANGED <<invocation, kept, rows, read_from, given_up, watched>>

\* A request to no resource of the controller, or to no host, changes nothing.
SentNowhere ==
    /\ At("send") /\ branch.nowhere
    /\ \/ \E c \in RefusalCodes : Report(Reply(c, FALSE, "error"))
       \/ \E e \in Unreachable : Raise(e) /\ UNCHANGED <<verdict, pending>>
    /\ NoFault
    /\ UNCHANGED <<invocation, kept, rows, read_from, given_up, effect, watched>>

\* A server error, a task without a name, or no answer: the caller cannot know
\* whether the controller has acted.
SentInVain ==
    /\ At("send") /\ ~branch.nowhere
    /\ faults < MaxFaults
    /\ faults' = faults + 1
    /\ blamed' = TRUE
    /\ effect' \in {effect, effect \union {"applied"}, effect \union {"task"}}
    /\ \/ Report(Reply(500, FALSE, "error"))
       \/ Report(Reply(202, FALSE, "json"))
       \/ Raise("ConnectionError") /\ UNCHANGED <<verdict, pending>>
    /\ UNCHANGED <<invocation, kept, rows, read_from, given_up, watched>>

\* How fetch_task fails.
WatchRaises ==
    {"ConnectionError", "AuthenticationFailed", "RedfishForbidden", "ResourceNotFound",
     "UnexpectedResponse", "JSONDecodeError", "KeyError", "ValueError"}

\* fetch_task, of a given job or when the request has opened a task, and the state
\* it returns, put into the answer (module FetchTask has which).
WatchTask ==
    /\ At("watch") \/ At("await")
    /\ \/ /\ Follow(next) /\ Continue /\ NoFault
          /\ watched' = (watched \/ At("await") \/ verdict = "AcceptedTaskGenerated")
       \/ /\ At("await") \/ verdict = "AcceptedTaskGenerated"
          /\ \E e \in WatchRaises : Raise(e)
          /\ Fault
          /\ UNCHANGED <<pending, watched>>
    /\ UNCHANGED <<invocation, kept, rows, read_from, given_up, effect, verdict>>

\* reboot asks for the power state and resets a host that is on; its result is
\* not looked at (module JobApply has its steps).
RebootHost ==
    /\ At("reboot")
    /\ effect' \in {effect, effect \union {"reset"}}
    /\ \/ Follow(next) /\ Continue /\ NoFault
       \/ /\ \E f \in Failures : Raise(Raises(f))
          /\ faults < MaxFaults
          /\ faults' = faults + 1
          /\ blamed' = (blamed \/ effect' # {})
          /\ UNCHANGED pending
    /\ UNCHANGED <<invocation, kept, rows, read_from, given_up, verdict, watched>>

Next ==
    \/ CheckVersion \/ CommandReturns \/ AskVendor \/ AskVersions
    \/ Answered \/ Incomplete \/ Refused \/ Stray \/ AskNowhere \/ Resolve
    \/ Local \/ LocalError
    \/ Sent \/ SentNowhere \/ SentInVain \/ WatchTask \/ RebootHost

Spec == Init /\ [][Next]_vars
FairSpec == Spec /\ WF_vars(Next)

-----------------------------------------------------------------------------
(* Properties *)

Nodes == Seq(Nat)
Branches ==
    [step : Nat \ {0}, node : Nodes, read : BOOLEAN, stray : BOOLEAN, nowhere : BOOLEAN]

\* Every variable keeps its type.
TypeOK ==
    /\ command \in DOMAIN Commands /\ plan \in Commands[command] /\ do_async \in BOOLEAN
    /\ phase \in {"version", "execute", "vendor", "dell", "done"}
    /\ pending \in Seq(Branches)
    /\ kept \in [Roots -> {"none", "found", "nothing"}]
    /\ rows \subseteq [node : Nodes, read : BOOLEAN]
    /\ read_from \subseteq Nodes /\ given_up \subseteq Nodes
    /\ effect \subseteq {"applied", "task", "reset"}
    /\ verdict \in Verdicts \union {"none"} /\ watched \in BOOLEAN
    /\ faults \in 0..MaxFaults /\ blamed \in BOOLEAN
    /\ outcome \in {"none", "shown", "silent", "error", "traceback"}

Below(node, root) ==
    Len(root) <= Len(node) /\ SubSeq(node, 1, Len(root)) = root

RowNodes == {r.node : r \in rows}
PendingNodes == {pending[k].node : k \in 1..Len(pending)}

\* An inventory command skips what it cannot read and nothing else: each
\* member of a list it walks has its row, has been walked or given up itself,
\* or is still to come, and no row comes from below what was given up.
CostsItsOwnBranch ==
    (\E k \in 1..Len(plan) : plan[k].op \in {"row", "again"}) =>
       /\ \A p \in read_from, i \in 1..Fan :
             Append(p, i) \in read_from \union given_up \union RowNodes \union PendingNodes
       /\ \A g \in given_up, n \in RowNodes : ~Below(n, g)

\* No document was to be read below the manager or the system found last.
NothingBelow(k) ==
    \A g \in 1..k - 1 : plan[g].op = "get" => \E r \in g + 1..k - 1 : plan[r].op \in Roots

\* A request that changes the controller goes to a target the command has read:
\* no GET on the way to it failed or lacked what was looked for.  The manager or
\* the system is the one thing the code may have failed to find: such a request
\* (to nobody, see SentNowhere) is made only where the target is put together
\* from that alone, with no document to be read below it.
SentOnWhatWasRead ==
    At("send") => branch.read /\ (branch.nowhere => NothingBelow(branch.step))

\* A change the controller has made and said so is shown to the caller when
\* nothing fails after it, with two exceptions: a command whose own code cannot
\* finish after the request, and a change for which the controller has opened a
\* task, of which nothing is printed once fetch_task has watched it.
DoneIsShown ==
    phase = "done" /\ effect # {} /\ ~blamed /\ ~do_async =>
       \/ outcome = "shown"
       \/ outcome = "silent" /\ "task" \in effect
       \/ Has(plan, {"fail"})

\* Every invocation ends, the one that appends to the list it walks too.
Ends == <>(phase = "done")
=============================================================================
