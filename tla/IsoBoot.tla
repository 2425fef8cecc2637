------------------------------- MODULE IsoBoot -------------------------------
(***************************************************************************)
(* Boot once from an ISO image: eject_vm, insert_vm and boot-one-shot -r   *)
(* one after the other, each in a process of its own and whether or not    *)
(* the one before it failed (example_boot_from_iso_one_shot.sh).  Somebody *)
(* else uses the same drive and host; requests may be refused, queued as a *)
(* task, or lose their answer.                                             *)
(***************************************************************************)
EXTENDS ApiRespond, FiniteSets

CONSTANTS
    Args,               \* the values of the arguments, see Arguments
    RefusalCodes,       \* codes of a controller that does not do as asked
    MaxOther,           \* bound of the model: acts of somebody else
    MaxFaults           \* bound of the model: failed GETs, lost answers, failed tasks

\* compute_reset: whether IDRAC_API has the attribute COMPUTE_RESET, which is
\* not in the sources but which a test defines.
Arguments == [eject : BOOLEAN, strict : BOOLEAN, power_on : BOOLEAN, reboot : BOOLEAN, compute_reset : BOOLEAN]

ASSUME IsoBootAssumption ==
    /\ Args \subseteq Arguments
    /\ RefusalCodes \subseteq 400..599
    /\ MaxOther \in Nat /\ MaxFaults \in Nat

VARIABLES
    drive,          \* what is in the virtual drive: none, mine, other
    boot_once,      \* the one-time override is set to the drive
    power,          \* on | off
    tasks,          \* tasks of the controller, by command and operation
    args,
    cmd,            \* the command that runs: eject, insert, boot, none
    doing,          \* its operation: eject, insert, patch, reset
    pc,
    seen,           \* the content of the drive the last query showed
    answer,         \* what the answer of each command says, see Words
    dropped,        \* history: the nested eject failed and nobody looked
    mounted, meddled, raced,    \* history, see Other
    boots,          \* history: who booted the host, and from what
    others, faults

drives == <<drive, boot_once, power, boots, mounted>>
history == <<dropped, meddled, raced, others>>
vars == <<drives, tasks, args, cmd, doing, pc, seen, answer, history, faults>>

Contents == {"none", "mine", "other"}
Commands == {"eject", "insert", "boot"}

\* done, failed (the verdict Error, a task that has not completed), idle (the
\* host was not reset), error (an exception, in place of the answer); mute: an
\* Enum is in the answer, the state of a watched task or the Ok of an empty
\* drive, with which json_printer prints none of it.
Words == {"done", "failed", "idle", "error", "mute"}
Keys == ({"eject", "insert"} \X {"eject"}) \union {<<"insert", "insert">>, <<"boot", "patch">>, <<"boot", "reset">>}
key == <<cmd, doing>>

Init ==
    /\ drive \in {"none", "other"}
    /\ boot_once = FALSE
    /\ power \in {"on", "off"}
    /\ tasks = [k \in Keys |-> "none"]
    /\ args \in Args
    /\ cmd = "eject" /\ doing = "eject" /\ pc = "media"
    /\ seen = "none"
    /\ answer = [c \in Commands |-> {}]
    /\ dropped = FALSE /\ mounted = FALSE /\ meddled = FALSE /\ raced = FALSE
    /\ boots = {}
    /\ others = 0 /\ faults = 0

Fault == faults < MaxFaults /\ faults' = faults + 1
NoFault == UNCHANGED faults

-----------------------------------------------------------------------------
(* The controller and the host *)

HostBoots(who) ==
    /\ boots' = boots \union {[by |-> who, from |-> IF boot_once THEN drive ELSE "none"]}
    /\ boot_once' = FALSE
    /\ UNCHANGED <<drive, power, mounted>>

Possible(op) ==
    CASE op = "eject" -> drive # "none"
      [] op = "insert" -> drive = "none"
      [] op = "patch" -> TRUE
      [] op = "reset" -> power = "on"

Perform(op) ==
    /\ Possible(op)
    /\ \/ op = "eject" /\ drive' = "none" /\ UNCHANGED <<boot_once, power, boots, mounted>>
       \/ op = "insert" /\ drive' = "mine" /\ mounted' = TRUE /\ UNCHANGED <<boot_once, power, boots>>
       \/ op = "patch" /\ boot_once' = TRUE /\ UNCHANGED <<drive, power, boots, mounted>>
       \/ op = "reset" /\ HostBoots("client")

TaskEnds ==
    /\ \E k \in Keys :
          /\ tasks[k] = "running"
          /\ \/ Perform(k[2]) /\ tasks' = [tasks EXCEPT ![k] = "completed"] /\ NoFault
             \/ ~Possible(k[2]) /\ tasks' = [tasks EXCEPT ![k] = "failed"] /\ NoFault /\ UNCHANGED drives
             \/ Fault /\ tasks' = [tasks EXCEPT ![k] = "failed"] /\ UNCHANGED drives
    /\ UNCHANGED <<args, cmd, doing, pc, seen, answer, history>>

\* Somebody else inserts, ejects, resets or switches the power.  raced: since
\* the drive was last queried; meddled: since the image was inserted.
Other ==
    /\ others < MaxOther
    /\ others' = others + 1
    /\ \/ drive = "none" /\ drive' = "other" /\ UNCHANGED <<boot_once, power, boots, mounted>>
       \/ drive # "none" /\ drive' = "none" /\ UNCHANGED <<boot_once, power, boots, mounted>>
       \/ power = "on" /\ HostBoots("other")
       \/ power = "on" /\ power' = "off" /\ UNCHANGED <<drive, boot_once, boots, mounted>>
       \/ /\ power = "off" /\ power' = "on"
          /\ boots' = boots \union {[by |-> "other", from |-> IF boot_once THEN drive ELSE "none"]}
          /\ boot_once' = FALSE
          /\ UNCHANGED <<drive, mounted>>
    /\ raced' = TRUE
    /\ meddled' = (meddled \/ mounted)
    /\ UNCHANGED <<tasks, args, cmd, doing, pc, seen, answer, dropped, faults>>

-----------------------------------------------------------------------------
(* How a command goes on and ends *)

Script == [eject |-> "insert", insert |-> "boot", boot |-> "none"]
FirstOp == [insert |-> "insert", boot |-> "patch", none |-> "patch"]
FirstStep == [insert |-> "media", boot |-> "current", none |-> "done"]

EndCommand ==
    /\ cmd' = Script[cmd]
    /\ doing' = FirstOp[Script[cmd]]
    /\ pc' = FirstStep[Script[cmd]]

\* The exception is what the user is shown of the command.
Raise == answer' = [answer EXCEPT ![cmd] = {"error"}] /\ EndCommand /\ UNCHANGED dropped

Goto(label) == pc' = label /\ UNCHANGED <<cmd, doing, answer, dropped>>
GotoOp(op, label) == doing' = op /\ pc' = label /\ UNCHANGED cmd

Say(words) == answer' = [answer EXCEPT ![cmd] = @ \union words]

\* insert_vm looks at the error of the eject it asked for, which no refusal
\* and no failed task ever sets.  boot-one-shot shows what it has to say of the
\* PATCH and of the reset in one answer.
Finish(words) ==
    \/ /\ cmd = "insert" /\ doing = "eject"
       /\ GotoOp("insert", "post")
       /\ dropped' = (dropped \/ "failed" \in words)
       /\ UNCHANGED answer
    \/ /\ doing = "patch" /\ args.reboot
       /\ GotoOp("reset", "power")
       /\ Say(words)
       /\ UNCHANGED dropped
    \/ /\ \/ cmd = "eject" \/ doing = "insert" \/ doing = "reset"
          \/ doing = "patch" /\ ~args.reboot
       /\ EndCommand
       /\ Say(words)
       /\ UNCHANGED dropped

-----------------------------------------------------------------------------
(* eject_vm and insert_vm up to the POST *)

\* get_vm: the query of the drive, from wherever the collection is linked.
QueryMedia ==
    /\ pc = "media"
    /\ \/ /\ seen' = drive
          /\ raced' = FALSE
          /\ Goto("version")
          /\ NoFault
       \/ /\ Raise /\ Fault
          /\ UNCHANGED <<seen, raced>>
    /\ UNCHANGED <<drives, tasks, args, meddled, others>>

\* version_api, then the device among the members of the answer above.
QueryVersion ==
    /\ pc = "version"
    /\ \/ Goto("decide") /\ NoFault
       \/ Raise /\ Fault
    /\ UNCHANGED <<drives, tasks, args, seen, meddled, raced, others>>

\* What the query showed decides, not what is in the drive by now.
DecideEject ==
    /\ pc = "decide" /\ doing = "eject"
    /\ \/ seen # "none" /\ Goto("post")
       \/ seen = "none" /\ cmd = "eject" /\ args.strict /\ Raise
       \/ seen = "none" /\ (cmd = "insert" \/ ~args.strict) /\ Finish({"mute"})
    /\ UNCHANGED <<drives, tasks, args, seen, meddled, raced, others, faults>>

\* Mutant: a drive that has a medium already is good enough.
DecideInsertAny ==
    /\ pc = "decide" /\ doing = "insert"
    /\ \/ args.eject /\ GotoOp("eject", "media") /\ UNCHANGED <<answer, dropped>>
       \/ ~args.eject /\ seen # "none" /\ Finish({"done"})
       \/ ~args.eject /\ seen = "none" /\ Goto("post")
    /\ UNCHANGED <<drives, tasks, args, seen, meddled, raced, others, faults>>

DecideInsert ==
    /\ pc = "decide" /\ doing = "insert"
    /\ \/ args.eject /\ GotoOp("eject", "media") /\ UNCHANGED <<answer, dropped>>
       \/ ~args.eject /\ seen # "none" /\ Raise
       \/ ~args.eject /\ seen = "none" /\ Goto("post")
    /\ UNCHANGED <<drives, tasks, args, seen, meddled, raced, others, faults>>

-----------------------------------------------------------------------------
(* boot-one-shot up to the PATCH, and from there to the reset *)

\* --power_on invokes the chassis reset, which cannot finish; then the boot
\* devices, among which the requested one has to be.
CheckDevice ==
    /\ pc = "current"
    /\ \/ args.power_on /\ Raise /\ NoFault
       \/ ~args.power_on /\ Goto("post") /\ NoFault
       \/ ~args.power_on /\ Raise /\ Fault
    /\ UNCHANGED <<drives, tasks, args, seen, meddled, raced, others>>

\* Mutant: a host that is off counts as reset.
ReadPowerSilent ==
    /\ pc = "power"
    /\ \/ power = "on" /\ Goto("target") /\ NoFault
       \/ power = "off" /\ Finish({"done"}) /\ NoFault
       \/ Raise /\ Fault
    /\ UNCHANGED <<drives, tasks, args, seen, meddled, raced, others>>

\* reboot() leaves a host alone that is off, or whose chassis does not say,
\* and there is no PowerState in its answer then, or nothing.
ReadPower ==
    /\ pc = "power"
    /\ \/ power = "on" /\ Goto("target") /\ NoFault
       \/ power = "off" /\ Finish({"idle"}) /\ NoFault
       \/ Finish({"idle"}) /\ Fault
       \/ Raise /\ Fault
    /\ UNCHANGED <<drives, tasks, args, seen, meddled, raced, others>>

\* RebootHost asks for the system and builds the target of the reset.
FindTarget ==
    /\ pc = "target"
    /\ \/ args.compute_reset /\ Goto("post") /\ NoFault
       \/ ~args.compute_reset /\ Raise /\ NoFault
       \/ Raise /\ Fault
    /\ UNCHANGED <<drives, tasks, args, seen, meddled, raced, others>>

-----------------------------------------------------------------------------
(* The requests *)

Expected == IF doing = "patch" THEN 204 ELSE 202
Verdict(reply) == Respond([expected |-> Expected, ignored |-> 0, async |-> FALSE], reply)

\* Mutant: a request the controller has queued is taken for done.
OnReplyUnwatched(reply) ==
    LET r == Verdict(reply) IN
    \/ r.kind = "raised" /\ Raise
    \/ r.kind = "returned" /\ Finish({IF r.verdict = "Error" THEN "failed" ELSE "done"})

OnReply(reply) ==
    LET r == Verdict(reply) IN
    \/ r.kind = "raised" /\ Raise
    \/ r.kind = "returned" /\ r.verdict = "AcceptedTaskGenerated" /\ Goto("watch")
    \/ r.kind = "returned" /\ r.verdict # "AcceptedTaskGenerated" /\
          Finish({IF r.verdict = "Error" THEN "failed" ELSE "done"})

Queue == tasks' = [tasks EXCEPT ![key] = "running"]

Send ==
    /\ pc = "post"
    /\ \/ Perform(doing) /\ \E c \in {200, 204} : OnReply(Reply(c, FALSE, "json"))
          /\ NoFault /\ UNCHANGED tasks
       \/ Queue /\ OnReply(Reply(202, TRUE, "json")) /\ NoFault /\ UNCHANGED drives
       \/ \E c \in RefusalCodes : OnReply(Reply(c, FALSE, "error"))
          /\ NoFault /\ UNCHANGED <<tasks, drives>>
    /\ UNCHANGED <<args, seen, meddled, raced, others>>

\* The answer is lost, whatever the controller made of the request.
SendLost ==
    /\ pc = "post"
    /\ Fault
    /\ Raise
    /\ \/ Perform(doing) /\ UNCHANGED tasks
       \/ Queue /\ UNCHANGED drives
       \/ UNCHANGED <<tasks, drives>>
    /\ UNCHANGED <<args, seen, meddled, raced, others>>

\* Mutant: a task that has failed is polled on.
WatchOn ==
    /\ pc = "watch"
    /\ \/ tasks[key] = "completed" /\ Finish({"mute"}) /\ NoFault
       \/ tasks[key] = "running" /\ Finish({"mute", "failed"}) /\ Fault
       \/ Raise /\ Fault
    /\ UNCHANGED <<drives, tasks, args, seen, meddled, raced, others>>

\* fetch_task, by its contract (module WatchContract): the state of the ended
\* task, a state it was in on the way or Unknown, or an exception.
Watch ==
    /\ pc = "watch"
    /\ \/ tasks[key] = "completed" /\ Finish({"mute"}) /\ NoFault
       \/ tasks[key] = "failed" /\ Finish({"mute", "failed"}) /\ NoFault
       \/ tasks[key] = "running" /\ Finish({"mute", "failed"}) /\ Fault
       \/ Raise /\ Fault
    /\ UNCHANGED <<drives, tasks, args, seen, meddled, raced, others>>

Client ==
    \/ QueryMedia \/ QueryVersion \/ DecideEject \/ DecideInsert
    \/ CheckDevice \/ ReadPower \/ FindTarget
    \/ Send \/ SendLost \/ Watch

Next == Client \/ TaskEnds \/ Other

Spec == Init /\ [][Next]_vars

\* The script runs on without faults and a running task ends; no fault has to
\* happen, and nobody else has to do anything.
FairSpec == Spec /\ WF_vars(Client /\ NoFault) /\ WF_vars(TaskEnds)

-----------------------------------------------------------------------------
(* Properties *)

\* Every variable keeps its type.
TypeOK ==
    /\ drive \in Contents /\ boot_once \in BOOLEAN /\ power \in {"on", "off"}
    /\ tasks \in [Keys -> {"none", "running", "completed", "failed"}]
    /\ args \in Args
    /\ cmd \in {"eject", "insert", "boot", "none"}
    /\ cmd # "none" => key \in Keys
    /\ pc \in {"media", "version", "decide", "post", "watch", "current", "power", "target", "done"}
    /\ seen \in Contents
    /\ answer \in [Commands -> SUBSET Words]
    /\ {dropped, mounted, meddled, raced} \subseteq BOOLEAN
    /\ boots \subseteq [by : {"client", "other"}, from : Contents]
    /\ others \in 0..MaxOther /\ faults \in 0..MaxFaults

\* What the user is shown of a command, and what nobody is shown of it.
Printed(c) == IF "mute" \in answer[c] THEN {} ELSE answer[c]
Unsaid(c) == answer[c] \ Printed(c)

\* The controller has opened a task for a request of the command.
Queued(c) == \E k \in Keys : k[1] = c /\ tasks[k] # "none"

\* A host that the client has reset comes up from the client's image, unless
\* somebody else acted after the image was inserted, or a failure was shown.
\* What others do before that, between the query of the drive and the POST as
\* well, ends in a failure.  Two things go wrong in silence: an eject within
\* insert_vm whose end nobody looked at may take the image out again, and a
\* failure is in an answer that is not printed, once a request of the same
\* command was queued as a task.
WrongBootAccounted ==
    \A b \in boots : b.by = "client" /\ b.from # "mine" =>
        \/ meddled \/ dropped
        \/ \E c \in Commands : Printed(c) \intersect {"failed", "error"} # {}
        \/ \E c \in Commands : "failed" \in Unsaid(c) /\ Queued(c)

\* insert_vm asks for the insert when the drive is empty, as far as it can
\* know: somebody else was faster, or the eject it asked for was refused or
\* failed and it did not look.
EmptyBeforeInsert ==
    pc = "post" /\ doing = "insert" /\ drive # "none" => raced \/ dropped

\* An override that outlives the script, and will take the next boot of the
\* host by surprise, has a reason in the answers: a command failed, or the host
\* was not reset.  The user does not see it in the answer of a command of which
\* a request was queued as a task.
ArmedAccounted ==
    cmd = "none" /\ args.reboot /\ boot_once =>
        \/ "idle" \in Printed("boot")
        \/ "idle" \in Unsaid("boot") /\ Queued("boot")
        \/ \E c \in Commands : Printed(c) \intersect {"failed", "error"} # {}
        \/ \E c \in Commands : "failed" \in Unsaid(c) /\ Queued(c)

\* The script ends.
Finishes == <>(cmd = "none")
=============================================================================
