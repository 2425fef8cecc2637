--------------------------- MODULE IsoBootProofs ---------------------------
(***************************************************************************)
(* For any number of acts of somebody else, of faults and of codes of      *)
(* refusal: what the script boots from, what it inserts into, and what it  *)
(* leaves armed.                                                           *)
(***************************************************************************)
EXTENDS IsoBoot, TLAPS

EjectTask == tasks[<<"eject", "eject">>]
NestedTask == tasks[<<"insert", "eject">>]
InsertTask == tasks[<<"insert", "insert">>]
PatchTask == tasks[<<"boot", "patch">>]
ResetTask == tasks[<<"boot", "reset">>]

\* No answer holds a failure.
Silent == \A c \in Commands : answer[c] \intersect {"failed", "error"} = {}
Clean == ~meddled /\ ~dropped /\ Silent

At(c, o, label) == cmd = c /\ doing = o /\ pc = label

\* Which step belongs to which operation of which command.
PlacesOK ==
    /\ cmd = "none" <=> pc = "done"
    /\ cmd = "eject" => doing = "eject"
    /\ cmd = "insert" => doing \in {"eject", "insert"}
    /\ cmd = "boot" => doing = "patch" \/ (doing = "reset" /\ args.reboot)
    /\ pc \in {"media", "version", "decide"} => cmd \in {"eject", "insert"}
    /\ pc = "current" => cmd = "boot" /\ doing = "patch"
    /\ pc \in {"power", "target"} => cmd = "boot" /\ doing = "reset"

\* An exception takes the place of an answer, and ends its command.
AnswersOK ==
    /\ \A c \in Commands : "error" \in answer[c] => answer[c] = {"error"}
    /\ cmd = "eject" => "error" \notin answer["eject"]
    /\ cmd \in {"eject", "insert"} => "error" \notin answer["insert"]
    /\ cmd # "none" => "error" \notin answer["boot"]

\* A task that runs behind the back of the script has left a failure in an
\* answer, or is the nested eject nobody looked at.
TasksOK ==
    /\ EjectTask = "running" => At("eject", "eject", "watch") \/ ~Silent
    /\ NestedTask = "running" => At("insert", "eject", "watch") \/ dropped \/ ~Silent
    /\ PatchTask = "running" => At("boot", "patch", "watch") \/ ~Silent
    /\ ResetTask = "running" => At("boot", "reset", "watch") \/ ~Silent
    /\ cmd = "eject" \/ (cmd = "insert" /\ ~(doing = "insert" /\ pc = "watch")) => InsertTask = "none"
    /\ cmd \in {"eject", "insert", "boot"} /\ ~At("boot", "reset", "watch") => ResetTask = "none"

\* The drive, as far as the insert relies on it.
DriveOK ==
    /\ cmd = "insert" /\ pc \in {"version", "decide"} /\ seen = "none" => drive = "none" \/ raced
    /\ At("insert", "eject", "watch") /\ NestedTask = "completed" => drive = "none" \/ raced
    /\ EmptyBeforeInsert

\* The image stays in the drive once it is there, and the override armed.
ImageOK ==
    /\ Clean /\ (cmd \in {"boot", "none"} \/ (At("insert", "insert", "watch") /\ InsertTask = "completed"))
          => drive = "mine" /\ mounted
    /\ Clean /\ At("boot", "patch", "watch") /\ PatchTask = "completed" => boot_once
    /\ Clean /\ cmd = "boot" /\ doing = "reset" /\ ResetTask # "completed" => boot_once
    /\ Silent /\ At("boot", "reset", "watch") /\ ResetTask = "completed" => ~boot_once
    /\ Silent /\ cmd = "none" /\ args.reboot => "idle" \in answer["boot"] \/ ~boot_once

\* What the client booted the host from.
BootsOK == \A b \in boots : b.by = "client" /\ b.from # "mine" => ~Clean

IInv == TypeOK /\ PlacesOK /\ AnswersOK /\ TasksOK /\ DriveOK /\ ImageOK /\ BootsOK

-----------------------------------------------------------------------------
(* What the script makes of an answer *)

\* The verdict on a request that was queued, carried out or refused.
LEMMA TaskAnswer ==
    ASSUME NEW c, NEW r, c.async = FALSE, r.location = TRUE
    PROVE  Respond(c, r) = Returned("AcceptedTaskGenerated")
  <1>1. ReadApiRespond(c, r) = Returned("AcceptedTaskGenerated")
    BY DEF ReadApiRespond
  <1>2. QED
    BY <1>1 DEF Respond, Returned, ApiRespondToString

LEMMA DoneAnswer ==
    ASSUME NEW c, NEW r, c.async = FALSE, r.location = FALSE, r.code \in {200, 204}
    PROVE  Respond(c, r) \in {Returned("Ok"), Returned("Success")}
  <1>1. ReadApiRespond(c, r) = Mapped(r.code)
    BY DEF ReadApiRespond
  <1>2. Mapped(r.code) \in {Returned("Ok"), Returned("Success")}
    BY DEF Mapped, HttpCodeMapping
  <1>3. QED
    BY <1>1, <1>2 DEF Respond, Returned, ApiRespondToString

LEMMA RefusedAnswer ==
    ASSUME NEW c, NEW r, c.async = FALSE, c.expected \in {202, 204}, c.ignored = 0,
           r.location = FALSE, r.code \in 400..599
    PROVE  Respond(c, r).kind = "raised" \/ Respond(c, r) = Returned("Error")
  <1>1. ReadApiRespond(c, r) = Failed(r)
    <2>1. r.code \notin 200..299
      BY SMTT(20)
    <2>2. r.code \notin {202, 204}
      OBVIOUS
    <2>3. ~(c.ignored > 0)
      OBVIOUS
    <2>4. QED
      BY <2>1, <2>2, <2>3 DEF ReadApiRespond
  <1>2. Failed(r).kind = "raised" \/ Failed(r) = Returned("Error")
    <2>1. \A k \in DOMAIN ClientErrors : Raised(ClientErrors[k]).kind = "raised"
      BY DEF Raised
    <2>2. QED
      BY <2>1 DEF Failed, Raised
  <1>3. QED
    BY <1>1, <1>2 DEF Respond, Returned, ApiRespondToString

LEMMA ReturnedIs ==
    ASSUME NEW v
    PROVE  Returned(v).kind = "returned" /\ Returned(v).verdict = v
  BY DEF Returned

LEMMA OnQueued ==
    ASSUME OnReply(Reply(202, TRUE, "json"))
    PROVE  Goto("watch")
  <1>1. Verdict(Reply(202, TRUE, "json")) = Returned("AcceptedTaskGenerated")
    BY TaskAnswer DEF Verdict, Reply
  <1>2. /\ Verdict(Reply(202, TRUE, "json")).kind # "raised"
        /\ Verdict(Reply(202, TRUE, "json")).verdict = "AcceptedTaskGenerated"
    BY <1>1, ReturnedIs
  <1>3. QED
    BY <1>2, Zenon DEF OnReply

LEMMA OnVerdict ==
    ASSUME NEW reply, NEW v \in {"Ok", "Success"}, Verdict(reply) = Returned(v), OnReply(reply)
    PROVE  Finish({"done"})
  <1>1. Verdict(reply).kind = "returned" /\ Verdict(reply).verdict = v
    BY ReturnedIs
  <1>2. v # "AcceptedTaskGenerated" /\ v # "Error"
    OBVIOUS
  <1>3. QED
    BY <1>1, <1>2, Zenon DEF OnReply

LEMMA OnDone ==
    ASSUME NEW n \in {200, 204}, OnReply(Reply(n, FALSE, "json"))
    PROVE  Finish({"done"})
  <1>1. Verdict(Reply(n, FALSE, "json")) \in {Returned("Ok"), Returned("Success")}
    <2>1. CASE n = 200
      BY <2>1, DoneAnswer DEF Verdict, Reply
    <2>2. CASE n = 204
      BY <2>2, DoneAnswer DEF Verdict, Reply
    <2>3. QED
      BY <2>1, <2>2
  <1>2. QED
    BY <1>1, OnVerdict, Zenon

LEMMA OnRefused ==
    ASSUME NEW n \in RefusalCodes, OnReply(Reply(n, FALSE, "error"))
    PROVE  Raise \/ Finish({"failed"})
  <1>1. n \in 400..599
    BY IsoBootAssumption
  <1>2. \/ Verdict(Reply(n, FALSE, "error")).kind = "raised"
        \/ Verdict(Reply(n, FALSE, "error")) = Returned("Error")
    BY <1>1, RefusedAnswer DEF Verdict, Reply, Expected
  <1>3. \/ Verdict(Reply(n, FALSE, "error")).kind # "returned"
        \/ /\ Verdict(Reply(n, FALSE, "error")).kind # "raised"
           /\ Verdict(Reply(n, FALSE, "error")).verdict = "Error"
           /\ Verdict(Reply(n, FALSE, "error")).verdict # "AcceptedTaskGenerated"
    BY <1>2, ReturnedIs
  <1>4. QED
    BY <1>3, Zenon DEF OnReply

-----------------------------------------------------------------------------
(* How the script goes on *)

\* The part of the state that the steps below leave to their hypotheses.
WorldTyped ==
    /\ drive \in Contents /\ boot_once \in BOOLEAN /\ power \in {"on", "off"}
    /\ tasks \in [Keys -> {"none", "running", "completed", "failed"}]
    /\ args \in Args /\ seen \in Contents
    /\ mounted \in BOOLEAN /\ meddled \in BOOLEAN /\ raced \in BOOLEAN
    /\ boots \subseteq [by : {"client", "other"}, from : Contents]
    /\ others \in 0..MaxOther /\ faults \in 0..MaxFaults

ControlTyped ==
    /\ cmd \in {"eject", "insert", "boot", "none"}
    /\ cmd # "none" => key \in Keys
    /\ pc \in {"media", "version", "decide", "post", "watch", "current", "power", "target", "done"}
    /\ answer \in [Commands -> SUBSET Words]
    /\ dropped \in BOOLEAN

LEMMA Typed == TypeOK <=> WorldTyped /\ ControlTyped
  BY DEF TypeOK, WorldTyped, ControlTyped

LEMMA KeyCases ==
    ASSUME IInv, cmd # "none"
    PROVE  \/ cmd = "eject" /\ doing = "eject"
           \/ cmd = "insert" /\ doing = "eject"
           \/ cmd = "insert" /\ doing = "insert"
           \/ cmd = "boot" /\ doing = "patch"
           \/ cmd = "boot" /\ doing = "reset" /\ args.reboot
  BY DEF IInv, PlacesOK, TypeOK

LEMMA KeysAre ==
    /\ <<"eject", "eject">> \in Keys /\ <<"insert", "eject">> \in Keys
    /\ <<"insert", "insert">> \in Keys /\ <<"boot", "patch">> \in Keys /\ <<"boot", "reset">> \in Keys
    /\ \A k \in Keys : k \in {<<"eject", "eject">>, <<"insert", "eject">>, <<"insert", "insert">>,
                              <<"boot", "patch">>, <<"boot", "reset">>}
  BY DEF Keys

\* What becomes of the answers when an operation is over.
LEMMA SayDoes ==
    ASSUME IInv, cmd # "none", NEW words, words \subseteq {"done", "failed", "idle", "mute"}, Say(words)
    PROVE  /\ answer' \in [Commands -> SUBSET Words]
           /\ words \subseteq answer'[cmd]
           /\ \A c \in Commands : "error" \notin answer[c] => "error" \notin answer'[c]
           /\ \A c \in Commands : "error" \in answer'[c] => answer'[c] = {"error"}
           /\ "failed" \in words => ~Silent'
           /\ "failed" \notin words => (Silent' <=> Silent)
  <1>1. answer \in [Commands -> SUBSET Words] /\ cmd \in Commands
    BY DEF IInv, TypeOK, Commands
  <1>2. /\ answer'[cmd] = answer[cmd] \union words
        /\ \A c \in Commands : c # cmd => answer'[c] = answer[c]
        /\ answer' = [answer EXCEPT ![cmd] = answer[cmd] \union words]
    BY <1>1 DEF Say
  <1>3. "error" \notin answer[cmd]
    BY <1>1 DEF IInv, AnswersOK, Commands
  <1>4. words \in SUBSET Words /\ "error" \notin words
    BY DEF Words
  <1>5. answer[cmd] \union words \in SUBSET Words
    BY <1>1, <1>4
  <1>6. answer' \in [Commands -> SUBSET Words]
    BY <1>1, <1>2, <1>5
  <1>7. \A c \in Commands : "error" \notin answer[c] => "error" \notin answer'[c]
    BY <1>2, <1>4
  <1>8. \A c \in Commands : "error" \in answer'[c] => answer'[c] = {"error"}
    BY <1>2, <1>3, <1>4 DEF IInv, AnswersOK
  <1>9. "failed" \in words => ~Silent'
    BY <1>1, <1>2 DEF Silent
  <1>10. "failed" \notin words => (Silent' <=> Silent)
    BY <1>1, <1>2, <1>4 DEF Silent
  <1>11. QED
    BY <1>2, <1>6, <1>7, <1>8, <1>9, <1>10

\* Tasks of operations the script has not come to.
LaterTasks ==
    /\ doing = "eject" => tasks'[<<"insert", "insert">>] = "none"
    /\ cmd # "boot" \/ doing = "patch" => tasks'[<<"boot", "reset">>] = "none"

LEMMA RaiseKeeps ==
    ASSUME IInv, cmd # "none", Raise, WorldTyped', UNCHANGED args, LaterTasks
    PROVE  IInv'
  <1>1. /\ \/ cmd = "eject" /\ cmd' = "insert" /\ doing' = "insert" /\ pc' = "media"
           \/ cmd = "insert" /\ cmd' = "boot" /\ doing' = "patch" /\ pc' = "current"
           \/ cmd = "boot" /\ cmd' = "none" /\ doing' = "patch" /\ pc' = "done"
        /\ dropped' = dropped
    BY KeyCases DEF Raise, EndCommand, Script, FirstOp, FirstStep
  <1>2. /\ answer \in [Commands -> SUBSET Words] /\ cmd \in Commands /\ dropped \in BOOLEAN
        /\ answer' = [answer EXCEPT ![cmd] = {"error"}]
    BY DEF IInv, TypeOK, Raise, Commands
  <1>3. /\ answer' \in [Commands -> SUBSET Words]
        /\ answer'[cmd] = {"error"}
        /\ \A c \in Commands : c # cmd => answer'[c] = answer[c]
    BY <1>2 DEF Words
  <1>4. ~Silent'
    BY <1>2, <1>3 DEF Silent
  <1>5. ControlTyped'
    BY <1>1, <1>2, <1>3, KeysAre DEF ControlTyped, key
  <1>6. PlacesOK'
    BY <1>1 DEF PlacesOK
  <1>7. AnswersOK'
    BY <1>1, <1>3 DEF IInv, AnswersOK, Commands
  <1>8. TasksOK'
    BY <1>1, <1>4, KeyCases DEF TasksOK, EjectTask, NestedTask, InsertTask, PatchTask, ResetTask,
                                At, LaterTasks
  <1>9. DriveOK'
    BY <1>1 DEF DriveOK, At, EmptyBeforeInsert
  <1>10. ImageOK' /\ BootsOK'
    BY <1>4 DEF ImageOK, Clean, BootsOK
  <1>11. TypeOK'
    BY <1>5 DEF TypeOK, WorldTyped, ControlTyped
  <1>12. QED
    BY <1>6, <1>7, <1>8, <1>9, <1>10, <1>11 DEF IInv

LEMMA FinishFailedKeeps ==
    ASSUME IInv, cmd # "none", NEW words \in {{"failed"}, {"mute", "failed"}}, Finish(words), WorldTyped',
           UNCHANGED <<drives, tasks, args, seen, meddled, raced>>
    PROVE  IInv'
  <1>. answer \in [Commands -> SUBSET Words] /\ dropped \in BOOLEAN
    BY DEF IInv, TypeOK
  <1>1. CASE cmd = "insert" /\ doing = "eject"
    <2>1. /\ cmd' = "insert" /\ doing' = "insert" /\ pc' = "post"
          /\ answer' = answer /\ dropped' = TRUE
      BY <1>1 DEF Finish, GotoOp
    <2>2. ControlTyped'
      BY <2>1, KeysAre DEF ControlTyped, key
    <2>3. TypeOK'
      BY <2>2 DEF TypeOK, WorldTyped, ControlTyped
    <2>4. PlacesOK'
      BY <2>1 DEF PlacesOK
    <2>5. AnswersOK'
      BY <1>1, <2>1 DEF IInv, AnswersOK
    <2>6. TasksOK'
      BY <1>1, <2>1 DEF IInv, TasksOK, EjectTask, NestedTask, InsertTask, PatchTask, ResetTask,
                        At, Silent
    <2>7. DriveOK'
      BY <2>1 DEF DriveOK, At, EmptyBeforeInsert
    <2>8. ImageOK' /\ BootsOK'
      BY <2>1 DEF IInv, ImageOK, Clean, At, BootsOK
    <2>9. QED
      BY <2>3, <2>4, <2>5, <2>6, <2>7, <2>8 DEF IInv
  <1>2. CASE ~(cmd = "insert" /\ doing = "eject")
    <2>1. /\ \/ cmd = "eject" /\ cmd' = "insert" /\ doing' = "insert" /\ pc' = "media"
             \/ cmd = "insert" /\ doing = "insert" /\ cmd' = "boot" /\ doing' = "patch" /\ pc' = "current"
             \/ cmd = "boot" /\ doing = "patch" /\ args.reboot /\ cmd' = "boot" /\ doing' = "reset" /\ pc' = "power"
             \/ cmd = "boot" /\ cmd' = "none" /\ doing' = "patch" /\ pc' = "done"
          /\ dropped' = dropped
      BY <1>2, KeyCases DEF Finish, GotoOp, EndCommand, Script, FirstOp, FirstStep
    <2>2. /\ answer' \in [Commands -> SUBSET Words]
          /\ \A c \in Commands : "error" \notin answer[c] => "error" \notin answer'[c]
          /\ \A c \in Commands : "error" \in answer'[c] => answer'[c] = {"error"}
          /\ ~Silent'
      <3>1. Say(words) /\ words \subseteq {"done", "failed", "idle", "mute"} /\ "failed" \in words
        BY <1>2 DEF Finish
      <3>2. QED
        BY <3>1, SayDoes
    <2>3. ~Silent'
      BY <2>2
    <2>4. ControlTyped'
      BY <2>1, <2>2, KeysAre DEF ControlTyped, key
    <2>5. TypeOK'
      BY <2>4 DEF TypeOK, WorldTyped, ControlTyped
    <2>6. PlacesOK'
      BY <2>1 DEF PlacesOK
    <2>7. AnswersOK'
      BY <2>1, <2>2 DEF IInv, AnswersOK, Commands
    <2>8. TasksOK'
      BY <2>1, <2>3, KeyCases DEF IInv, TasksOK, EjectTask, NestedTask, InsertTask, PatchTask, ResetTask, At
    <2>9. DriveOK'
      BY <2>1 DEF DriveOK, At, EmptyBeforeInsert
    <2>10. ImageOK' /\ BootsOK'
      BY <2>3 DEF ImageOK, Clean, BootsOK
    <2>11. QED
      BY <2>5, <2>6, <2>7, <2>8, <2>9, <2>10 DEF IInv
  <1>3. QED
    BY <1>1, <1>2

\* What has to be so when an operation is taken for done.
DoneRightly(words) ==
    /\ pc # "watch" \/ tasks[key] = "completed"
    /\ cmd = "insert" /\ doing = "eject" => drive' = "none" \/ raced
    /\ Clean /\ (doing = "insert" \/ cmd = "boot") => drive' = "mine" /\ mounted'
    /\ Clean /\ doing = "patch" => boot_once'
    /\ Silent /\ doing = "reset" => "idle" \in words \/ ~boot_once'
    /\ \A b \in boots' : b.by = "client" /\ b.from # "mine" => ~Clean

LEMMA FinishDoneKeeps ==
    ASSUME IInv, cmd # "none", NEW words \in {{"done"}, {"idle"}, {"mute"}}, Finish(words), DoneRightly(words), WorldTyped',
           UNCHANGED <<tasks, args, seen, meddled, raced>>
    PROVE  IInv'
  <1>. answer \in [Commands -> SUBSET Words] /\ dropped \in BOOLEAN
    BY DEF IInv, TypeOK
  <1>1. CASE cmd = "insert" /\ doing = "eject"
    <2>1. /\ cmd' = "insert" /\ doing' = "insert" /\ pc' = "post"
          /\ answer' = answer /\ dropped' = dropped
      BY <1>1 DEF Finish, GotoOp
    <2>2. ControlTyped'
      BY <2>1, KeysAre DEF ControlTyped, key
    <2>3. TypeOK'
      BY <2>2 DEF TypeOK, WorldTyped, ControlTyped
    <2>4. PlacesOK'
      BY <2>1 DEF PlacesOK
    <2>5. AnswersOK'
      BY <1>1, <2>1 DEF IInv, AnswersOK
    <2>6. NestedTask = "running" => dropped \/ ~Silent
      BY <1>1 DEF DoneRightly, IInv, TasksOK, NestedTask, At, key
    <2>7. TasksOK'
      BY <1>1, <2>1, <2>6 DEF IInv, TasksOK, EjectTask, NestedTask, InsertTask, PatchTask, ResetTask,
                              At, Silent
    <2>8. DriveOK'
      BY <1>1, <2>1 DEF DoneRightly, DriveOK, At, EmptyBeforeInsert
    <2>9. ImageOK' /\ BootsOK'
      BY <2>1 DEF DoneRightly, ImageOK, At, BootsOK, Clean, Silent
    <2>10. QED
      BY <2>3, <2>4, <2>5, <2>7, <2>8, <2>9 DEF IInv
  <1>2. CASE ~(cmd = "insert" /\ doing = "eject")
    <2>1. /\ \/ cmd = "eject" /\ doing = "eject" /\ cmd' = "insert" /\ doing' = "insert" /\ pc' = "media"
             \/ cmd = "insert" /\ doing = "insert" /\ cmd' = "boot" /\ doing' = "patch" /\ pc' = "current"
             \/ cmd = "boot" /\ doing = "patch" /\ args.reboot /\ cmd' = "boot" /\ doing' = "reset" /\ pc' = "power"
             \/ cmd = "boot" /\ doing = "patch" /\ ~args.reboot /\ cmd' = "none" /\ doing' = "patch" /\ pc' = "done"
             \/ cmd = "boot" /\ doing = "reset" /\ cmd' = "none" /\ doing' = "patch" /\ pc' = "done"
          /\ dropped' = dropped
      BY <1>2, KeyCases DEF Finish, GotoOp, EndCommand, Script, FirstOp, FirstStep
    <2>2. /\ answer' \in [Commands -> SUBSET Words]
          /\ words \subseteq answer'[cmd]
          /\ \A c \in Commands : "error" \notin answer[c] => "error" \notin answer'[c]
          /\ \A c \in Commands : "error" \in answer'[c] => answer'[c] = {"error"}
          /\ Silent' <=> Silent
      <3>1. Say(words) /\ words \subseteq {"done", "failed", "idle", "mute"} /\ "failed" \notin words
        BY <1>2 DEF Finish
      <3>2. QED
        BY <3>1, SayDoes
    <2>5. Silent' <=> Silent
      BY <2>2
    <2>6. Clean' <=> Clean
      BY <2>1, <2>5 DEF Clean
    <2>7. ControlTyped'
      BY <2>1, <2>2, KeysAre DEF ControlTyped, key
    <2>8. TypeOK'
      BY <2>7 DEF TypeOK, WorldTyped, ControlTyped
    <2>9. PlacesOK'
      BY <2>1 DEF PlacesOK
    <2>10. AnswersOK'
      BY <2>1, <2>2 DEF IInv, AnswersOK, Commands
    <2>11. tasks[key] = "running" => pc # "watch"
      BY DEF DoneRightly
    <2>12. TasksOK'
      <3>1. InsertTask' = InsertTask /\ ResetTask' = ResetTask
        BY DEF InsertTask, ResetTask
      <3>2. EjectTask = "running" => ~Silent
        BY <2>11 DEF IInv, TasksOK, EjectTask, At, key
      <3>3. NestedTask = "running" => dropped \/ ~Silent
        BY <1>2 DEF IInv, TasksOK, NestedTask, At
      <3>4. PatchTask = "running" => ~Silent
        BY <2>11 DEF IInv, TasksOK, PatchTask, At, key
      <3>5. ResetTask = "running" => ~Silent
        BY <2>11 DEF IInv, TasksOK, ResetTask, At, key
      <3>6. cmd' = "insert" => InsertTask = "none"
        BY <2>1 DEF IInv, TasksOK
      <3>7. cmd' # "none" => ResetTask = "none"
        BY <2>1 DEF IInv, TasksOK, At
      <3>8. cmd' \in {"insert", "boot", "none"}
        BY <2>1
      <3>9. QED
        BY <2>1, <2>5, <3>1, <3>2, <3>3, <3>4, <3>5, <3>6, <3>7, <3>8
           DEF TasksOK, EjectTask, NestedTask, PatchTask
    <2>13. DriveOK'
      BY <2>1 DEF DriveOK, At, EmptyBeforeInsert
    <2>14. ImageOK'
      <3>1. Clean /\ cmd' \in {"boot", "none"} => drive' = "mine" /\ mounted'
        BY <2>1 DEF DoneRightly
      <3>2. Clean /\ cmd' = "boot" /\ doing' = "reset" => boot_once'
        BY <2>1 DEF DoneRightly
      <3>3. Silent /\ cmd' = "none" /\ args.reboot => "idle" \in answer'["boot"] \/ ~boot_once'
        BY <2>1, <2>2 DEF DoneRightly
      <3>4. pc' # "watch"
        BY <2>1
      <3>5. QED
        BY <2>5, <2>6, <3>1, <3>2, <3>3, <3>4 DEF ImageOK, At
    <2>15. BootsOK'
      BY <2>6 DEF DoneRightly, BootsOK
    <2>16. QED
      BY <2>8, <2>9, <2>10, <2>12, <2>13, <2>14, <2>15 DEF IInv
  <1>3. QED
    BY <1>1, <1>2

\* A step of an operation that leaves the controller alone.
LEMMA GotoKeeps ==
    ASSUME IInv, cmd # "none", pc # "watch", NEW label \in {"version", "decide", "post", "target"},
           Goto(label), PlacesOK', DriveOK', WorldTyped', UNCHANGED <<drives, tasks, args, meddled>>
    PROVE  IInv'
  <1>1. cmd' = cmd /\ doing' = doing /\ answer' = answer /\ dropped' = dropped /\ pc' = label
    BY DEF Goto
  <1>2. boot_once' = boot_once /\ drive' = drive /\ mounted' = mounted /\ boots' = boots
    BY DEF drives
  <1>3. TypeOK'
    BY <1>1 DEF IInv, TypeOK, WorldTyped, key
  <1>4. AnswersOK'
    BY <1>1 DEF IInv, AnswersOK
  <1>5. TasksOK'
    BY <1>1 DEF IInv, TasksOK, EjectTask, NestedTask, InsertTask, PatchTask, ResetTask, At, Silent
  <1>6. ImageOK' /\ BootsOK'
    BY <1>1, <1>2 DEF IInv, ImageOK, BootsOK, ResetTask, At, Clean, Silent
  <1>7. QED
    BY <1>3, <1>4, <1>5, <1>6 DEF IInv

\* A request the controller has queued.
LEMMA QueueKeeps ==
    ASSUME IInv, cmd # "none", pc = "post", Queue, Goto("watch"), WorldTyped',
           UNCHANGED <<drives, args, seen, meddled, raced>>
    PROVE  IInv'
  <1>1. cmd' = cmd /\ doing' = doing /\ answer' = answer /\ dropped' = dropped /\ pc' = "watch"
    BY DEF Goto
  <1>2. boot_once' = boot_once /\ drive' = drive /\ mounted' = mounted /\ boots' = boots
    BY DEF drives
  <1>3. /\ tasks \in [Keys -> {"none", "running", "completed", "failed"}] /\ key \in Keys
        /\ tasks' = [tasks EXCEPT ![key] = "running"]
    BY DEF IInv, TypeOK, Queue
  <1>4. /\ tasks'[key] = "running"
        /\ \A k \in Keys : k # key => tasks'[k] = tasks[k]
    BY <1>3
  <1>5. TypeOK'
    BY <1>1 DEF IInv, TypeOK, WorldTyped, key
  <1>6. PlacesOK'
    BY <1>1 DEF IInv, PlacesOK
  <1>7. AnswersOK'
    BY <1>1 DEF IInv, AnswersOK
  <1>8. TasksOK'
    <2>1. EjectTask' = "running" => At("eject", "eject", "watch")' \/ ~Silent'
      BY <1>1, <1>4, KeysAre DEF IInv, TasksOK, EjectTask, At, Silent, key
    <2>2. NestedTask' = "running" => At("insert", "eject", "watch")' \/ dropped' \/ ~Silent'
      BY <1>1, <1>4, KeysAre DEF IInv, TasksOK, NestedTask, At, Silent, key
    <2>3. PatchTask' = "running" => At("boot", "patch", "watch")' \/ ~Silent'
      BY <1>1, <1>4, KeysAre DEF IInv, TasksOK, PatchTask, At, Silent, key
    <2>4. ResetTask' = "running" => At("boot", "reset", "watch")' \/ ~Silent'
      BY <1>1, <1>4, KeysAre DEF IInv, TasksOK, ResetTask, At, Silent, key
    <2>5. (cmd = "eject" \/ (cmd = "insert" /\ doing # "insert")) => InsertTask' = "none"
      BY <1>4, KeysAre DEF IInv, TasksOK, InsertTask, key
    <2>6. ~(cmd = "boot" /\ doing = "reset") => ResetTask' = "none"
      BY <1>4, KeysAre DEF IInv, TypeOK, TasksOK, ResetTask, At, key
    <2>7. QED
      BY <1>1, <2>1, <2>2, <2>3, <2>4, <2>5, <2>6 DEF TasksOK, At
  <1>9. DriveOK'
    <2>1. At("insert", "eject", "watch")' => NestedTask' # "completed"
      BY <1>1, <1>4 DEF At, NestedTask, key
    <2>2. QED
      BY <1>1, <2>1 DEF DriveOK, EmptyBeforeInsert
  <1>10. ImageOK'
    <2>1. At("insert", "insert", "watch")' => InsertTask' # "completed"
      BY <1>1, <1>4 DEF At, InsertTask, key
    <2>2. At("boot", "patch", "watch")' => PatchTask' # "completed"
      BY <1>1, <1>4 DEF At, PatchTask, key
    <2>3. At("boot", "reset", "watch")' => ResetTask' # "completed"
      BY <1>1, <1>4 DEF At, ResetTask, key
    <2>4. Clean' => Clean
      BY <1>1 DEF Clean, Silent
    <2>5. Clean /\ cmd = "boot" => drive = "mine" /\ mounted
      BY DEF IInv, ImageOK
    <2>6. cmd = "boot" => ResetTask = "none"
      BY DEF IInv, TasksOK, At
    <2>7. Clean /\ cmd = "boot" /\ doing = "reset" => boot_once
      BY <2>6 DEF IInv, ImageOK
    <2>8. QED
      BY <1>1, <1>2, <2>1, <2>2, <2>3, <2>4, <2>5, <2>7 DEF ImageOK
  <1>11. BootsOK'
    BY <1>1, <1>2 DEF IInv, BootsOK, Clean, Silent
  <1>12. QED
    BY <1>5, <1>6, <1>7, <1>8, <1>9, <1>10, <1>11 DEF IInv

-----------------------------------------------------------------------------
(* The steps up to the POST *)

LEMMA FaultTyped ==
    ASSUME TypeOK, Fault \/ NoFault
    PROVE  faults' \in 0..MaxFaults
  BY IsoBootAssumption DEF TypeOK, Fault, NoFault

\* When the tasks stay as they are, what has not been sent has no task.
LEMMA NothingLater ==
    ASSUME IInv, UNCHANGED tasks, pc # "watch", cmd # "none"
    PROVE  LaterTasks
  BY KeyCases DEF LaterTasks, IInv, TasksOK, InsertTask, ResetTask, At

LEMMA QueryMediaKeeps ==
    ASSUME IInv, QueryMedia
    PROVE  IInv'
  <1>1. /\ pc = "media" /\ cmd \in {"eject", "insert"}
        /\ UNCHANGED <<drives, tasks, args, meddled, others>>
    BY DEF QueryMedia, IInv, PlacesOK
  <1>2. WorldTyped'
    BY FaultTyped DEF QueryMedia, IInv, TypeOK, WorldTyped, drives
  <1>3. CASE seen' = drive /\ raced' = FALSE /\ Goto("version")
    <2>1. PlacesOK'
      BY <1>1, <1>3 DEF IInv, PlacesOK, Goto
    <2>2. DriveOK'
      BY <1>1, <1>3 DEF DriveOK, EmptyBeforeInsert, At, Goto, drives
    <2>3. QED
      BY <1>1, <1>2, <1>3, <2>1, <2>2, GotoKeeps
  <1>4. CASE Raise
    BY <1>1, <1>2, <1>4, NothingLater, RaiseKeeps
  <1>5. QED
    BY <1>3, <1>4 DEF QueryMedia

LEMMA QueryVersionKeeps ==
    ASSUME IInv, QueryVersion
    PROVE  IInv'
  <1>1. /\ pc = "version" /\ cmd \in {"eject", "insert"}
        /\ UNCHANGED <<drives, tasks, args, seen, meddled, raced, others>>
    BY DEF QueryVersion, IInv, PlacesOK
  <1>2. WorldTyped'
    BY FaultTyped DEF QueryVersion, IInv, TypeOK, WorldTyped, drives
  <1>3. CASE Goto("decide")
    <2>1. PlacesOK'
      BY <1>1, <1>3 DEF IInv, PlacesOK, Goto
    <2>2. DriveOK'
      BY <1>1, <1>3 DEF IInv, DriveOK, EmptyBeforeInsert, At, Goto, drives
    <2>3. QED
      BY <1>1, <1>2, <1>3, <2>1, <2>2, GotoKeeps
  <1>4. CASE Raise
    BY <1>1, <1>2, <1>4, NothingLater, RaiseKeeps
  <1>5. QED
    BY <1>3, <1>4 DEF QueryVersion

LEMMA DecideEjectKeeps ==
    ASSUME IInv, DecideEject
    PROVE  IInv'
  <1>1. /\ pc = "decide" /\ doing = "eject" /\ cmd \in {"eject", "insert"}
        /\ UNCHANGED <<drives, tasks, args, seen, meddled, raced, others, faults>>
    BY DEF DecideEject, IInv, PlacesOK
  <1>2. WorldTyped'
    BY <1>1 DEF IInv, TypeOK, WorldTyped, drives
  <1>3. CASE Goto("post")
    <2>1. PlacesOK'
      BY <1>1, <1>3 DEF IInv, PlacesOK, Goto
    <2>2. DriveOK'
      BY <1>1, <1>3 DEF IInv, DriveOK, EmptyBeforeInsert, At, Goto
    <2>3. QED
      BY <1>1, <1>2, <1>3, <2>1, <2>2, GotoKeeps
  <1>4. CASE Raise
    BY <1>1, <1>2, <1>4, NothingLater, RaiseKeeps
  <1>5. CASE seen = "none" /\ Finish({"mute"})
    <2>1. cmd = "insert" => drive' = "none" \/ raced
      BY <1>1, <1>5 DEF IInv, DriveOK, drives
    <2>2. DoneRightly({"mute"})
      BY <1>1, <2>1 DEF DoneRightly, IInv, BootsOK, drives
    <2>3. QED
      BY <1>1, <1>2, <1>5, <2>2, FinishDoneKeeps
  <1>6. QED
    BY <1>3, <1>4, <1>5 DEF DecideEject

LEMMA DecideInsertKeeps ==
    ASSUME IInv, DecideInsert
    PROVE  IInv'
  <1>1. /\ pc = "decide" /\ doing = "insert" /\ cmd = "insert"
        /\ UNCHANGED <<drives, tasks, args, seen, meddled, raced, others, faults>>
    BY DEF DecideInsert, IInv, PlacesOK
  <1>2. WorldTyped'
    BY <1>1 DEF IInv, TypeOK, WorldTyped, drives
  <1>3. CASE GotoOp("eject", "media") /\ UNCHANGED <<answer, dropped>>
    <2>1. /\ cmd' = "insert" /\ doing' = "eject" /\ pc' = "media"
          /\ answer' = answer /\ dropped' = dropped
      BY <1>1, <1>3 DEF GotoOp
    <2>2. TypeOK'
      BY <1>2, <2>1, KeysAre DEF IInv, TypeOK, WorldTyped, key
    <2>3. PlacesOK' /\ DriveOK'
      BY <2>1 DEF PlacesOK, DriveOK, EmptyBeforeInsert, At
    <2>4. AnswersOK'
      BY <1>1, <2>1 DEF IInv, AnswersOK
    <2>5. TasksOK'
      BY <1>1, <2>1 DEF IInv, TasksOK, EjectTask, NestedTask, InsertTask, PatchTask, ResetTask,
                        At, Silent
    <2>6. ImageOK' /\ BootsOK'
      BY <1>1, <2>1 DEF IInv, ImageOK, BootsOK, At, Clean, Silent, drives
    <2>7. QED
      BY <2>2, <2>3, <2>4, <2>5, <2>6 DEF IInv
  <1>4. CASE Raise
    BY <1>1, <1>2, <1>4, NothingLater, RaiseKeeps
  <1>5. CASE seen = "none" /\ Goto("post")
    <2>1. drive = "none" \/ raced
      BY <1>1, <1>5 DEF IInv, DriveOK
    <2>2. PlacesOK'
      BY <1>1, <1>5 DEF IInv, PlacesOK, Goto
    <2>3. DriveOK'
      BY <1>1, <1>5, <2>1 DEF DriveOK, EmptyBeforeInsert, At, Goto, drives
    <2>4. QED
      BY <1>1, <1>2, <1>5, <2>2, <2>3, GotoKeeps
  <1>6. QED
    BY <1>3, <1>4, <1>5 DEF DecideInsert

LEMMA CheckDeviceKeeps ==
    ASSUME IInv, CheckDevice
    PROVE  IInv'
  <1>1. /\ pc = "current" /\ cmd = "boot" /\ doing = "patch"
        /\ UNCHANGED <<drives, tasks, args, seen, meddled, raced, others>>
    BY DEF CheckDevice, IInv, PlacesOK
  <1>2. WorldTyped'
    BY FaultTyped DEF CheckDevice, IInv, TypeOK, WorldTyped, drives
  <1>3. CASE Goto("post")
    <2>1. PlacesOK' /\ DriveOK'
      BY <1>1, <1>3 DEF PlacesOK, DriveOK, EmptyBeforeInsert, At, Goto
    <2>2. QED
      BY <1>1, <1>2, <1>3, <2>1, GotoKeeps
  <1>4. CASE Raise
    BY <1>1, <1>2, <1>4, NothingLater, RaiseKeeps
  <1>5. QED
    BY <1>3, <1>4 DEF CheckDevice

LEMMA ReadPowerKeeps ==
    ASSUME IInv, ReadPower
    PROVE  IInv'
  <1>1. /\ pc = "power" /\ cmd = "boot" /\ doing = "reset"
        /\ UNCHANGED <<drives, tasks, args, seen, meddled, raced, others>>
    BY DEF ReadPower, IInv, PlacesOK
  <1>2. WorldTyped'
    BY FaultTyped DEF ReadPower, IInv, TypeOK, WorldTyped, drives
  <1>3. CASE Goto("target")
    <2>1. PlacesOK' /\ DriveOK'
      BY <1>1, <1>3 DEF IInv, PlacesOK, DriveOK, EmptyBeforeInsert, At, Goto
    <2>2. QED
      BY <1>1, <1>2, <1>3, <2>1, GotoKeeps
  <1>4. CASE Raise
    BY <1>1, <1>2, <1>4, NothingLater, RaiseKeeps
  <1>5. CASE Finish({"idle"})
    <2>1. Clean => drive' = "mine" /\ mounted'
      BY <1>1 DEF IInv, ImageOK, drives
    <2>2. DoneRightly({"idle"})
      BY <1>1, <2>1 DEF DoneRightly, IInv, BootsOK, drives
    <2>3. QED
      BY <1>1, <1>2, <1>5, <2>2, FinishDoneKeeps
  <1>6. QED
    BY <1>3, <1>4, <1>5 DEF ReadPower

LEMMA FindTargetKeeps ==
    ASSUME IInv, FindTarget
    PROVE  IInv'
  <1>1. /\ pc = "target" /\ cmd = "boot" /\ doing = "reset"
        /\ UNCHANGED <<drives, tasks, args, seen, meddled, raced, others>>
    BY DEF FindTarget, IInv, PlacesOK
  <1>2. WorldTyped'
    BY FaultTyped DEF FindTarget, IInv, TypeOK, WorldTyped, drives
  <1>3. CASE Goto("post")
    <2>1. PlacesOK' /\ DriveOK'
      BY <1>1, <1>3 DEF IInv, PlacesOK, DriveOK, EmptyBeforeInsert, At, Goto
    <2>2. QED
      BY <1>1, <1>2, <1>3, <2>1, GotoKeeps
  <1>4. CASE Raise
    BY <1>1, <1>2, <1>4, NothingLater, RaiseKeeps
  <1>5. QED
    BY <1>3, <1>4 DEF FindTarget

-----------------------------------------------------------------------------
(* The requests, and what the controller and others do *)

LEMMA PerformTyped ==
    ASSUME TypeOK, NEW op, Perform(op)
    PROVE  /\ drive' \in Contents /\ boot_once' \in BOOLEAN /\ power' \in {"on", "off"}
           /\ mounted' \in BOOLEAN /\ boots' \subseteq [by : {"client", "other"}, from : Contents]
  <1>1. CASE op = "reset" /\ HostBoots("client")
    <2>. DEFINE boot == [by |-> "client", from |-> IF boot_once THEN drive ELSE "none"]
    <2>1. (IF boot_once THEN drive ELSE "none") \in Contents
      BY DEF TypeOK, Contents
    <2>2. boot \in [by : {"client", "other"}, from : Contents]
      BY <2>1
    <2>3. boots' = boots \union {boot} /\ boot_once' = FALSE /\ UNCHANGED <<drive, power, mounted>>
      BY <1>1 DEF HostBoots
    <2>. HIDE DEF boot
    <2>4. QED
      BY <2>2, <2>3 DEF TypeOK
  <1>2. CASE ~(op = "reset" /\ HostBoots("client"))
    BY <1>2 DEF TypeOK, Perform, Contents
  <1>3. QED
    BY <1>1, <1>2

\* What a performed operation does to what the properties speak of.
LEMMA PerformDoes ==
    ASSUME NEW op, Perform(op)
    PROVE  /\ op = "eject" => drive' = "none" /\ UNCHANGED <<boot_once, mounted, boots>>
           /\ op = "insert" => drive' = "mine" /\ mounted' = TRUE /\ UNCHANGED <<boot_once, boots>>
           /\ op = "patch" => boot_once' = TRUE /\ UNCHANGED <<drive, mounted, boots>>
           /\ op = "reset" => /\ boot_once' = FALSE /\ UNCHANGED <<drive, mounted>>
                              /\ boots' = boots \union {[by |-> "client", from |-> IF boot_once THEN drive ELSE "none"]}
  BY DEF Perform, HostBoots

LEMMA SendKeeps ==
    ASSUME IInv, Send
    PROVE  IInv'
  <1>1. /\ pc = "post" /\ cmd # "none"
        /\ UNCHANGED <<args, seen, meddled, raced, others>>
    BY DEF Send, IInv, PlacesOK
  <1>2. CASE Perform(doing) /\ (\E c \in {200, 204} : OnReply(Reply(c, FALSE, "json"))) /\ NoFault /\ UNCHANGED tasks
    <2>1. Finish({"done"})
      BY <1>2, OnDone
    <2>2. WorldTyped'
      BY <1>1, <1>2, PerformTyped, FaultTyped DEF IInv, TypeOK, WorldTyped
    <2>3. doing = "reset" => ResetTask = "none" /\ cmd = "boot"
      BY <1>1, KeyCases DEF IInv, TasksOK, At
    <2>4. Clean /\ doing = "reset" => boot_once /\ drive = "mine"
      BY <1>1, <2>3 DEF IInv, ImageOK
    <2>5. Clean /\ cmd = "boot" => drive = "mine" /\ mounted
      BY DEF IInv, ImageOK
    <2>6. \A b \in boots' : b.by = "client" /\ b.from # "mine" => ~Clean
      <3>1. \A b \in boots : b.by = "client" /\ b.from # "mine" => ~Clean
        BY DEF IInv, BootsOK
      <3>2. CASE doing = "reset"
        <4>. DEFINE boot == [by |-> "client", from |-> IF boot_once THEN drive ELSE "none"]
        <4>1. boots' = boots \union {boot}
          BY <1>2, <3>2, PerformDoes
        <4>2. Clean => boot.from = "mine"
          BY <2>4, <3>2
        <4>. HIDE DEF boot
        <4>3. QED
          BY <3>1, <4>1, <4>2 DEF Clean
      <3>3. CASE doing # "reset"
        BY <1>2, <3>1, <3>3, PerformDoes, KeyCases, <1>1
      <3>4. QED
        BY <3>2, <3>3
    <2>7. DoneRightly({"done"})
      <3>1. CASE cmd = "eject" /\ doing = "eject"
        BY <1>1, <1>2, <2>6, <3>1 DEF DoneRightly
      <3>2. CASE cmd = "insert" /\ doing = "eject"
        BY <1>1, <1>2, <2>6, <3>2, PerformDoes DEF DoneRightly
      <3>3. CASE cmd = "insert" /\ doing = "insert"
        <4>1. drive' = "mine" /\ mounted' = TRUE
          BY <1>2, <3>3, PerformDoes
        <4>2. QED
          BY <1>1, <2>6, <3>3, <4>1 DEF DoneRightly
      <3>4. CASE cmd = "boot" /\ doing = "patch"
        <4>1. boot_once' = TRUE /\ drive' = drive /\ mounted' = mounted
          BY <1>2, <3>4, PerformDoes
        <4>2. QED
          BY <1>1, <2>5, <2>6, <3>4, <4>1 DEF DoneRightly
      <3>5. CASE cmd = "boot" /\ doing = "reset"
        <4>1. boot_once' = FALSE /\ drive' = drive /\ mounted' = mounted
          BY <1>2, <3>5, PerformDoes
        <4>2. QED
          BY <1>1, <2>5, <2>6, <3>5, <4>1 DEF DoneRightly
      <3>6. QED
        BY <1>1, <3>1, <3>2, <3>3, <3>4, <3>5, KeyCases
    <2>8. QED
      BY <1>1, <1>2, <2>1, <2>2, <2>7, FinishDoneKeeps
  <1>3. CASE Queue /\ OnReply(Reply(202, TRUE, "json")) /\ NoFault /\ UNCHANGED drives
    <2>1. Goto("watch")
      BY <1>3, OnQueued
    <2>2. WorldTyped'
      BY <1>1, <1>3, FaultTyped DEF IInv, TypeOK, WorldTyped, Queue, drives
    <2>3. QED
      BY <1>1, <1>3, <2>1, <2>2, QueueKeeps
  <1>4. CASE (\E c \in RefusalCodes : OnReply(Reply(c, FALSE, "error"))) /\ NoFault /\ UNCHANGED <<tasks, drives>>
    <2>1. Raise \/ Finish({"failed"})
      BY <1>4, OnRefused
    <2>2. WorldTyped'
      BY <1>1, <1>4, FaultTyped DEF IInv, TypeOK, WorldTyped, drives
    <2>3. CASE Raise
      BY <1>1, <1>4, <2>2, <2>3, NothingLater, RaiseKeeps
    <2>4. CASE Finish({"failed"})
      BY <1>1, <1>4, <2>2, <2>4, FinishFailedKeeps
    <2>5. QED
      BY <2>1, <2>3, <2>4
  <1>5. QED
    BY <1>2, <1>3, <1>4 DEF Send

LEMMA SendLostKeeps ==
    ASSUME IInv, SendLost
    PROVE  IInv'
  <1>1. /\ pc = "post" /\ cmd # "none" /\ Raise /\ Fault
        /\ UNCHANGED <<args, seen, meddled, raced, others>>
    BY DEF SendLost, IInv, PlacesOK
  <1>2. CASE Perform(doing) /\ UNCHANGED tasks
    <2>1. WorldTyped'
      BY <1>1, <1>2, PerformTyped, FaultTyped DEF IInv, TypeOK, WorldTyped
    <2>2. QED
      BY <1>1, <1>2, <2>1, NothingLater, RaiseKeeps
  <1>3. CASE Queue /\ UNCHANGED drives
    <2>1. WorldTyped'
      BY <1>1, <1>3, FaultTyped DEF IInv, TypeOK, WorldTyped, Queue, drives
    <2>2. LaterTasks
      <3>1. \A k \in Keys : k # key => tasks'[k] = tasks[k]
        BY <1>3 DEF Queue, IInv, TypeOK
      <3>2. doing = "eject" => InsertTask = "none"
        BY <1>1, KeyCases DEF IInv, TasksOK
      <3>3. cmd # "boot" \/ doing = "patch" => ResetTask = "none"
        BY <1>1, KeyCases DEF IInv, TasksOK, At
      <3>4. QED
        BY <1>1, <3>1, <3>2, <3>3, KeysAre, KeyCases DEF LaterTasks, InsertTask, ResetTask, key
    <2>3. QED
      BY <1>1, <1>3, <2>1, <2>2, RaiseKeeps
  <1>4. CASE UNCHANGED <<tasks, drives>>
    <2>1. WorldTyped'
      BY <1>1, <1>4, FaultTyped DEF IInv, TypeOK, WorldTyped, drives
    <2>2. QED
      BY <1>1, <1>4, <2>1, NothingLater, RaiseKeeps
  <1>5. QED
    BY <1>2, <1>3, <1>4 DEF SendLost

\* A watch that breaks off: the operation the task is of is the last so far.
LEMMA WatchLater ==
    ASSUME IInv, UNCHANGED tasks, pc = "watch", cmd # "none"
    PROVE  LaterTasks
  BY KeyCases DEF LaterTasks, IInv, TasksOK, InsertTask, ResetTask, At

LEMMA WatchKeeps ==
    ASSUME IInv, Watch
    PROVE  IInv'
  <1>1. /\ pc = "watch" /\ cmd # "none"
        /\ UNCHANGED <<drives, tasks, args, seen, meddled, raced, others>>
    BY DEF Watch, IInv, PlacesOK
  <1>2. WorldTyped'
    BY FaultTyped DEF Watch, IInv, TypeOK, WorldTyped, drives
  <1>3. CASE tasks[key] = "completed" /\ Finish({"mute"})
    <2>1. cmd = "insert" /\ doing = "eject" => drive' = "none" \/ raced
      BY <1>1, <1>3 DEF IInv, DriveOK, At, NestedTask, key, drives
    <2>2. Clean /\ (doing = "insert" \/ cmd = "boot") => drive' = "mine" /\ mounted'
      BY <1>1, <1>3, KeyCases DEF IInv, ImageOK, At, InsertTask, key, drives
    <2>3. Clean /\ doing = "patch" => boot_once'
      BY <1>1, <1>3, KeyCases DEF IInv, ImageOK, At, PatchTask, key, drives
    <2>4. Silent /\ doing = "reset" => ~boot_once'
      BY <1>1, <1>3, KeyCases DEF IInv, ImageOK, At, ResetTask, key, drives
    <2>5. DoneRightly({"mute"})
      BY <1>1, <1>3, <2>1, <2>2, <2>3, <2>4 DEF DoneRightly, IInv, BootsOK, drives
    <2>6. QED
      BY <1>1, <1>2, <1>3, <2>5, FinishDoneKeeps
  <1>4. CASE Finish({"mute", "failed"})
    BY <1>1, <1>2, <1>4, FinishFailedKeeps
  <1>5. CASE Raise
    BY <1>1, <1>2, <1>5, WatchLater, RaiseKeeps
  <1>6. QED
    BY <1>3, <1>4, <1>5 DEF Watch

\* What the end of a task does to what the properties speak of.
LEMMA EndDoes ==
    ASSUME NEW k \in Keys, NEW how \in {"completed", "failed"},
           how = "completed" => Perform(k[2]), how = "failed" => UNCHANGED drives
    PROVE  /\ how = "failed" => UNCHANGED <<drive, boot_once, mounted, boots>>
           /\ k = <<"insert", "insert">> =>
                 /\ boot_once' = boot_once /\ boots' = boots
                 /\ how = "completed" => drive' = "mine" /\ mounted' = TRUE
           /\ k \in {<<"eject", "eject">>, <<"insert", "eject">>} =>
                 /\ boot_once' = boot_once /\ boots' = boots
                 /\ drive' \in {drive, "none"}
                 /\ how = "completed" => drive' = "none"
           /\ k = <<"boot", "patch">> =>
                 /\ drive' = drive /\ mounted' = mounted /\ boots' = boots
                 /\ how = "completed" => boot_once' = TRUE
           /\ k = <<"boot", "reset">> =>
                 /\ drive' = drive /\ mounted' = mounted
                 /\ how = "completed" =>
                       /\ boot_once' = FALSE
                       /\ boots' = boots \union {[by |-> "client", from |-> IF boot_once THEN drive ELSE "none"]}
  <1>1. CASE how = "failed"
    BY <1>1 DEF drives
  <1>2. CASE how = "completed" /\ k \in {<<"eject", "eject">>, <<"insert", "eject">>}
    <2>1. k[2] = "eject" /\ Perform(k[2])
      BY <1>2
    <2>2. Perform("eject")
      BY <2>1
    <2>3. drive' = "none" /\ UNCHANGED <<boot_once, mounted, boots>>
      BY <2>2, PerformDoes
    <2>4. k \notin {<<"insert", "insert">>, <<"boot", "patch">>, <<"boot", "reset">>}
      BY <1>2
    <2>5. QED
      BY <1>2, <2>3, <2>4
  <1>3. CASE how = "completed" /\ k = <<"insert", "insert">>
    <2>1. k[2] = "insert" /\ Perform(k[2])
      BY <1>3
    <2>2. Perform("insert")
      BY <2>1
    <2>3. QED
      BY <1>3, <2>2, PerformDoes
  <1>4. CASE how = "completed" /\ k = <<"boot", "patch">>
    <2>1. k[2] = "patch" /\ Perform(k[2])
      BY <1>4
    <2>2. Perform("patch")
      BY <2>1
    <2>3. QED
      BY <1>4, <2>2, PerformDoes
  <1>5. CASE how = "completed" /\ k = <<"boot", "reset">>
    <2>1. k[2] = "reset" /\ Perform(k[2])
      BY <1>5
    <2>2. Perform("reset")
      BY <2>1
    <2>3. QED
      BY <1>5, <2>2, PerformDoes
  <1>6. QED
    BY <1>1, <1>2, <1>3, <1>4, <1>5, KeysAre

\* Which tasks can still run, and what their end does to the drive.
LEMMA TaskEndsKeeps ==
    ASSUME IInv, TaskEnds
    PROVE  IInv'
  <1>1. PICK k \in Keys :
          /\ tasks[k] = "running"
          /\ \/ Perform(k[2]) /\ tasks' = [tasks EXCEPT ![k] = "completed"] /\ NoFault
             \/ ~Possible(k[2]) /\ tasks' = [tasks EXCEPT ![k] = "failed"] /\ NoFault /\ UNCHANGED drives
             \/ Fault /\ tasks' = [tasks EXCEPT ![k] = "failed"] /\ UNCHANGED drives
    BY DEF TaskEnds
  <1>2. UNCHANGED <<args, cmd, doing, pc, seen, answer, dropped, meddled, raced, others>>
    BY DEF TaskEnds, history
  <1>3. PICK how \in {"completed", "failed"} :
          /\ tasks' = [tasks EXCEPT ![k] = how]
          /\ how = "completed" => Perform(k[2])
          /\ how = "failed" => UNCHANGED drives
    BY <1>1
  <1>4. /\ tasks \in [Keys -> {"none", "running", "completed", "failed"}]
        /\ tasks'[k] = how
        /\ \A j \in Keys : j # k => tasks'[j] = tasks[j]
    BY <1>3 DEF IInv, TypeOK
  <1>5. TypeOK'
    <2>1. CASE UNCHANGED drives
      BY <1>1, <1>2, <1>3, <2>1, FaultTyped DEF IInv, TypeOK, drives, key
    <2>2. CASE Perform(k[2])
      BY <1>1, <1>2, <1>3, <2>2, FaultTyped, PerformTyped DEF IInv, TypeOK, key
    <2>3. QED
      BY <1>3, <2>1, <2>2
  <1>6. PlacesOK'
    BY <1>2 DEF IInv, PlacesOK
  <1>7. AnswersOK'
    BY <1>2 DEF IInv, AnswersOK
  <1>8. (Silent' <=> Silent) /\ (Clean' <=> Clean)
    BY <1>2 DEF Silent, Clean
  <1>9. TasksOK'
    <2>1. \A j \in Keys : tasks'[j] = "running" => tasks[j] = "running"
      BY <1>4
    <2>2. \A j \in Keys : tasks[j] = "none" => tasks'[j] = "none"
      BY <1>1, <1>4
    <2>3. QED
      BY <1>2, <1>8, <2>1, <2>2, KeysAre
         DEF IInv, TasksOK, EjectTask, NestedTask, InsertTask, PatchTask, ResetTask, At
  <1>10. k \in {<<"eject", "eject">>, <<"insert", "eject">>, <<"insert", "insert">>,
                <<"boot", "patch">>, <<"boot", "reset">>}
    BY KeysAre
  \* Where the script is while each of them runs.
  <1>11. /\ k = <<"eject", "eject">> => (cmd = "eject" \/ ~Silent)
         /\ k = <<"insert", "eject">> => ((cmd = "insert" /\ doing = "eject") \/ dropped \/ ~Silent)
         /\ k = <<"insert", "insert">> => (At("insert", "insert", "watch") \/ cmd \in {"boot", "none"})
         /\ k = <<"boot", "patch">> => (At("boot", "patch", "watch") \/ ~Silent)
         /\ k = <<"boot", "reset">> => (At("boot", "reset", "watch") \/ ~Silent)
    BY <1>1 DEF IInv, TypeOK, TasksOK, EjectTask, NestedTask, InsertTask, PatchTask, ResetTask, At
  <1>12. DriveOK'
    <2>1. \/ drive' = drive
          \/ drive' = "none"
          \/ k = <<"insert", "insert">>
      BY <1>3, <1>10, EndDoes
    <2>2. NestedTask' = "completed" => NestedTask = "completed" \/ drive' = "none"
      <3>1. CASE k = <<"insert", "eject">>
        BY <1>3, <1>4, <3>1, EndDoes DEF NestedTask
      <3>2. CASE k # <<"insert", "eject">>
        BY <1>4, <3>2, KeysAre DEF NestedTask
      <3>3. QED
        BY <3>1, <3>2
    <2>3. CASE k = <<"insert", "insert">>
      BY <1>2, <1>11, <2>3 DEF IInv, PlacesOK, DriveOK, EmptyBeforeInsert, At
    <2>4. CASE k # <<"insert", "insert">>
      BY <1>2, <2>1, <2>2, <2>4 DEF IInv, DriveOK, EmptyBeforeInsert, At
    <2>5. QED
      BY <2>3, <2>4
  <1>13. ImageOK'
    <2>1. Clean /\ (cmd \in {"boot", "none"} \/ (At("insert", "insert", "watch") /\ InsertTask' = "completed"))
             => drive' = "mine" /\ mounted'
      <3>1. CASE k = <<"insert", "insert">>
        BY <1>3, <1>4, <3>1, EndDoes DEF IInv, ImageOK, InsertTask, At
      <3>2. CASE k \in {<<"eject", "eject">>, <<"insert", "eject">>}
        BY <1>11, <3>2 DEF Clean, At
      <3>3. CASE k \in {<<"boot", "patch">>, <<"boot", "reset">>}
        <4>1. drive' = drive /\ mounted' = mounted
          BY <1>3, <3>3, EndDoes
        <4>2. InsertTask' = InsertTask
          BY <1>4, <3>3, KeysAre DEF InsertTask
        <4>3. QED
          BY <4>1, <4>2 DEF IInv, ImageOK
      <3>4. QED
        BY <1>10, <3>1, <3>2, <3>3
    <2>2. k # <<"boot", "patch">> /\ k # <<"boot", "reset">> => boot_once' = boot_once
      BY <1>3, <1>10, EndDoes
    <2>3. Clean /\ At("boot", "patch", "watch") /\ PatchTask' = "completed" => boot_once'
      <3>1. CASE k = <<"boot", "patch">>
        BY <1>3, <1>4, <3>1, EndDoes DEF PatchTask
      <3>2. CASE k = <<"boot", "reset">>
        BY <1>11, <3>2 DEF Clean, At
      <3>3. CASE k # <<"boot", "patch">> /\ k # <<"boot", "reset">>
        BY <1>4, <2>2, <3>3, KeysAre DEF IInv, ImageOK, PatchTask
      <3>4. QED
        BY <3>1, <3>2, <3>3
    <2>4. Clean /\ cmd = "boot" /\ doing = "reset" /\ ResetTask' # "completed" => boot_once'
      <3>1. CASE k = <<"boot", "patch">>
        BY <1>11, <3>1 DEF Clean, At
      <3>2. CASE k = <<"boot", "reset">>
        BY <1>1, <1>3, <1>4, <3>2, EndDoes DEF IInv, ImageOK, ResetTask
      <3>3. CASE k # <<"boot", "patch">> /\ k # <<"boot", "reset">>
        BY <1>4, <2>2, <3>3, KeysAre DEF IInv, ImageOK, ResetTask
      <3>4. QED
        BY <3>1, <3>2, <3>3
    <2>5. Silent /\ At("boot", "reset", "watch") /\ ResetTask' = "completed" => ~boot_once'
      <3>1. CASE k = <<"boot", "patch">>
        BY <1>11, <3>1 DEF At
      <3>2. CASE k = <<"boot", "reset">>
        BY <1>3, <1>4, <3>2, EndDoes DEF ResetTask
      <3>3. CASE k # <<"boot", "patch">> /\ k # <<"boot", "reset">>
        BY <1>4, <2>2, <3>3, KeysAre DEF IInv, ImageOK, ResetTask
      <3>4. QED
        BY <3>1, <3>2, <3>3
    <2>6. Silent /\ cmd = "none" /\ args.reboot => "idle" \in answer["boot"] \/ ~boot_once'
      BY <1>11, <2>2 DEF IInv, ImageOK, At
    <2>7. QED
      BY <1>2, <1>8, <2>1, <2>3, <2>4, <2>5, <2>6 DEF ImageOK, At
  <1>14. BootsOK'
    <2>1. \A b \in boots : b.by = "client" /\ b.from # "mine" => ~Clean
      BY DEF IInv, BootsOK
    <2>2. \A b \in boots' : b.by = "client" /\ b.from # "mine" => ~Clean
      <3>1. CASE k = <<"boot", "reset">> /\ how = "completed"
        <4>. DEFINE boot == [by |-> "client", from |-> IF boot_once THEN drive ELSE "none"]
        <4>1. boots' = boots \union {boot}
          BY <1>3, <3>1, EndDoes
        <4>2. Clean => boot_once /\ drive = "mine"
          BY <1>1, <1>11, <3>1 DEF IInv, ImageOK, ResetTask, At, Clean
        <4>3. Clean => boot.from = "mine"
          BY <4>2
        <4>. HIDE DEF boot
        <4>4. QED
          BY <2>1, <4>1, <4>3 DEF Clean
      <3>2. CASE ~(k = <<"boot", "reset">> /\ how = "completed")
        <4>1. boots' = boots
          BY <1>3, <1>10, <3>2, EndDoes
        <4>2. QED
          BY <2>1, <4>1
      <3>3. QED
        BY <3>1, <3>2
    <2>3. QED
      BY <1>8, <2>2 DEF BootsOK
  <1>15. QED
    BY <1>5, <1>6, <1>7, <1>9, <1>12, <1>13, <1>14 DEF IInv

LEMMA OtherKeeps ==
    ASSUME IInv, Other
    PROVE  IInv'
  <1>1. /\ UNCHANGED <<tasks, args, cmd, doing, pc, seen, answer, dropped, faults>>
        /\ raced' = TRUE /\ meddled' = (meddled \/ mounted)
        /\ others < MaxOther /\ others' = others + 1
    BY DEF Other
  <1>2. /\ mounted' = mounted
        /\ boot_once' \in {boot_once, FALSE}
        /\ drive' \in Contents /\ power' \in {"on", "off"}
    BY DEF Other, HostBoots, IInv, TypeOK, Contents
  <1>3. \/ boots' = boots
        \/ boots' = boots \union {[by |-> "other", from |-> IF boot_once THEN drive ELSE "none"]}
    BY DEF Other, HostBoots
  <1>4. boots' \subseteq [by : {"client", "other"}, from : Contents]
    BY <1>3 DEF IInv, TypeOK, Contents
  <1>5. TypeOK'
    <2>1. others' \in 0..MaxOther
      BY <1>1, IsoBootAssumption DEF IInv, TypeOK
    <2>2. raced' \in BOOLEAN /\ meddled' \in BOOLEAN /\ boot_once' \in BOOLEAN
      BY <1>1, <1>2 DEF IInv, TypeOK
    <2>3. QED
      BY <1>1, <1>2, <1>4, <2>1, <2>2 DEF IInv, TypeOK, key
  <1>6. PlacesOK'
    BY <1>1 DEF IInv, PlacesOK
  <1>7. AnswersOK'
    BY <1>1 DEF IInv, AnswersOK
  <1>8. TasksOK'
    BY <1>1 DEF IInv, TasksOK, EjectTask, NestedTask, InsertTask, PatchTask, ResetTask, At, Silent
  <1>9. DriveOK'
    BY <1>1 DEF DriveOK, EmptyBeforeInsert
  <1>10. Clean' => Clean /\ ~mounted
    BY <1>1 DEF Clean, Silent, IInv, TypeOK
  <1>11. Silent' <=> Silent
    BY <1>1 DEF Silent
  <1>12. ImageOK'
    <2>1. Clean' => ~(cmd \in {"boot", "none"} \/ (At("insert", "insert", "watch") /\ InsertTask = "completed"))
      BY <1>10 DEF IInv, ImageOK
    <2>2. boot_once' => boot_once
      BY <1>2 DEF IInv, TypeOK
    <2>3. Silent /\ At("boot", "reset", "watch") /\ ResetTask = "completed" => ~boot_once
      BY DEF IInv, ImageOK
    <2>4. Silent /\ cmd = "none" /\ args.reboot => "idle" \in answer["boot"] \/ ~boot_once
      BY DEF IInv, ImageOK
    <2>5. QED
      BY <1>1, <1>11, <2>1, <2>2, <2>3, <2>4 DEF ImageOK, InsertTask, PatchTask, ResetTask, At
  <1>13. BootsOK'
    <2>. DEFINE boot == [by |-> "other", from |-> IF boot_once THEN drive ELSE "none"]
    <2>1. \A b \in boots : b.by = "client" /\ b.from # "mine" => ~Clean
      BY DEF IInv, BootsOK
    <2>2. boot.by # "client" /\ boots' \subseteq boots \union {boot}
      BY <1>3
    <2>. HIDE DEF boot
    <2>3. \A b \in boots' : b.by = "client" /\ b.from # "mine" => ~Clean
      BY <2>1, <2>2
    <2>4. meddled => meddled'
      BY <1>1
    <2>5. QED
      BY <1>1, <1>11, <2>3, <2>4 DEF BootsOK, Clean, Silent
  <1>14. QED
    BY <1>5, <1>6, <1>7, <1>8, <1>9, <1>12, <1>13 DEF IInv

-----------------------------------------------------------------------------
(* The theorems *)

LEMMA InitHolds == Init => IInv
  <1>. SUFFICES ASSUME Init PROVE IInv
    OBVIOUS
  <1>1. TypeOK
    <2>1. key \in Keys
      BY KeysAre DEF Init, key
    <2>2. 0 \in 0..MaxOther /\ 0 \in 0..MaxFaults
      BY IsoBootAssumption
    <2>3. tasks \in [Keys -> {"none", "running", "completed", "failed"}]
      BY DEF Init
    <2>4. answer \in [Commands -> SUBSET Words]
      BY DEF Init
    <2>5. /\ drive \in Contents /\ boot_once \in BOOLEAN /\ power \in {"on", "off"}
          /\ args \in Args /\ cmd \in {"eject", "insert", "boot", "none"}
          /\ pc \in {"media", "version", "decide", "post", "watch", "current", "power", "target", "done"}
          /\ seen \in Contents
          /\ {dropped, mounted, meddled, raced} \subseteq BOOLEAN
          /\ boots \subseteq [by : {"client", "other"}, from : Contents]
          /\ others = 0 /\ faults = 0
      BY DEF Init, Contents
    <2>6. QED
      BY <2>1, <2>2, <2>3, <2>4, <2>5 DEF TypeOK
  <1>2. PlacesOK /\ AnswersOK
    BY DEF Init, PlacesOK, AnswersOK, Commands
  <1>3. TasksOK
    BY KeysAre DEF Init, TasksOK, EjectTask, NestedTask, InsertTask, PatchTask, ResetTask
  <1>4. DriveOK /\ ImageOK
    BY KeysAre DEF Init, DriveOK, EmptyBeforeInsert, ImageOK, At
  <1>5. BootsOK
    BY DEF Init, BootsOK
  <1>6. QED
    BY <1>1, <1>2, <1>3, <1>4, <1>5 DEF IInv

LEMMA NextHolds == IInv /\ [Next]_vars => IInv'
  <1>. SUFFICES ASSUME IInv, [Next]_vars PROVE IInv'
    OBVIOUS
  <1>1. CASE UNCHANGED vars
    <2>1. UNCHANGED <<drive, boot_once, power, boots, mounted, tasks, args, cmd, doing, pc, seen, answer,
                      dropped, meddled, raced, others, faults>>
      BY <1>1 DEF vars, drives, history
    <2>2. TypeOK'
      BY <2>1 DEF IInv, TypeOK, key
    <2>3. PlacesOK' /\ AnswersOK'
      BY <2>1 DEF IInv, PlacesOK, AnswersOK
    <2>4. TasksOK'
      BY <2>1 DEF IInv, TasksOK, EjectTask, NestedTask, InsertTask, PatchTask, ResetTask, At, Silent
    <2>5. DriveOK'
      BY <2>1 DEF IInv, DriveOK, EmptyBeforeInsert, NestedTask, At
    <2>6. ImageOK' /\ BootsOK'
      BY <2>1 DEF IInv, ImageOK, BootsOK, InsertTask, PatchTask, ResetTask, At, Clean, Silent
    <2>7. QED
      BY <2>2, <2>3, <2>4, <2>5, <2>6 DEF IInv
  <1>2. CASE Client
    BY <1>2, QueryMediaKeeps, QueryVersionKeeps, DecideEjectKeeps, DecideInsertKeeps, CheckDeviceKeeps,
       ReadPowerKeeps, FindTargetKeeps, SendKeeps, SendLostKeeps, WatchKeeps DEF Client
  <1>3. QED
    BY <1>1, <1>2, TaskEndsKeeps, OtherKeeps DEF Next

LEMMA Invariance == Spec => []IInv
  BY InitHolds, NextHolds, PTL DEF Spec

\* Every variable keeps its type.
THEOREM TypeCorrect == Spec => []TypeOK
  <1>1. IInv => TypeOK
    BY DEF IInv
  <1>2. QED
    BY <1>1, Invariance, PTL

\* insert_vm asks for the insert only when the drive is empty, or when somebody
\* else was faster, or the nested eject failed and nobody looked.
THEOREM InsertsIntoEmpty == Spec => []EmptyBeforeInsert
  <1>1. IInv => EmptyBeforeInsert
    BY DEF IInv, DriveOK
  <1>2. QED
    BY <1>1, Invariance, PTL

-----------------------------------------------------------------------------
(* Which answers are not printed *)

\* An answer that is not printed is that of a command with a task, or of an
\* eject that has found the drive empty and has nothing else to say.
MuteOK ==
    /\ cmd = "eject" => answer["eject"] = {}
    /\ \A c \in Commands : "mute" \in answer[c] =>
          Queued(c) \/ (c = "eject" /\ answer[c] = {"mute"})

\* No task is forgotten, and the first command does not come again.
Onward ==
    /\ \A k \in Keys : tasks[k] # "none" => tasks'[k] # "none"
    /\ cmd' = "eject" => cmd = "eject"

LEMMA OnwardQueued ==
    ASSUME Onward, NEW c, Queued(c)
    PROVE  Queued(c)'
  BY DEF Onward, Queued

LEMMA MuteStays ==
    ASSUME MuteOK, Onward, answer' = answer
    PROVE  MuteOK'
  BY OnwardQueued DEF MuteOK, Onward

LEMMA MuteRaise ==
    ASSUME IInv, MuteOK, Onward, cmd # "none", Raise
    PROVE  MuteOK'
  <1>1. answer \in [Commands -> SUBSET Words] /\ cmd \in Commands
    BY DEF IInv, TypeOK, Commands
  <1>2. answer'[cmd] = {"error"} /\ \A c \in Commands : c # cmd => answer'[c] = answer[c]
    BY <1>1 DEF Raise
  <1>3. cmd' # "eject"
    BY KeyCases DEF Raise, EndCommand, Script
  <1>4. QED
    BY <1>2, <1>3, OnwardQueued DEF MuteOK

LEMMA MuteFinish ==
    ASSUME IInv, MuteOK, Onward, cmd # "none", NEW words, Finish(words),
           "mute" \in words => Queued(cmd) \/ (doing = "eject" /\ words = {"mute"})
    PROVE  MuteOK'
  <1>1. answer \in [Commands -> SUBSET Words] /\ cmd \in Commands
    BY DEF IInv, TypeOK, Commands
  <1>2. CASE cmd = "insert" /\ doing = "eject"
    BY <1>2, MuteStays DEF Finish
  <1>3. CASE ~(cmd = "insert" /\ doing = "eject")
    <2>1. Say(words) /\ cmd' # "eject"
      BY <1>3, KeyCases DEF Finish, GotoOp, EndCommand, Script
    <2>2. /\ answer'[cmd] = answer[cmd] \union words
          /\ \A c \in Commands : c # cmd => answer'[c] = answer[c]
      BY <1>1, <2>1 DEF Say
    <2>3. cmd = "eject" => answer'[cmd] = words
      BY <2>2 DEF MuteOK
    <2>4. "mute" \in answer'[cmd] => Queued(cmd) \/ (cmd = "eject" /\ answer'[cmd] = {"mute"})
      <3>1. CASE "mute" \in words
        <4>1. doing = "eject" => cmd = "eject"
          BY <1>3, KeyCases
        <4>2. QED
          BY <3>1, <2>3, <4>1
      <3>2. CASE "mute" \notin words
        BY <3>2, <1>1, <2>2, <2>3 DEF MuteOK
      <3>3. QED
        BY <3>1, <3>2
    <2>5. \A c \in Commands : "mute" \in answer'[c] =>
             Queued(c) \/ (c = "eject" /\ answer'[c] = {"mute"})
      BY <2>2, <2>4 DEF MuteOK
    <2>6. QED
      BY <2>1, <2>5, OnwardQueued DEF MuteOK
  <1>4. QED
    BY <1>2, <1>3

LEMMA KeyQueued ==
    ASSUME IInv, cmd # "none", tasks[key] # "none"
    PROVE  Queued(cmd)
  <1>1. key \in Keys /\ key[1] = cmd
    BY DEF IInv, TypeOK, key
  <1>2. QED
    BY <1>1 DEF Queued

\* Of the verdicts on a request none mutes an answer.
LEMMA MuteReply ==
    ASSUME IInv, MuteOK, Onward, cmd # "none", NEW reply, OnReply(reply)
    PROVE  MuteOK'
  <1>1. CASE Raise
    BY <1>1, MuteRaise
  <1>2. CASE Goto("watch")
    BY <1>2, MuteStays DEF Goto
  <1>3. CASE \E word \in {"failed", "done"} : Finish({word})
    BY <1>3, MuteFinish
  <1>4. QED
    BY <1>1, <1>2, <1>3 DEF OnReply

LEMMA PerformQuietly ==
    ASSUME IInv, cmd # "none", pc # "done", Client
    PROVE  Onward
  <1>1. key \in Keys /\ tasks \in [Keys -> {"none", "running", "completed", "failed"}]
    BY DEF IInv, TypeOK
  <1>2. tasks' = tasks \/ tasks' = [tasks EXCEPT ![key] = "running"]
    BY DEF Client, QueryMedia, QueryVersion, DecideEject, DecideInsert, CheckDevice, ReadPower,
           FindTarget, Send, SendLost, Watch, Queue
  <1>3. \A k \in Keys : tasks[k] # "none" => tasks'[k] # "none"
    BY <1>1, <1>2
  <1>4. cmd' = "eject" => cmd = "eject"
    <2>1. ASSUME EndCommand PROVE cmd' # "eject"
      BY <2>1, KeyCases DEF EndCommand, Script
    <2>2. Raise => cmd' # "eject"
      BY <2>1 DEF Raise
    <2>3. \A words : Finish(words) => (cmd' = "eject" => cmd = "eject")
      BY <2>1 DEF Finish, GotoOp
    <2>4. \A label : Goto(label) => cmd' = cmd
      BY DEF Goto
    <2>5. \A o, label : GotoOp(o, label) => cmd' = cmd
      BY DEF GotoOp
    <2>6. \A reply : OnReply(reply) => (cmd' = "eject" => cmd = "eject")
      BY <2>2, <2>3, <2>4 DEF OnReply
    <2>7. QED
      BY <2>2, <2>3, <2>4, <2>5, <2>6 DEF Client, QueryMedia, QueryVersion, DecideEject,
         DecideInsert, CheckDevice, ReadPower, FindTarget, Send, SendLost, Watch
  <1>5. QED
    BY <1>3, <1>4 DEF Onward

LEMMA MuteClient ==
    ASSUME IInv, MuteOK, Client
    PROVE  MuteOK'
  <1>0. cmd # "none" /\ pc # "done"
    <2>1. pc # "done"
      BY DEF Client, QueryMedia, QueryVersion, DecideEject, DecideInsert, CheckDevice, ReadPower,
             FindTarget, Send, SendLost, Watch
    <2>2. QED
      BY <2>1 DEF IInv, PlacesOK
  <1>. /\ Onward /\ cmd # "none"
    BY <1>0, PerformQuietly
  <1>1. ASSUME Raise PROVE MuteOK'
    BY <1>1, MuteRaise
  <1>2. ASSUME answer' = answer PROVE MuteOK'
    BY <1>2, MuteStays
  <1>3. CASE QueryMedia \/ QueryVersion \/ CheckDevice \/ FindTarget
    BY <1>1, <1>2, <1>3 DEF QueryMedia, QueryVersion, CheckDevice, FindTarget, Goto
  <1>4. CASE DecideEject
    <2>1. CASE Finish({"mute"})
      BY <1>4, <2>1, MuteFinish DEF DecideEject
    <2>2. QED
      BY <1>1, <1>2, <1>4, <2>1 DEF DecideEject, Goto
  <1>5. CASE DecideInsert
    BY <1>1, <1>2, <1>5 DEF DecideInsert, Goto, GotoOp
  <1>6. CASE ReadPower
    <2>1. CASE Finish({"idle"})
      BY <2>1, MuteFinish
    <2>2. QED
      BY <1>1, <1>2, <1>6, <2>1 DEF ReadPower, Goto
  <1>7. CASE Send
    BY <1>7, MuteReply DEF Send
  <1>8. CASE SendLost
    BY <1>1, <1>8 DEF SendLost
  <1>9. CASE Watch
    <2>1. CASE Raise
      BY <1>1, <2>1
    <2>2. CASE tasks[key] # "none" /\ Finish({"mute"})
      BY <2>2, KeyQueued, MuteFinish
    <2>3. CASE tasks[key] # "none" /\ Finish({"mute", "failed"})
      BY <2>3, KeyQueued, MuteFinish
    <2>4. QED
      BY <1>9, <2>1, <2>2, <2>3 DEF Watch
  <1>10. QED
    BY <1>3, <1>4, <1>5, <1>6, <1>7, <1>8, <1>9 DEF Client

LEMMA MuteHolds == Spec => []MuteOK
  <1>1. Init => MuteOK
    BY DEF Init, MuteOK, Commands
  <1>2. IInv /\ MuteOK /\ [Next]_vars => MuteOK'
    <2>. SUFFICES ASSUME IInv, MuteOK, [Next]_vars PROVE MuteOK'
      OBVIOUS
    <2>1. CASE UNCHANGED vars
      BY <2>1, MuteStays DEF vars, drives, history, Onward
    <2>2. CASE Client
      BY <2>2, MuteClient
    <2>3. CASE TaskEnds
      <3>1. tasks \in [Keys -> {"none", "running", "completed", "failed"}]
        BY DEF IInv, TypeOK
      <3>2. Onward /\ answer' = answer
        BY <2>3, <3>1 DEF TaskEnds, Onward
      <3>3. QED
        BY <3>2, MuteStays
    <2>4. CASE Other
      BY <2>4, MuteStays DEF Other, Onward
    <2>5. QED
      BY <2>1, <2>2, <2>3, <2>4 DEF Next
  <1>3. QED
    BY <1>1, <1>2, Invariance, PTL DEF Spec

-----------------------------------------------------------------------------
(* What goes wrong and is not seen *)

\* A failure in an answer is printed, or the command has had a task.
LEMMA FailureIsSomewhere ==
    ASSUME IInv, MuteOK, ~Silent
    PROVE  \/ \E c \in Commands : Printed(c) \intersect {"failed", "error"} # {}
           \/ \E c \in Commands : "failed" \in Unsaid(c) /\ Queued(c)
  <1>1. PICK c \in Commands : answer[c] \intersect {"failed", "error"} # {}
    BY DEF Silent
  <1>2. CASE "mute" \in answer[c]
    <2>1. "failed" \in answer[c]
      BY <1>1, <1>2 DEF IInv, AnswersOK
    <2>2. Queued(c)
      BY <1>2, <2>1 DEF MuteOK
    <2>3. QED
      BY <1>2, <2>1, <2>2 DEF Unsaid, Printed
  <1>3. CASE "mute" \notin answer[c]
    BY <1>1, <1>3 DEF Printed
  <1>4. QED
    BY <1>2, <1>3

\* A host the client has reset comes up from the client's image, or others or a
\* nested eject nobody looked at took the image, or a failure is in an answer:
\* shown, unless a request of that command was queued as a task.
THEOREM WrongBootIsAccounted == Spec => []WrongBootAccounted
  <1>1. IInv /\ MuteOK => WrongBootAccounted
    <2>. SUFFICES ASSUME IInv, MuteOK PROVE WrongBootAccounted
      OBVIOUS
    <2>1. \A b \in boots : b.by = "client" /\ b.from # "mine" => meddled \/ dropped \/ ~Silent
      BY DEF IInv, BootsOK, Clean
    <2>2. QED
      BY <2>1, FailureIsSomewhere DEF WrongBootAccounted
  <1>2. QED
    BY <1>1, Invariance, MuteHolds, PTL

\* With -r, an override outlives the script only when an answer says that the
\* host was not reset, or holds a failure.
THEOREM ArmedIsAccounted == Spec => []ArmedAccounted
  <1>1. IInv /\ MuteOK => ArmedAccounted
    <2>. SUFFICES ASSUME IInv, MuteOK PROVE ArmedAccounted
      OBVIOUS
    <2>1. cmd = "none" /\ args.reboot /\ boot_once => "idle" \in answer["boot"] \/ ~Silent
      BY DEF IInv, ImageOK
    <2>2. "idle" \in answer["boot"] =>
             "idle" \in Printed("boot") \/ ("idle" \in Unsaid("boot") /\ Queued("boot"))
      BY DEF Printed, Unsaid, MuteOK, Commands
    <2>3. QED
      BY <2>1, <2>2, FailureIsSomewhere DEF ArmedAccounted
  <1>2. QED
    BY <1>1, Invariance, MuteHolds, PTL
=============================================================================
