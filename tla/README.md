# A TLA+ verification project for idrac_ctl

`idrac_ctl` (package `src/idrac_ctl`) is a Redfish client for server management
controllers (BMCs): Dell iDRAC first, with support for HPE, Supermicro and NVIDIA
controllers. A command of the command line becomes a class derived from
`IDracManager`; it reads resources over HTTP, changes settings with PATCH, starts
actions and jobs with POST, watches the job the controller opens, and may reset the
host. The client is sequential. What is hard about it is on the other side of the
wire: the controller works on its own, other administrators use it at the same time,
an answer may be late, wrong, refused or lost, and a request is not idempotent.

The modules here describe the client's control flow statement by statement and the
controller by what the client relies on. TLC checks them on small instances; TLAPS
proves the most important properties for every value of the constants.

## 1. Inventory

The list of all 25 components, with their files and with what is left out, is
`components` in `PROJECT.json`. The ones that carry the program's logic:

| Component | State | Operations | Interacts with | What makes it correct |
|---|---|---|---|---|
| Task monitor client, `fetch_task` (`idrac_manager.py`) | last task state, pause, retry header | read the job, poll the task, sleep, answer or raise | the controller's job queue and task service; called by every command that gets a `task_id` | never polls earlier than asked; answers only what was true; ends when the job has ended |
| Request engine, `base_request_respond`, `read_api_respond` | none beyond one call | send, map code and body to a verdict or an exception | every changing command | a verdict never claims more than the controller did; a request carried out is not reported as failed |
| `job-apply` and `reboot` (`jobs/cmd_job_apply.py`, `compute/cmd_power_state.py`) | scheduled jobs still to do, dict of rebooted jobs | query jobs, reset the host once per job, watch, post a job for staged settings | jobs query, request engine, `fetch_task`, the host | no job is interrupted, none is left unwatched |
| Settings commands: `bios-change`, `change-boot-order`, `boot-source-update` | flags of the call, result of the PATCH | check, query pending, commit pending, PATCH, watch, commit, reboot | pending query, `job_apply`, `reboot` | other users' staged settings stay apart; resets only when asked; the reported state is true |
| Guarded actions, `invoke_action` with `actions/action_policy.py` | the Actions block it has read | resolve, classify, gate, POST | the resource, the request engine | nothing disruptive without the tokens of its level |
| Recursive discovery (`discovery/cmd_discovery.py`) | `visited_urls`, file map, on a singleton | GET, write file, follow links, depth first to a bound | the whole resource tree | each resource asked for once, no reference lost by a failure, the map complete when it is written |
| Subnet scan (`discover/scanner.py`, `discover/classifier.py`, `discover/cli.py`) | host list, semaphore, results | drop repetitions, concurrent probes, classify, report | many controllers | bounded concurrency, no host lost or repeated, the right vendor |
| The commands that are a fixed sequence of requests (about 85 `execute` methods) and `main` (`idrac_main.py`) | the rows so far, the two cached resolutions | nested loops of GETs with their handlers, a request, a watch, what `main` adds to the answer | everything above | a failure costs its own branch; nothing is sent on what was not read; what was done is shown |
| Registry and singletons (`redfish_manager.py`, `idrac_shared.py`) | `Singleton._instances`, registry, cached properties | `sync_invoke`, nested invocations, resolution of manager and system | every command | a command reaches the controller its caller means, and the host system of it |
| Virtual media and one-shot boot (`virtual_media/`, `boot_source/cmd_boot_one_shot.py`) | flags of the call, the content it saw | query, eject, insert, PATCH of the override, reset | request engine, `fetch_task`, `reboot`, other users of the drive | the host boots from the image that was asked for, or an answer says why not |
| Telemetry exporter (`telemetry/`) | the vendor it keeps; nothing else between scrapes | scrape six sources, serve `/metrics`, push in a loop | read-only commands, HTTP clients, an ingest service | a scrape is fresh, a failure costs its own samples, a client or a push does not end the service silently |

How they interact. All calls of a command are synchronous calls in one process: a
command calls another through `sync_invoke`, which constructs (or finds, they are
singletons) the other command and runs its `execute`. There are no callbacks. The
shared state is the controller's (staged settings, job queue, power state, media,
Actions blocks) and, within a process that holds several managers, the one instance of
each command class with what it has resolved. Two parts are concurrent: the subnet scan
(coroutines under a semaphore) and the exporter's server, which takes its clients one at
a time. The `do_async` variant of a request runs one coroutine to its end.

Hard behaviours, each listed under `hazards` at its line: a job that moves, ends or
vanishes between two polls; a pause header that shrinks or disappears; an answer lost
after the controller has acted; a refusal that comes back as a value and not as an
exception; a watch that is given up while its job runs; an answer that is made and not
printed; a list of jobs that is stale after the first reset; a wait for a job that
itself waits for the reset the waiting command would perform; settings staged by
another user between the check and the PATCH; an action found under a name that is
not the one asked for; probes that end in any order or never; a depth-first walk whose
marks depend on the order of its references; a failure in the middle of nested loops;
an instance bound to another host; media exchanged between the query and the insert; a
client that hangs up before its answer.

## 2. The modules

| Module | Models | State and its source | Composed of |
|---|---|---|---|
| `BmcJob` | the controller's side of one job (external) | `job`, `passed`, `server` | - |
| `WatchContract` | what a caller of `fetch_task` may rely on (abstract specification) | `outcome` | `BmcJob` |
| `FetchTask` | `fetch_task`, `get_job`, `get_task_state` | `task_state`, `retry_after`, `sleep_time`, `resp` are its locals; `pc` its place; `asked`, `alarmed` are history | `BmcJob`, refines `WatchContract` |
| `ApiRespond` | `read_api_respond` and the tail of `base_request_respond`, as operators | none | - |
| `ApiRequest` | one POST, PATCH or DELETE and the controller's reaction | `call`, `effect`, `reply`, `outcome` | `ApiRespond` |
| `HostController` | staged settings, job queue, power, other users (external) | `staged`, `jobs`, `power`, `applied`; `interrupted` is history | - |
| `JobApply` | `JobApply.execute`, the jobs query it makes, `IDracManager.reboot`, `RebootHost.execute` | `todo` is `scheduled_jobs.data`, `current` is `job`, `watched` the argument of `fetch_task`, `result` the `CommandResult`, `apply` and `boot` the arguments and the return address of the calls; `cut` is history: the jobs whose watch was given up | `HostController`, `ApiRespond` |
| `ConfigChange` | the three settings commands, whole: the calls of `job_apply` and `reboot` are steps of `JobApply` | `request` holds the flags; `sent`, `unseen`, `joined`, `refused` are history | `JobApply` |
| `InvokeAction` | `invoke_action`, the two name maps, `classify`, a sequence of invocations | `actions` the block that was read, `chosen` the resolved entry, `block` the resource now; the POST is the request of `ApiRequest`, step by step | `ApiRequest` |
| `ScanContract` | what `redfish-discover` promises (abstract specification) | `answer`, `report` | - |
| `SubnetScan` | `scan_subnet`, `classify_vendor`, the command of `discover/cli.py` | `ordered_hosts`, `read` the loop over the list; `probe`, `root` the coroutines; `free`, `waiters` the semaphore; `taken`, `found` the loop over the results | refines `ScanContract` |
| `CrawlContract` | what the walk may do to a controller and what its map is worth (abstract specification) | `gets`, `saved`, `far`, `written` | - |
| `Discovery` | `recursive_discovery` and `execute` of the discovery command, invoked again and again | `visited_urls`, `file_mapping` attributes of the singleton; `pending` the call stack, flattened: the calls still to be made, next first; `cut`, `gets` history | refines `CrawlContract` |
| `Plan` | the vocabulary of a command: its GETs and how each failure is handled, loops, requests, watches, exceptions of its own | none | - |
| `Commands` | one definition per `execute` method: the plans it follows for its arguments | none | `Plan` |
| `RunCommand` | `main`, `sync_invoke`, `base_query`, `idrac_members`, `idrac_manage_servers`, and the run of any plan | `pending` the loop nest (each branch with what was read on its way: `read`, `stray`, `nowhere`), `kept` the cached properties, `rows` the answer, `watched` whether it holds a watched state, `phase` the place in `main`; `given_up`, `read_from`, `effect`, `blamed` history | `Plan`, `ApiRespond`; gets `Commands` as a constant |
| `Session` | `Singleton.__call__`, `invoke`, `sync_invoke`, `idrac_members`, `idrac_manage_servers`, with several managers | `instances`, `members`, `manage_servers` what the process keeps; `stack` the executions under way; `call`, `tainted` history | - |
| `IsoBoot` | `eject_vm`, `insert_vm` with its nested eject, `boot-one-shot` with its reset, in the order of `examples/example_boot_from_iso_one_shot.sh` | `seen` what the query showed, `answer` what the answer of each command says, printed or not; `drive`, `boot_once`, `power`, `tasks` the controller's (external); `meddled`, `raced`, `dropped` history | `ApiRespond` |
| `Exporter` | the exporter command, `collect`/`to_samples`, the `/metrics` handler and its server, the push loop | `todo` (places in `Leaves`), `rows`, `samples`, `label` one scrape; `kept` the cached vendor; `serving`, `queue`, `answers` the server; `phase` the place, `ended` how it stopped; `began`, `arrived`, `failed` history | - |

A step of a model ends where the code gives up control: at a request, at a sleep, or
at the end of a call. Everything between two such points (parsing, the gate, the
update of the pause) belongs to the step before it. The reaction of the controller to
a request is part of the step that sends it, since only one request of the client is
ever under way; what is then seen of it may be stale by the time the client acts.

`MC*` modules only define the values of constants for TLC. Definitions introduced by
a comment `Mutant:` are plausible mistakes in the definition that follows them; they
are not used by any specification.

A plan of `Commands` is data, and `RunCommand` is the one state machine that runs them
all. That a plan is the right one is a matter of reading it next to the `execute` method
`map` names: each step is one request or loop head of it, with the exceptions its handler
catches, what it does then (leave the branch, go on with `{}`, add a row), and what a
document without the member it needs leads to. A command with several paths has several
plans. What the plans have in common is `RunCommand!PlanAssumption`, a statement about
how the `execute` methods are written: a jump goes forward (`JumpsForward`); a list that
grows is walked for its own GET (`AsksAgain`); a command that sends a change leaves a
branch whose GET gave nothing (`Insists`); it sends one change, reads nothing
after it, and resets only then (`ActsOnce`); and a command with rows has one for every
member it walks (`MembersHaveRows`). TLC evaluates it for every plan of `Commands` in the run `command`,
and the theorems about commands hold for any other plans of which it is true.

Abstractions. Settings are reduced to their author, because the properties only tell
one's own from others'. The text of messages, the percent display and the layout of what
is printed are left out; whether an answer is printed at all is not: `json_printer` prints
nothing of an answer that holds a member of an Enum, and `RunCommand` (`silent`) and
`IsoBoot` (`mute`) say so. Resource addresses are fixed; a manager or a system that was
not found leaves a path that leads nowhere, and in `RunCommand` the command goes on with
it (`nowhere`). In `JobApply` and `IsoBoot` a watch is one step whose answers are among
those of `WatchContract`: the state of a job that has ended; or, as a fault, Unknown or a
state the job has been in when the loop is left early (a code above 499, 404, 410, a
TaskStatus of Warning or Critical, a job state that is not waited for); or an exception.
In `ConfigChange` the three
commands share actions where their code is the same line by line; `request.command`
decides where they differ (only `bios-change` asks for pending settings, only
`change-boot-order` commits unseen and has no `--show`, `boot-source-update` takes
`--commit_pending` and has no parameter for it). With the fault `"bare"` the settings
resource has no Attributes member, and the whole document is taken for pending
settings (`bios/cmd_bios_pending.py:78-89`), or a job has no JobState and is not watched
(`jobs/cmd_job_apply.py:135`). In `SubnetScan` a host's address is a model
value and a service root the three signals the classifier reads. In `Discovery` a path
and its spelling are two fields of a record, and normalization drops the second, because
that is all that canonical paths are used for. In `RunCommand` a node of a document tree
is the sequence of the indices that lead to it. In `Exporter` a reading is on, off or no
number, and a sample remembers the generation of the reading it was made of.

## 3. The runs

Twelve runs. Eleven pass; `pending` checks what `bios-change` documents of one of its
arguments and shows how the code comes to break it. Where the code does something else
than it should and a property is about it, the property names the case; the other
disagreements are listed in section 6.

* `fetch` (`MCFetchTask`). Retry-After values around the default sleep (5 and 30
  against 10) and an HTTP date, which raises; a watch that begins at a scheduled job and at
  one in no known state, whose steps lead to waiting, paused, rebooting, finished and
  deleted jobs; a running job may carry the
  TaskStatus Ok, Warning or Critical; and two servers:
  one that keeps to the task monitor protocol and one that may answer any poll with one
  code of each class the loop tells apart (200, 202, 204, 401, 503), with and without
  a body. The loop keeps no counter and only the
  largest pause matters, so longer runs add no new state: TLC visits every combination
  of job state, remembered state and pause. Checks the pause (`NeverPollsEarly`), that of an
  honest server the loop answers only once the job has settled or the controller has
  complained of it (`AnswersWhenSettled`), the refinement of
  `WatchContract` (`ImplementsContract`: a completion that is reported has happened), and
  that the watch of a settled job ends (`SettledIsAnswered`).
* `request` (`MCApiRequest`). Every code the tables name, those of success without words
  (201, 206), one of each range they do not name, each with three kinds of body, a 202 with
  and without a Location, synchronous and not, with and without a code to ignore.
  `SuccessIsTrue` and `DoneIsReported` are the two directions. For the answers the code
  cannot put into words (`Sayable`) the second asks for no more than that the caller can
  tell the exception from that of a refusal.
* `apply` (`MCJobApply`). Up to two scheduled jobs of either kind besides the one the
  command adds, every kind of setting, both modes, a build with and without the missing
  constant `COMPUTE_RESET`, and every fault; the operator may reset, switch power and stage
  at any time. Two jobs are what the interference between the jobs of the loop needs.
  Checks `PostedJobsEnded`.
* `change` (`MCConfigChange`). The three commands with every combination of arguments that
  can end differently (`Requested` says which cannot), one scheduled job of another user and
  one id besides for the job of the change, every fault, and an operator who resets and
  stages settings at any moment, between the query and the PATCH as well. Two things are
  fixed because the run `apply` varies them in the steps they are about: the operator does
  not switch the power, and `COMPUTE_RESET` is there, so that resets are really made. Checks
  `ResetsAreAskedFor`, `CompletedIsInForce`, `ChangeJobEnded`, `OwnJobNotInterrupted`,
  `OthersNotMixedIn`, `PendingCommittedFirst`, `ChangeEnds`. What the code cannot exclude is
  in the properties and not cut from the run: settings staged after the query, or not shown
  by a query that failed (`unseen`); a commit the controller has refused (`refused`); a
  watch that was given up (`cut`).
* `pending` (`MCConfigChange`). `bios-change --commit_pending` with no fault at all and a
  quiet operator. TLC finds that the PATCH is sent on top of another user's settings when
  the controller refuses their commit with 405: `PendingAlwaysCommitted` is violated.
* `guard` (`MCInvokeAction`). A classified irreversible, a classified destructive and an
  unclassified action that share a short name, in either order and with entries that
  have no target, and a reversible one; the POST is answered like those of `request`; the
  block may change at any time and the invocations follow each other without end. Checks
  `Authorised`, `NamedIsPreferred`, `PerformedIsReported`.
* `scan` (`MCSubnetScan`). Four hosts; lists that are empty, only blank, and with
  repetitions and blanks; `--concurrency` 0, 1, 2 and 5 (none, below and above the number
  of hosts); one host that may never answer; three service roots whose signals
  contradict each other or name nothing; an interrupt at any point. Two hosts that wait
  while two probe are what the order of the queue needs. Checks `BoundedProbes`,
  `NoSlotIdle`, the refinement of `ScanContract` (`Promise`) and `OthersNotStarved`.
* `walk` (`MCDiscovery`). Every tree of a root and three resources that refer to any of
  each other, and two trees with cycles, spellings, filtered and foreign references;
  `MaxDepth` 2, two invocations, any GET or write failing. A depth of 2 with chains of
  length 4 is what the bound needs to bite in the middle of a chain and a shorter chain
  to exist besides. Checks `NothingForgotten`, `OnlyFarIsCut` and the refinement of
  `CrawlContract` (`Contract`).
* `command` (`MCRunCommand`). Every plan of `Commands`, synchronous and with `do_async`,
  two members per collection, any two answers incomplete, failed or lost, those with which
  the manager and the system are found included; refusals 400, which raises, and 405, which
  comes back. Two members are what a loop needs for one to fail and another to go on; two
  faults let one handler hide the other. Checks `CostsItsOwnBranch`, `SentOnWhatWasRead`,
  `DoneIsShown`, `Ends`.
* `session` (`MCSession`). The managers of two hosts, one of which has a second system
  without Bios; five classes that nest as insert, eject, query and exporter do, and one
  that is not registered; three invocations and two faults, so that the third invocation
  meets what two others have left behind. Checks `Unmixed`, `RootIsHost`, `ComesBack`.
* `boot` (`MCIsoBoot`). The script as shipped, with each argument by itself, and with a
  reset that works, with and without `--eject` and `-r`; two acts of somebody else and two
  faults at any point; refusals 400 and 405. An insert and an eject by the other user are
  two acts. Checks `EmptyBeforeInsert`, `Finishes`, and two properties about what goes wrong
  and is not seen: `WrongBootAccounted` and `ArmedAccounted` say that a host that came up
  from something else, or is left with its override armed, is accounted for by what others
  did or by an answer of a command, and name the one way in which that answer stays unseen,
  which is that it holds the state of a watched task and is not printed.
* `export` (`MCExporter`). Serving two clients, pushing, and scraping once; four
  resources of three sources, one of them twice; readings that change once; two failed
  reads, pushes or conversions; clients that leave at any moment. Checks `Fresh`,
  `OwnSamplesOnly`, `LabelStays`, `Served`, `PushesOn`.

Every property has a mutant: a plausible mistake in one of the mapped definitions under
which TLC finds the property violated (`mutants` in `PROJECT.json`).

Deadlock checking is off in the runs of commands that end; there the last state has
no successor. `fetch` and `guard` never stop and are checked for deadlock.

Fairness. Every request of the client is sent and answered within one call, and no
request of the repository sets a timeout (`idrac_manager.py:380`). All liveness below
therefore includes the assumption that the transport delivers an answer or an error in
the end, except where a model says otherwise (`Mute` hosts of the scan).

* `FetchTask!FairSpec`: weak fairness of the client's steps; its loop has nothing to wait
  for but its own sleep and its request. Nothing else is assumed of the server, and
  nothing of the job.
* `ConfigChange!FairSpec`: the command's steps, and that the controller ends a running job
  and starts a job it has itself scheduled for a reset (`auto`); nothing is assumed of the
  operator. Of a watch only the answer with the state of the finished job is fair
  (`Answered`): the early returns and the exceptions may happen and need not, so that no
  watch ends just because a fault has to come. `ChangeEnds` therefore says of all calls
  together: the command ends, or watches for ever a job that waits for a reset neither the
  controller nor the command will make. Such calls exist: `on-reset -r` and a `job-apply` on
  a host that is off (section 6).
* `SubnetScan!FairSpec`: the event loop runs on, and each host that is not mute answers.
* `RunCommand!FairSpec` and `Session!FairSpec`: the execution goes on; no manager is
  assumed to invoke anything.
* `IsoBoot!FairSpec`: the client's steps without faults and the end of a task; nothing of
  other users.
* `Exporter!ExporterFairSpec`: the exporter's steps, and that a client that has connected
  sends its request or goes. The last is an assumption on clients: the server handles one at a time
  and sets no timeout on a connection, so one that stays silent keeps all others waiting.

Bounds. The client has no counters but the depth of the walk. Bounded are the number of
job ids (two or three: two jobs of others and the one the command opens), of Retry-After
values and of codes (one per class), and in the modules where something may go on for
ever `MaxRuns`, `MaxCalls`, `MaxOther`, `MaxFaults`, `MaxGeneration` and `Fan`, each
declared as a bound of the model. The theorems below hold for every value of them.

## 4. What is proved

Eight modules hold the theorems; `tlapm` checks each to the last leaf. They assume only
the named assumptions on the constants (`...Assumption` in each module), which TLC
evaluates in the runs, and the hypotheses a theorem states itself.

* `FetchTaskProofs`: `TypeCorrect`, `Polite` (`NeverPollsEarly`), `Truth`
  (`CompletedIsTrue`), `Refinement` (`ImplementsContract`), `Invariance` and `Patient`
  (`AnswersWhenSettled`). The invariant is `IInv`. It is needed because the answer is made
  from a reply or a remembered state that is older than the job's state now: it says that
  the reply in hand and the remembered state are both states the job has already been in,
  and that the pause covers every header so far in every state and not only while the
  client sleeps. `Truth` then needs no invariant of its own: it follows from the
  refinement and a property of the contract. `Patient` needs `PatientInv`: of an honest
  server, a reply in hand says 202 as long as the job has not settled, however old it is,
  so that only a TaskStatus of Warning or Critical in it can end the loop; and a settled
  job stays settled.
* `RequestProofs`, about a request by itself (`RequestSpec`): `TypeCorrect`;
  `ToldOnlyTheTruth` (`SuccessIsTrue`), for all sets of codes and arguments and for both
  modes, from an invariant that relates the reply to what the controller did;
  `NothingDoneIsDenied` (`DoneIsReported`), for the same: a success is told apart from a
  refusal whatever its code, its header and the mode, and returned as one whenever the code
  has words for it (`Sayable`). And about invocations, whose POST is that request:
  `InvocationTyped`, `GateHolds` (`Authorised`), `ExactMatchWins` (`NamedIsPreferred`), for every policy,
  block and sequence of invocations. The invariant says that an entry is on its way to the
  POST only when it performs what it is named for and was cleared at its own level, and
  carries the one about the request along. `NothingPerformedIsDenied`
  (`PerformedIsReported`) adds that an invocation which is over has passed on the outcome
  of its POST (`Passed`); like the theorem about the request it has no hypothesis.
* `ConfigChangeProofs`: `TypeCorrect`, `AskedFor` (`ResetsAreAskedFor`), `ShowSafe`,
  `InForce` (`CompletedIsInForce`), `Ended` (`ChangeJobEnded`), for every set of jobs,
  requests, codes and faults. The invariant has a part about the calls (`CallsOK`,
  `ReturnsOK`: which callers can have led to which step of the callees, and where those
  return to) and one about the jobs (`JobsOK`: the job under watch holds the change, a
  completed job has put in force what it holds, and the result names a finished one).
  Jobs are kept by every step in the sense of `JobFrame`, shown once per action.
  `OwnJobSafe` (`OwnJobNotInterrupted`) and `Ended` add `MineOK`: a job that holds the
  change is finished, is the one under watch, has had its watch given up, or was left by a
  command that has ended in an exception; and `InterruptedOK`: of the jobs a reset of the
  client has met, those that hold the change are among the ones given up.
  `OthersApart` (`OthersNotMixedIn`) and `CommittedFirst`
  (`PendingCommittedFirst`) rest on `ApartOK`, about the calls that look or commit before
  they change (`Careful`): when they come to the PATCH, all that others have staged came
  after the last look or was not shown (`Seen`), or the commit was refused
  (`NotCommitted`). Queries that fail, refusals of every kind and others who stage at any
  moment are part of what the theorems cover. `PostedSeenToEnd` (`PostedJobsEnded`) and
  `ApplyTypeCorrect` are about `job-apply` by itself (`ApplySpec`), with an invariant of
  their own: a job the controller reboots for is finished, under watch (`PostedWatched`),
  or given up and then named in the answer without an end (`NamedUnfinished`).
* `SubnetScanProofs`: `TypeCorrect`, `Bounded` (`BoundedProbes`), `WorkConserving`
  (`NoSlotIdle`), `NoneTwice` (`AskedOnce`), for every list of hosts and every bound. The
  invariant counts: free slots and probes under way add up to the bound (`SlotsOK`), and
  the queue holds each waiting coroutine once and is empty while a slot is free
  (`QueueOK`). `KeepsItsPromise` (`Promise`) is the refinement of `ScanContract`: an answer
  maps to an answer, the end to the report, everything else to a stutter. It needs that
  the first loop has kept every address it has seen in the order of first mentions
  (`CollectedOK`) and the second every service in the order of the addresses (`FoundOK`),
  and that the first resolver which names a vendor names one the contract allows.
* `ReadingProofs`, about discovery: `TypeCorrect`, `LosesNothing` (`NothingForgotten`),
  `Implements` (`Contract`), for every tree and number of invocations. The invariant
  relates the calls still to be made to the references of saved documents (`CallsOK`) and
  the marks to the GETs (`MarksOK`): a marked resource that is part of the walk has been
  asked for once. `OnlyTheFarIsGivenUp` (`OnlyFarIsCut`) needs `DepthsOK`: a call at depth d
  is at the end of a chain of d references along visited resources. A step extends a chain
  of the call it returns from by one reference, so that no induction over chains is needed;
  and the resource of the call is not among them, because it is marked only now.
  About the exporter, for any resources, histories, clients and number of failures:
  `ExporterTypeCorrect`; `NothingOldIsGiven` (`Fresh`), from bounds on the moments of rows
  and samples (`FreshInv`); `FailuresCostTheirOwn` (`OwnSamplesOnly`), from `RowsOK`: in the
  middle of a scrape each resource is still to come, has failed, or has one row of what it
  showed at a moment of this scrape, and what is still to come has neither row nor failure,
  which is what makes dropping the rows of a whole source right; `LabelIsKept`
  (`LabelStays`), from `LabelInv`, which ties the label to the vendor that was kept.
* `RunCommandProofs`, for every set of plans that satisfies `PlanAssumption`, collections
  of any size and any number of failures: `TypeCorrect`; `ChangesRestOnReads`
  (`SentOnWhatWasRead`), because a branch of a changing command stands at its end or all was
  read on its way, and nothing was to be read below a manager or a system that was not found
  (`Fine`, `EndedUnread`); `DoneIsAlwaysShown` (`DoneIsShown`), because the one
  step that sends is behind every pending branch once it has acted (`OnTheWay`,
  `ActedOnce`, with `StraysAskAgain` and `NotYet` for the branches and phases that cannot
  be in question), and a change whose answer is not printed is one the controller has opened
  a task for (`Watching`); `OnlyItsOwnBranch` (`CostsItsOwnBranch`), because the nodes of
  pending branches are apart (`Apart`) and each of them is apart from what was given up and has
  its row still to come (`AllAhead`). They rest on one lemma per way in which a step changes
  the loop nest (`MoveSplices`: the branch at the head is replaced by none, one, or
  several) instead of one per action.
* `SessionProofs`: `TypeCorrect`, `OneHostPerCall` (`Unmixed`), `RootRight`
  (`RootIsHost`), for every registry and program. Only the innermost execution is in the
  middle of a resolution (`OuterRest`); what it has found so far is right as long as no
  answer was wrong (`HeadSound`); and while no class was bound to another host when the
  invocation began, every class is free or bound to the host that is meant (`OneHost`).
* `IsoBootProofs`: `TypeCorrect`, `InsertsIntoEmpty` (`EmptyBeforeInsert`),
  `WrongBootIsAccounted` (`WrongBootAccounted`), `ArmedIsAccounted` (`ArmedAccounted`), for
  any number of acts of others and of faults. The invariant says which step belongs to which
  command (`PlacesOK`), that an exception stands in place of an answer (`AnswersOK`), that a
  task running behind the script's back has left a failure in an answer or is the nested
  eject nobody looked at (`TasksOK`), what the insert and the boot may rely on of the drive
  (`DriveOK`, `ImageOK`), and what the host came up from so far (`BootsOK`). The parts are
  needed together: that the image stays in the drive depends on no eject task being left
  over from an earlier command. On top of it `MuteOK` says which answers are not printed:
  those of a command that has had a task, and that of an eject which found the drive empty
  and has no failure to tell of.

`TypeOK` of most modules is proved and for that reason in no run. `CompletedIsTrue`,
`ShowSendsNothing` and `AskedOnce` are proved and in no run either.

Every safety invariant and every action property of the runs, and each refinement of an
abstract specification, is stated by one of these theorems. Only model-checked is the
liveness: `SettledIsAnswered`, `ChangeEnds`, `OthersNotStarved`, `Ends`, `ComesBack`,
`Finishes`, `Served`, `PushesOn`, because the prover does not reach fairness and ENABLED.
Out of reach of the prover as well are induction over data and recursive operators; the
modules use neither.

A failed proof has corrected the model: that the plans of `bios-clear-pending` and of the
two RAID conversions jump to a step the code reaches did not hold, because
their forks named the end of the loop instead of the step after it.

## 5. What is left

Planned, in this order:

1. The one-step watches of `JobApply` and `IsoBoot` shown by refinement to give only
   answers of `WatchContract`. They state the same answers now, in the vocabulary of their
   own jobs, and nothing checks that the two lists agree.
2. `PostedJobsEnded` for a `job-apply` that other commands call.

Not modelled, and why:

* `create_apply_time_req` builds a piece of a request body out of its arguments: no state
  and no branch a property depends on.
* `async_invoke` is the same dispatch as `sync_invoke` in a coroutine, and nothing calls
  it.
* `wait_for_reboot` for other bounds than the one its only callers pass: its loop is left
  at the first check in every call (`JobApply!ResetReturns`).
* `raid/cmd_pd_state.py` holds only comments; which disks `convert_none_raid` chooses
  by their names is abstracted to whether any is left.
* The parsing of arguments, the layout, colouring and saving of answers, and the questions a
  command asks before it acts, have no state of their own. Whether an answer is printed
  depends on what is in it and is modelled.
* The capability tables of the vendors and the table of classified actions are constant
  data.
* The schema validator, the packaging, the examples and the recorded responses are
  developer tooling; the one script that runs several commands in a row is what `IsoBoot`
  follows.
* `MCSession!Program` is representative: it has the nesting of the real commands, not all
  of them. The theorems hold for any program.

## 6. Disagreements met while modelling

Places where the code does something else than its documentation, a comment or a test
says, or than its author can have meant. Where they are about control flow the models do
what the code does, and a property that is about the case names it. The first is shown
by a run.

* `bios-change --commit_pending` "will first commit all pending changes before do new
  change" (`bios/cmd_change_bios.py:274`). It drops what `job_apply` returns (343), and goes
  on to the PATCH when the controller refuses the commit with 405 (run `pending`).

Printing:

* The state that `fetch_task` returns is a member of an Enum, and the commands put it into
  their answer. `RedfishActionEncoder` asks for the `__dict__` of what it cannot encode
  (`idrac_shared.py:166`), which a member of an Enum leads to an `AttributeError`;
  `json_printer` swallows it (`idrac_main.py:182-184`). A change that was watched ends with
  nothing printed, and so does an eject that finds the drive empty, whose answer holds a
  verdict of the same kind.

Task monitor:

* `Retry-After` may be a date in HTTP; `int` of it raises a `ValueError` that no caller
  expects (`idrac_manager.py:554`).
* A 401 without a body, or a code the loop does not foresee without JSON, erases the last
  known state: the next 404 or 5xx is answered with Unknown
  (`idrac_manager.py:624`, docstring at 504). A 401 builds `AuthenticationFailed` and does
  not raise it (561, docstring at 520). `wait_for_state` is tested and not honoured (618,
  docstring 498).

Requests:

* A request answered 201, 206, or 202 without a Location has been carried out, and
  raises while the answer is put into words (`idrac_manager.py:1424`). A request refused
  with 405 or 409 is returned with `error=None` (1429, docstring at 1446). A code the
  caller asked to ignore raises `KeyError` (1179, argument at 1319).
* The async helpers return (response, verdict), and the callers unpack the pair the other
  way round (1376): after a request that succeeded with `do_async` an `AttributeError` is
  raised (docstring 1324).
* `async_default_error_handler` tests `status_code >= 200 or status_code < 300`, which is
  always true (`redfish_manager.py:165`): the body of an error passes for a document.
* No request sets a timeout (`idrac_manager.py:380`).
* `create_apply_time_req` builds a `ValueError` and does not raise it (2178, docstring
  2155).

Guarded actions:

* `invoke_action` marks a POST the controller refused with 405 or 409 as executed
  (`idrac_manager.py:1684`). It falls back to an action of another type when the exact
  type asked for is absent; the fallback is judged at its own level (`Authorised`).

Settings and jobs:

* `api_resp.Success or api_resp.Ok` tests two members of the enumeration and is always
  true: a PATCH refused with 405 is committed, and the host rebooted, all the same
  (`bios/cmd_change_bios.py:366`, `idrac_shared.py:540`).
* `on-reset -r` watches the job that waits for the reset the command would perform after
  the watch (`cmd_change_bios.py:363` and 377, `examples/example_bios_tuning.sh:4`).
* `job-apply` reads the scheduled jobs once; its second reset hits the job the first one
  has started (`jobs/cmd_job_apply.py:119`, comment at 115). It resets the host without
  `-r` (120, option at 46) and, when the host is off, watches a job nothing will start
  (124).
* `reboot` uses `IDRAC_API.COMPUTE_RESET`, which does not exist, and raises before it sends
  the reset (`compute/cmd_power_state.py:172`; `tests/test_cmd_boot_dualmode.py:74` defines
  it).
* `--commit` resets without `-r` (`bios/cmd_change_bios.py:370`, `docs/bios-profiles.md:18`);
  a failed query for pending settings counts as none pending (`bios/cmd_bios_pending.py:72`);
  the state of the job of `--commit` is dropped (375); `boot-source-update` ignores
  `--commit_pending` (`boot_source/cmd_update.py:102`).
* `wait_for_reboot` compares its own bound with 10, the default of the argument, and
  leaves its loop at the first check (`compute/cmd_power_state.py:89`).

Virtual media and one-shot boot:

* The nested eject of `insert_vm --eject` is taken for done whatever became of it: the
  error it is tested for is never set (`virtual_media/cmd_virtual_media_insert.py:207`).
  Insert and eject first ask for the version under a Dell path and fail on any other
  controller.
* `boot-one-shot -r` leaves the override armed, because the reset raises for want of
  `COMPUTE_RESET`; `--power_on` cannot finish; and the reset follows a refused PATCH as well
  (`boot_source/cmd_boot_one_shot.py:155`).

Discovery and sessions:

* The marks of the walk are never reset, so a second invocation in one process finds
  nothing (`discovery/cmd_discovery.py:228`). A resource first met below the depth bound on
  one chain is not lost if a shorter one leads to it later, but one first met just above
  the bound is never followed further (138). Two paths that differ only in "/" and "_"
  share a file (163).
* An instance is bound to the address of whoever invoked its class first
  (`idrac_shared.py:229`). An empty list of managers is kept as None, and every later
  resolution of that instance asks a host without a name; an answer of the managers
  without the member it looks for gives the path of the collection
  (`idrac_manager.py:1852`).

Exporter:

* `--port` does not reach `execute`, so that the server listens on 9109
  (`telemetry/cmd_exporter.py:166`); `IDRAC_PORT` of an environment file is never applied,
  because the argument is never empty, and an explicit user `root` is overridden by it
  (`telemetry/exporter.py:143`).
* A port without LinkStatus is exported as link_up 0 (`telemetry/exporter.py:220`); an
  empty Vendor is kept as "unknown". For a controller address from .236 on the last octet
  of `server.address` exceeds 255, and below .20 the slot is negative (87).

Other commands:

* `convert_to_raid` does not import the `find_ids` it uses (`storage/cmd_convert_to_raid.py:79`)
  and raises before it has read a drive. `system-import` hands an absolute address to
  `base_post`, which puts the host in front of it once more (`system/cmd_system_import.py:153`,
  `idrac_manager.py:1347`), so that its request reaches nobody.
* `chassis-reset` reads an attribute `_args` it does not have. `convert_none_raid` and
  `volume-init` hand the pair of `base_post` to `parse_task_id`, and `one_time_boot` passes
  `self` twice: these have sent their request before they raise. `virtual_disk` appends to
  the list it walks (`volumes/cmd_virtual_disk.py:118`).
* Documents without the members or the links that name a manager or a system leave None or
  an empty path, with which the commands go on (`idrac_manager.py:1851-1852`, 1922-1941):
  a reset or a deletion is then sent to an address that does not exist.

## 7. Running it

    tlc -workers 2 -config FetchTask.cfg MCFetchTask
    tlapm FetchTaskProofs.tla

and likewise for each entry of `runs` (which names its module and its configuration) and
each `*Proofs` module. The longest runs (`fetch`, `change`, `command`, `boot`) take a few
minutes each.
