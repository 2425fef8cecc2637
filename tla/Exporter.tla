------------------------------ MODULE Exporter ------------------------------
(***************************************************************************)
(* The exporter command: it scrapes six sources of a controller, row by    *)
(* row while the readings change, and gives the samples to whoever asks    *)
(* for /metrics, one client at a time, or pushes them again and again, or  *)
(* returns them once.  Any GET, push or client may fail.                   *)
(***************************************************************************)
EXTENDS Naturals, Sequences, FiniteSets

CONSTANTS
    Clients,        \* HTTP clients of /metrics, each of which connects once
    Leaves,         \* the resources that are read, each once, in order; see Leaf
    Histories,      \* what the resources may show, by generation
    MaxGeneration,  \* bound of the model: changes of the readings
    MaxFaults,      \* bound of the model: failed GETs, unexpected documents
    Nobody

Sources == {"environment", "sensors", "nvlink", "metric_reports", "network", "integrity"}
Leaf == [source : Sources, n : Nat]
Everything == {Leaves[k] : k \in 1..Len(Leaves)}

\* on and off are well-formed readings (a number, LinkUp, an Enabled that is
\* true; zero, LinkDown, false), missing is any other (null, text, infinite).
Readings == {"on", "off", "missing"}

ASSUME ExporterAssumption ==
    /\ Leaves \in Seq(Leaf)
    /\ \A j, k \in 1..Len(Leaves) : Leaves[j] = Leaves[k] => j = k
    /\ Histories \subseteq [0..MaxGeneration -> Readings]
    /\ MaxGeneration \in Nat /\ MaxFaults \in Nat
    /\ Nobody \notin Clients

VARIABLES
    mode,           \* serve | push | once
    do_async, vendor_given, names_vendor,
    shows, generation,      \* the controller
    phase,
    todo,           \* the places in Leaves of what this scrape has still to read
    rows,           \* what it has read
    samples,        \* what it has built
    label,          \* the vendor dimension of its samples
    kept,           \* the cached property redfish_vendor
    began,          \* history: the generation when it was asked for
    failed,         \* history: the leaves it could not read
    clients,        \* what has become of each client
    arrived,        \* history: the generation when it connected
    queue,          \* the clients that have connected, first come first
    serving,        \* the client of the request handler
    answers,        \* the status each client got
    published,      \* history: the label of what was given away last
    faults,
    ended           \* none | exit | returned | raised

setup == <<mode, do_async, vendor_given, names_vendor, shows>>
scrape == <<todo, rows, samples, label, kept, began, failed>>
server == <<clients, arrived, queue, serving, answers>>
exporterVars == <<setup, generation, phase, scrape, server, published, faults, ended>>

ExporterInit ==
    /\ mode \in {"serve", "push", "once"}
    /\ do_async \in BOOLEAN /\ vendor_given \in BOOLEAN /\ names_vendor \in BOOLEAN
    /\ shows \in Histories
    /\ generation = 0
    /\ phase = "launch"
    /\ todo = {} /\ rows = {} /\ samples = {}
    /\ label = "none" /\ kept = "none"
    /\ began = 0 /\ failed = {}
    /\ clients = [c \in Clients |-> "away"]
    /\ arrived = [c \in Clients |-> 0]
    /\ queue = <<>> /\ serving = Nobody
    /\ answers = [c \in Clients |-> "none"]
    /\ published = "none"
    /\ faults = 0
    /\ ended = "none"

Fault == faults < MaxFaults /\ faults' = faults + 1
End(how) == phase' = "done" /\ ended' = how
Goto(l) == phase' = l /\ UNCHANGED ended

-----------------------------------------------------------------------------
(* Start *)

\* idrac_main_ctl and execute: no password on the command line, credentials
\* that are complete with those of the file, and for a push a token and a URL.
Launch ==
    /\ phase = "launch"
    /\ \E secret, file_found, complete, token, url \in BOOLEAN :
          \/ (secret \/ ~file_found \/ ~complete) /\ End("exit")
          \/ /\ ~secret /\ file_found /\ complete
             /\ \/ mode = "push" /\ ~(token /\ url) /\ End("raised")
                \/ mode = "push" /\ token /\ url /\ Goto("scrape")
                \/ mode = "once" /\ Goto("scrape")
                \/ mode = "serve" /\ Goto("listen")
    /\ UNCHANGED <<setup, generation, scrape, server, published, faults>>

-----------------------------------------------------------------------------
(* collect_samples *)

\* Mutant: the lists of the scrape before are appended to.
BeginOnTop ==
    /\ phase = "scrape"
    /\ Goto("vendor")
    /\ todo' = 1..Len(Leaves)
    /\ failed' = {}
    /\ began' = IF serving = Nobody THEN generation ELSE arrived[serving]
    /\ UNCHANGED <<setup, generation, rows, samples, label, kept, server, published, faults>>

Begin ==
    /\ phase = "scrape"
    /\ Goto("vendor")
    /\ todo' = 1..Len(Leaves)
    /\ rows' = {} /\ samples' = {} /\ failed' = {}
    /\ began' = IF serving = Nobody THEN generation ELSE arrived[serving]
    /\ UNCHANGED <<setup, generation, label, kept, server, published, faults>>

Detected == IF names_vendor THEN "named" ELSE "unknown"

\* Mutant: the service root is asked for the vendor at every scrape.
LabelAnew ==
    /\ phase = "vendor"
    /\ Goto("read")
    /\ \/ vendor_given /\ label' = "given" /\ UNCHANGED <<kept, faults>>
       \/ ~vendor_given /\ label' = Detected /\ UNCHANGED <<kept, faults>>
       \/ ~vendor_given /\ Fault /\ label' = "unknown" /\ UNCHANGED kept
    /\ UNCHANGED <<setup, generation, todo, rows, samples, began, failed, server, published>>

\* _vendor_label: the vendor is kept once it was read, also as an empty one; a
\* failed GET gives "unknown" and is not kept.
Label ==
    /\ phase = "vendor"
    /\ Goto("read")
    /\ \/ vendor_given /\ label' = "given" /\ UNCHANGED <<kept, faults>>
       \/ ~vendor_given /\ kept # "none" /\ label' = kept /\ UNCHANGED <<kept, faults>>
       \/ /\ ~vendor_given /\ kept = "none"
          /\ label' = Detected /\ kept' = label'
          /\ UNCHANGED faults
       \/ /\ ~vendor_given /\ kept = "none"
          /\ Fault
          /\ label' = "unknown"
          /\ UNCHANGED kept
    /\ UNCHANGED <<setup, generation, todo, rows, samples, began, failed, server, published>>

Due(k) == k \in todo /\ \A j \in todo : k <= j

Row(leaf, reading) == [leaf |-> leaf, reading |-> reading, generation |-> generation]

Read ==
    /\ phase = "read"
    /\ \E k \in todo :
          /\ Due(k)
          /\ rows' = rows \union {Row(Leaves[k], shows[generation])}
          /\ todo' = todo \ {k}
    /\ UNCHANGED <<setup, generation, phase, samples, label, kept, began, failed, server, published, faults, ended>>

\* A leaf that cannot be read has no row.  In async mode an error body passes
\* for the document, because no one looks at the code of the answer.
LeafFails ==
    /\ phase = "read"
    /\ \E k \in todo :
          /\ Due(k)
          /\ failed' = failed \union {Leaves[k]}
          /\ \/ UNCHANGED rows
             \/ do_async /\ rows' = rows \union {Row(Leaves[k], "unread")}
          /\ todo' = todo \ {k}
    /\ Fault
    /\ UNCHANGED <<setup, generation, phase, samples, label, kept, began, server, published, ended>>

Of(source) == {l \in Everything : l.source = source}

\* Mutant: the first source that fails ends the scrape.
SourceFailsLast ==
    /\ phase = "read"
    /\ \E k \in todo : Due(k) /\ failed' = failed \union Of(Leaves[k].source)
    /\ todo' = {}
    /\ Fault
    /\ UNCHANGED <<setup, generation, phase, rows, samples, label, kept, began, server, published, ended>>

\* _invoke_rows, _environment_rows: the list of a source, or the command that
\* walks it, fails, and the source has no rows.
SourceFails ==
    /\ phase = "read"
    /\ \E k \in todo :
          /\ Due(k)
          /\ LET theirs == Of(Leaves[k].source) IN
                /\ failed' = failed \union theirs
                /\ rows' = {r \in rows : r.leaf \notin theirs}
                /\ todo' = {j \in todo : Leaves[j] \notin theirs}
    /\ Fault
    /\ UNCHANGED <<setup, generation, phase, samples, label, kept, began, server, published, ended>>

\* What a row gives: presence is always on, a state that is not the expected
\* one is off, a quantity that is no finite number gives nothing.
Gauge(source, reading) ==
    CASE source = "network" -> {"on"}
      [] source \in {"nvlink", "integrity"} -> {IF reading = "on" THEN "on" ELSE "off"}
      [] source \in {"environment", "sensors", "metric_reports"} -> {reading} \intersect {"on", "off"}

Samples ==
    UNION {{[leaf |-> r.leaf, value |-> v, generation |-> r.generation] : v \in Gauge(r.leaf.source, r.reading)} : r \in rows}

Serving == mode = "serve"

\* An unexpected document makes the conversion raise.
Build ==
    /\ phase = "read" /\ todo = {}
    /\ \/ /\ samples' = Samples
          /\ \/ Serving /\ Goto("reply")
             \/ mode = "push" /\ Goto("push")
             \/ mode = "once" /\ End("returned")
          /\ UNCHANGED faults
       \/ /\ Fault
          /\ UNCHANGED samples
          /\ \/ Serving /\ Goto("error")
             \/ ~Serving /\ End("raised")
    /\ UNCHANGED <<setup, generation, todo, rows, label, kept, began, failed, server, published>>

-----------------------------------------------------------------------------
(* run_signalfx_loop *)

\* The sleep is at least a second, and a push that fails ends the loop.
Push ==
    /\ phase = "push"
    /\ \/ Goto("sleep") /\ published' = label /\ UNCHANGED faults
       \/ End("raised") /\ Fault /\ UNCHANGED published
    /\ UNCHANGED <<setup, generation, scrape, server>>

\* Mutant: nothing is pushed until a reading has changed.
WakeOnNews ==
    /\ phase = "sleep" /\ generation > began
    /\ Goto("scrape")
    /\ UNCHANGED <<setup, generation, scrape, server, published, faults>>

Wake ==
    /\ phase = "sleep"
    /\ Goto("scrape")
    /\ UNCHANGED <<setup, generation, scrape, server, published, faults>>

-----------------------------------------------------------------------------
(* serve_prometheus *)

\* The one thread takes the client that came first.
Accept ==
    /\ phase = "listen" /\ queue # <<>>
    /\ serving' = Head(queue)
    /\ queue' = Tail(queue)
    /\ Goto("request")
    /\ UNCHANGED <<setup, generation, scrape, clients, arrived, answers, published, faults>>

Release == serving' = Nobody /\ Goto("listen")

Answer(status) ==
    IF clients[serving] = "gone" THEN UNCHANGED answers
    ELSE answers' = [answers EXCEPT ![serving] = status]

\* It waits for the request of that client and of no other.
Receive ==
    /\ phase = "request"
    /\ \/ clients[serving] = "metrics" /\ Goto("scrape") /\ UNCHANGED <<serving, answers>>
       \/ clients[serving] = "other" /\ Answer("404") /\ Release
       \/ clients[serving] = "gone" /\ Release /\ UNCHANGED answers
    /\ UNCHANGED <<setup, generation, scrape, clients, arrived, queue, published, faults>>

\* Mutant: the handler gives up the server when its client has gone.
ReplyOrDie ==
    /\ phase \in {"reply", "error"}
    /\ Answer(IF phase = "reply" THEN "200" ELSE "500")
    /\ \/ clients[serving] # "gone" /\ Release
       \/ clients[serving] = "gone" /\ End("raised") /\ UNCHANGED serving
    /\ published' = IF phase = "reply" THEN label ELSE published
    /\ UNCHANGED <<setup, generation, scrape, clients, arrived, queue, faults>>

\* Writing to a client that has gone raises in the handler, which tries to
\* write that too, and the server drops the exception.
Reply ==
    /\ phase \in {"reply", "error"}
    /\ Answer(IF phase = "reply" THEN "200" ELSE "500")
    /\ Release
    /\ published' = IF phase = "reply" THEN label ELSE published
    /\ UNCHANGED <<setup, generation, scrape, clients, arrived, queue, faults>>

-----------------------------------------------------------------------------
(* The controller and the clients *)

Change ==
    /\ generation < MaxGeneration
    /\ generation' = generation + 1
    /\ UNCHANGED <<setup, phase, scrape, server, published, faults, ended>>

Connect ==
    /\ Serving /\ phase # "launch" /\ ended = "none"
    /\ \E c \in Clients :
          /\ clients[c] = "away"
          /\ clients' = [clients EXCEPT ![c] = "connected"]
          /\ arrived' = [arrived EXCEPT ![c] = generation]
          /\ queue' = Append(queue, c)
    /\ UNCHANGED <<setup, generation, phase, scrape, serving, answers, published, faults, ended>>

Ask(c) ==
    /\ clients[c] = "connected"
    /\ \E what \in {"metrics", "other", "gone"} : clients' = [clients EXCEPT ![c] = what]
    /\ UNCHANGED <<setup, generation, phase, scrape, arrived, queue, serving, answers, published, faults, ended>>

HangUp(c) ==
    /\ clients[c] \in {"metrics", "other"} /\ answers[c] = "none"
    /\ clients' = [clients EXCEPT ![c] = "gone"]
    /\ UNCHANGED <<setup, generation, phase, scrape, arrived, queue, serving, answers, published, faults, ended>>

Step ==
    \/ Launch \/ Begin \/ Label \/ Read \/ LeafFails \/ SourceFails \/ Build
    \/ Push \/ Wake \/ Accept \/ Receive \/ Reply

Client == Connect \/ \E c \in Clients : Ask(c) \/ HangUp(c)

ExporterNext == Step \/ Change \/ Client

ExporterSpec == ExporterInit /\ [][ExporterNext]_exporterVars

\* The exporter runs on, its GETs and pushes being answered or given up, and a
\* client that has connected sends its request or goes: the server has no
\* timeout for it.
ExporterFairSpec == ExporterSpec /\ WF_exporterVars(Step) /\ \A c \in Clients : WF_exporterVars(Ask(c))

-----------------------------------------------------------------------------
(* Properties *)

\* Every variable keeps its type, and who is served has asked.
ExporterTypeOK ==
    /\ mode \in {"serve", "push", "once"} /\ shows \in Histories
    /\ {do_async, vendor_given, names_vendor} \subseteq BOOLEAN
    /\ generation \in 0..MaxGeneration /\ faults \in 0..MaxFaults
    /\ phase \in {"launch", "listen", "request", "scrape", "vendor", "read", "reply",
                  "error", "push", "sleep", "done"}
    /\ todo \subseteq 1..Len(Leaves) /\ failed \subseteq Everything
    /\ rows \subseteq [leaf : Leaf, reading : Readings \union {"unread"}, generation : 0..MaxGeneration]
    /\ samples \subseteq [leaf : Leaf, value : {"on", "off"}, generation : 0..MaxGeneration]
    /\ {label, kept, published} \subseteq {"none", "given", "named", "unknown"}
    /\ began \in 0..MaxGeneration
    /\ clients \in [Clients -> {"away", "connected", "metrics", "other", "gone"}]
    /\ arrived \in [Clients -> 0..MaxGeneration]
    /\ queue \in Seq(Clients) /\ serving \in Clients \union {Nobody}
    /\ phase \in {"request", "reply", "error"} => serving # Nobody
    /\ answers \in [Clients -> {"none", "200", "404", "500"}]
    /\ ended \in {"none", "exit", "returned", "raised"}

Given == phase \in {"reply", "push"} \/ ended = "returned"

\* What is given away was read for whoever asked, after he asked: nothing of an
\* earlier scrape, nothing from before a client connected, however long it
\* waited in the queue.
Fresh ==
    Given => \A x \in samples : x.generation >= began

\* A failing resource costs its own samples and nothing else: each one that was
\* read has the sample of what it showed at one moment of this scrape, and none
\* of another moment, and in sync mode there is no sample, not even a zero, of
\* one that was not read.  A quantity that is no number is left out.
OwnSamplesOnly ==
    Given =>
       /\ ~do_async => \A x \in samples : x.leaf \notin failed
       /\ \A l \in Everything \ failed : \E g \in began..generation :
             /\ shows[g] # "missing" => \E x \in samples : x.leaf = l /\ x.generation = g
             /\ \A x \in samples : x.leaf = l =>
                   /\ x.generation = g
                   /\ l.source \in {"environment", "sensors", "metric_reports"} => x.value = shows[g]

\* The vendor dimension joins the series: once samples have been given away
\* under the name the controller gives itself, they are never given away under
\* another, whatever GETs fail later.
LabelStays ==
    [][(published \in {"named", "given"}) => (published' = published)]_exporterVars

\* A client that has connected is answered or goes, whatever the clients before
\* it do after they have asked and whatever fails on the controller.
Served ==
    \A c \in Clients : clients[c] = "connected" ~> (answers[c] # "none" \/ clients[c] = "gone")

\* The push loop pushes for ever or ends with an exception.
PushesOn ==
    (mode = "push" /\ phase = "sleep") ~> (phase = "push" \/ ended = "raised")
=============================================================================
