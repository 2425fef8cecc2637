---------------------------- MODULE ScanContract ----------------------------
(***************************************************************************)
(* What redfish-discover promises (discover/scanner.py, docstring of       *)
(* scan_subnet; discover/classifier.py): every listed host is asked once,  *)
(* and the report names the hosts that answered with a service root, each  *)
(* once, in the order of their first mention, under the vendor that the    *)
(* strongest signal of the root names.                                     *)
(***************************************************************************)
EXTENDS Naturals, Sequences

CONSTANTS
    Hosts,          \* host addresses
    Blank,          \* the empty entry of a list
    Roots,          \* the service roots a host may answer with
    VendorOf,       \* vendor tag of a word that names a vendor
    TextVendorOf,   \* vendor tag of a word of free text that names one
    NoRoot          \* any other answer: nothing usable, or an exception

VARIABLES
    hosts,          \* the addresses as listed, with repetitions
    answer,         \* what each listed host has answered so far
    report          \* the result of the scan

contractVars == <<hosts, answer, report>>

Pending == [kind |-> "pending"]
Failed == [kind |-> "failed"]
Listed == {hosts[i] : i \in DOMAIN hosts} \intersect Hosts

FirstMention(h) == CHOOSE i \in DOMAIN hosts : hosts[i] = h /\ \A j \in 1..(i - 1) : hosts[j] # h

\* The vendors that the words of a signal name.
Named(words, tag) == {tag[w] : w \in words \intersect DOMAIN tag}

OemWords(root) == {root.oem[i] : i \in DOMAIN root.oem}

\* Oem block before schema name before free text.
TrueVendors(root) ==
    LET oem == Named(OemWords(root), VendorOf)
        type == Named({root.type}, VendorOf)
        text == Named(root.text, TextVendorOf)
    IN  IF oem # {} THEN oem ELSE IF type # {} THEN type
        ELSE IF text # {} THEN text ELSE {"generic"}

Faithful(services) ==
    /\ {services[i].ip : i \in DOMAIN services} = {h \in Listed : answer[h] # NoRoot}
    /\ \A i \in DOMAIN services : services[i].vendor \in TrueVendors(answer[services[i].ip])
    /\ \A i, j \in DOMAIN services :
          i < j => FirstMention(services[i].ip) < FirstMention(services[j].ip)

Init ==
    /\ hosts \in Seq(Hosts \union {Blank})
    /\ answer = [h \in Listed |-> Pending]
    /\ report = Pending

Answer(h) ==
    /\ answer[h] = Pending
    /\ answer' \in {[answer EXCEPT ![h] = a] : a \in Roots \union {NoRoot}}
    /\ UNCHANGED <<hosts, report>>

Finish ==
    /\ report = Pending
    /\ Pending \notin {answer[h] : h \in Listed}
    /\ report'.kind = "services"
    /\ Faithful(report'.services)
    /\ UNCHANGED <<hosts, answer>>

Fail ==
    /\ report = Pending
    /\ report' = Failed
    /\ UNCHANGED <<hosts, answer>>

Next == (\E h \in Listed : Answer(h)) \/ Finish \/ Fail

Spec == Init /\ [][Next]_contractVars
=============================================================================
