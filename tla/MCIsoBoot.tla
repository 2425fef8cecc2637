----------------------------- MODULE MCIsoBoot -----------------------------
EXTENDS IsoBoot

\* A code that raises, and one that comes back as the verdict Error.
MCRefusalCodes == {400, 405}

Shipped == [eject |-> FALSE, strict |-> FALSE, power_on |-> FALSE, reboot |-> TRUE, compute_reset |-> FALSE]

\* The script as it is shipped, each argument by itself, and the script with a
\* reset that works, with and without --eject and -r.
MCArgs ==
    {Shipped, [Shipped EXCEPT !.strict = TRUE], [Shipped EXCEPT !.power_on = TRUE]}
    \union {[Shipped EXCEPT !.eject = e, !.reboot = r, !.compute_reset = TRUE] : e, r \in BOOLEAN}
=============================================================================
