----------------------------- MODULE MCSession -----------------------------
EXTENDS Session

CONSTANTS dell, split, embedded, system_0, hgx, insert, eject, query, exporter, unknown

MCHosts == {dell, split}
MCClasses == {insert, eject, query, exporter, unknown}
MCRegistry == {insert, eject, query, exporter}

\* The insert of virtual media asks, ejects and asks again through nested
\* commands, and the exporter goes on without what it cannot read.
MCProgram ==
    [c \in MCClasses |->
        CASE c = insert -> <<query, eject, "send">>
          [] c = eject -> <<query, "send">>
          [] c = query -> <<"root", "send">>
          [] c = exporter -> <<query, unknown, "root", "send">>
          [] c = unknown -> <<>>]

MCCatching == {exporter}
MCLink == [h \in MCHosts |-> IF h = dell THEN embedded ELSE hgx]
MCSystemsOf == [h \in MCHosts |-> IF h = dell THEN <<embedded>> ELSE <<hgx, system_0>>]
MCWithBios == {embedded, system_0}
=============================================================================
