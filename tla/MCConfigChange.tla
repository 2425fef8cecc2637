--------------------------- MODULE MCConfigChange ---------------------------
(* TLC instances of ConfigChange. *)
EXTENDS ConfigChange

CONSTANTS j1, j2, j3

AtMostOne == {{}, {j1}}

\* The calls that can end differently.  With --show the command returns before
\* it reads any other argument; an asynchronous PATCH ends in an exception, so
\* that only the job it has opened is left of what comes after; without an apply
\* time the host is left alone as it is on-reset; and boot-source-update does not
\* read commit_pending.
Requested ==
    {r \in RequestType :
        /\ r.show => ~r.commit_pending /\ ~r.commit /\ ~r.reboot /\ ~r.async
        /\ r.async => ~r.commit /\ ~r.reboot
        /\ r.command # "change-boot-order" => r.apply # "none"
        /\ r.command = "boot-source-update" => ~r.commit_pending}

\* Calls of bios-change that are to commit what is pending first.
CommittingPending == {r \in RequestType : r.command = "bios-change" /\ r.commit_pending}
=============================================================================
