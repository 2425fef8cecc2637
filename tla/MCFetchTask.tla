---------------------------- MODULE MCFetchTask ----------------------------
(* Instances of FetchTask for TLC: pauses of 30 and 5 seconds around the
   default of 10, one fault of each class the loop tells apart. *)
EXTENDS FetchTask

SomeRetryAfters == {5, 30}

\* A job that get_job finds on its way and one it knows nothing of.  The states
\* behind them (waiting, paused, rebooting, finished, deleted) are steps of these
\* jobs, before or after get_job; a download is bounced off like a wait.
Early == {"Scheduled", "Unknown"}

Honest == [faults |-> {}, monitor |-> TRUE]
Hostile == [faults |-> {200, 202, 204, 401, 503}, monitor |-> FALSE]

AnyServer == {Honest, Hostile}
=============================================================================
