----------------------------- MODULE MCJobApply -----------------------------
(* TLC instances of JobApply. *)
EXTENDS JobApply

CONSTANTS j1, j2, j3

AtMostOne == {{}, {j1}}
AtMostTwo == {{}, {j1}, {j1, j2}}
=============================================================================
