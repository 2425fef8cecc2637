---------------------------- MODULE MCApiRequest ----------------------------
(* TLC instances of ApiRequest. *)
EXTENDS ApiRequest
=============================================================================
