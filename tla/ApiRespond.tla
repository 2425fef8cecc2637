----------------------------- MODULE ApiRespond -----------------------------
(***************************************************************************)
(* What the client makes of the answer to a POST, PATCH or DELETE: the     *)
(* verdict or the exception that read_api_respond and                      *)
(* base_request_respond give their caller, as a function of the arguments  *)
(* of the request and of the reply.                                        *)
(***************************************************************************)
EXTENDS Integers

(* Verdicts *)

HttpCodeMapping ==
    [c \in {200, 201, 202, 204} |->
        IF c = 200 THEN "Ok" ELSE IF c = 201 THEN "Created"
        ELSE IF c = 202 THEN "AcceptedTaskGenerated" ELSE "Success"]

\* The verdicts api_success_msg can put into words.
ApiRespondToString == {"Ok", "Error", "Success", "AcceptedTaskGenerated"}

Verdicts == ApiRespondToString \union {"Created"}

Returned(verdict) == [kind |-> "returned", verdict |-> verdict, error |-> "none"]
Raised(exception) == [kind |-> "raised", verdict |-> "none", error |-> exception]
Unanswered == [kind |-> "none", verdict |-> "none", error |-> "none"]

\* body: "error" is JSON with an error member, "json" any other, "none" no JSON.
Bodies == {"error", "json", "none"}
Reply(code, location, body) == [code |-> code, location |-> location, body |-> body]

-----------------------------------------------------------------------------
(* read_api_respond *)

Mapped(code) ==
    IF code \in DOMAIN HttpCodeMapping THEN Returned(HttpCodeMapping[code])
    ELSE Raised("KeyError")

\* The exception of a failed request; the codes left over are returned as Error.
ClientErrors ==
    [c \in {400, 401, 403, 404} |->
        IF c = 400 THEN "RedfishException"
        ELSE IF c = 401 THEN "RedfishUnauthorized" ELSE "RedfishForbidden"]

\* parse_error gives the plain JSON when it has no error member, and the
\* message of a server failure is then looked up in a dict.
Failed(r) ==
    IF r.code \in DOMAIN ClientErrors THEN Raised(ClientErrors[r.code])
    ELSE IF r.code \in 300..499 THEN Returned("Error")
    ELSE IF r.code >= 500 /\ r.body = "json" THEN Raised("AttributeError")
    ELSE Raised("RedfishException")

\* Mutant: every code below 400 is a success.
ReadApiRespondLoosely(c, r) ==
    IF r.location THEN Returned("AcceptedTaskGenerated")
    ELSE IF r.code < 400 THEN Returned("Ok") ELSE Failed(r)

\* Mutant: only the expected code is a success.
ReadApiRespondStrictly(c, r) ==
    IF r.location THEN Returned("AcceptedTaskGenerated")
    ELSE IF r.code = c.expected THEN Mapped(r.code) ELSE Failed(r)

ReadApiRespond(c, r) ==
    IF r.location THEN Returned("AcceptedTaskGenerated")
    ELSE IF r.code \in {c.expected} \union 200..299 THEN Mapped(r.code)
    ELSE IF c.ignored > 0 /\ r.code = c.ignored THEN Mapped(r.code)
    ELSE Failed(r)

-----------------------------------------------------------------------------
(* base_request_respond, after the answer has come in *)

\* The async helpers return (response, verdict) and the caller unpacks
\* (verdict, response), so the verdict is asked for its status_code.
Respond(c, r) ==
    LET read == ReadApiRespond(c, r) IN
    IF read.kind = "raised" THEN read
    ELSE IF c.async THEN Raised("AttributeError")
    ELSE IF read.verdict = "AcceptedTaskGenerated" /\ ~r.location
         THEN Raised("TaskIdUnavailable")
    ELSE IF read.verdict \notin ApiRespondToString THEN Raised("KeyError")
    ELSE read

-----------------------------------------------------------------------------
(* What a caller can tell of an outcome *)

\* An outcome that does not look like a refusal: not the verdict Error, and none
\* of the exceptions that read_api_respond raises for a refused request.
NotDenied(o) ==
    /\ o.verdict # "Error"
    /\ o.error \notin {"RedfishException", "RedfishUnauthorized", "RedfishForbidden"}

\* An answer of success that can be put into words.
Sayable(c, r) == ~c.async /\ (r.location \/ r.code \in {200, 204})
=============================================================================
