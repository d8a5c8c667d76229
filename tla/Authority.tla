----------------------------- MODULE Authority ------------------------------
(***************************************************************************)
(* Who may ask for a payment.  The bearer token names a principal; the     *)
(* evidence is a signed assertion whose claims are checked twice, once     *)
(* where the token is decoded (verify_signed_assertion) and once in the    *)
(* normalised context made of it (AuthorizationContext.validate), each     *)
(* time against the clock.                                                 *)
(*                                                                         *)
(* Checks that look at the token alone are one Boolean each: decoded is    *)
(* the JWT library's verdict (signature, issuer, audience, required        *)
(* claims) other than on the expiry, grants stands for protocol version,   *)
(* decision, action and revocation status, quoted for the id, version and  *)
(* issuer that the request repeats, and identified for an evidence_id that *)
(* is not empty: decoding requires the claim, only validate looks at it.   *)
(***************************************************************************)
EXTENDS Integers

\* resolve_bearer and require_agent: the token resolves to a principal, who is
\* the agent and account of the request and may create payments.
Admitted(principal, body) ==
    /\ principal.resolved
    /\ principal.agent = body.agent
    /\ principal.account = body.account
    /\ "payments:create" \in principal.scopes

\* verify_signed_assertion.
Verifies(claims, body, expired) ==
    /\ claims.decoded /\ ~expired
    /\ claims.grants
    /\ claims.agent = body.agent
    /\ claims.account = body.account
    /\ "PAYMENT" \in claims.scope
    /\ claims.max > 0
    /\ claims.currency = body.currency
    /\ body.amount > 0
    /\ body.amount <= claims.max

\* Seeded fault: evidence without an id is taken for evidence.
FaultValidates(claims, body, expired) ==
    /\ "PAYMENT" \in claims.scope
    /\ body.amount > 0
    /\ claims.max > 0
    /\ body.amount <= claims.max
    /\ claims.currency = body.currency
    /\ ~expired

\* AuthorizationContext.validate, of the context verify_signed_assertion makes:
\* its agent and account are the request's own, its issuer the configured one,
\* none of which is empty.
Validates(claims, body, expired) ==
    /\ claims.identified
    /\ "PAYMENT" \in claims.scope
    /\ body.amount > 0
    /\ claims.max > 0
    /\ body.amount <= claims.max
    /\ claims.currency = body.currency
    /\ ~expired
=============================================================================
