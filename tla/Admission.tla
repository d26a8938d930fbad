------------------------------- MODULE Admission -------------------------------
(***************************************************************************)
(* A request at the guards of the host (packages/ts-host/src/auth-guard.ts *)
(* and mcp/challenge-guard.ts): AgentContext.fromRequest                   *)
(* (packages/ts/src/context.ts) takes the bearer token, sends it to the    *)
(* verifier that the settings call for (packages/ts/src/auth/), which asks *)
(* the issuer about an API key and remembers a positive answer, and builds *)
(* the billing client; the guard lets the request through or refuses it.   *)
(*                                                                         *)
(* External: the introspection endpoint, which may revoke a key between    *)
(* any two steps, and jose.  Time goes in ticks: a timer fires in its tick. *)
(***************************************************************************)
EXTENDS Naturals

CONSTANTS
  Requests, Keys,
  Settings,            \* the settings to consider, see TypeOK
  Ttl, Timeout,
  MaxTime              \* a bound: the last tick

(* A lifetime below a millisecond is rounded up by the constructor.        *)
ASSUME ConstantsAssumption ==
  /\ Ttl \in Nat \ {0} /\ Timeout \in Nat /\ MaxTime \in Nat
  /\ Settings \subseteq [required : BOOLEAN, jwt : BOOLEAN, opaque : BOOLEAN, billing : BOOLEAN, memo : BOOLEAN]
  /\ Keys \cap {"none", "jwt", "forged"} = {}

VARIABLES
  config,    (* the settings: channels of the verifier, what else they allow   *)
  known,     (* OpaqueTokenVerifier.cache: the tick its entry of a key ends    *)
  req,       (* req[r]: a request in the guard, and the context it leaves with *)
  now,
  revoked, revokedAt   (* the issuer: the keys it no longer knows, since when  *)

admissionVars == <<config, known, req, now, revoked, revokedAt>>

Tokens == Keys \cup {"none", "jwt", "forged"}
Refused == {"unauthorized", "unavailable"}
Asking == {"jwks", "asked", "answered"}

TypeOK ==
  /\ config \in Settings
  /\ known \in [Keys -> Nat] /\ now \in Nat
  /\ revoked \in SUBSET Keys /\ revokedAt \in [Keys -> Nat]
  /\ req \in [Requests -> [pc : {"new", "passed"} \cup Asking \cup Refused, token : Tokens, sent : Nat,
                           verdict : {"none", "active", "partial", "no", "broken"}, ctx : Tokens \cup {"absent"}]]

Init ==
  /\ config \in Settings
  /\ known = [k \in Keys |-> 0] /\ now = 0
  /\ revoked = {} /\ revokedAt = [k \in Keys |-> 0]
  /\ req = [r \in Requests |-> [pc |-> "new", token |-> "none", sent |-> 0, verdict |-> "none", ctx |-> "absent"]]

--------------------------------------------------------------------------------
(* buildVerifier, CompositeVerifier: which channel takes a token.  A single *)
(* channel takes every token.                                              *)
LooksLikeJwt(t) == t \in {"jwt", "forged"}
HasVerifier == config.jwt \/ config.opaque
ByJwks(t) == config.jwt /\ (LooksLikeJwt(t) \/ ~config.opaque)

(* The verifier is kept from request to request, and with it its cache,    *)
(* unless the settings hold a key set or a function (verifierCacheKey).    *)
Remembered(t) == config.memo /\ t \in Keys /\ known[t] > now

(* Mutant: an error that is not about the token passes the guard.          *)
AuthOnly(e) == config.required /\ e = "unauthorized"

Refuses(e) == config.required

(* The end of fromRequest and of the guard: the guard answers or, when no  *)
(* token is required, goes on without a context.                           *)
Left(r, pc, ctx) == [r EXCEPT !.pc = pc, !.ctx = ctx, !.sent = 0, !.verdict = "none"]
Rejected(r, e) == IF Refuses(e) THEN Left(r, e, "absent") ELSE Left(r, "passed", "absent")

(* createBillingClient refuses its settings: not an error of the token.    *)
Admitted(r, t) == IF config.billing THEN Left(r, "passed", t) ELSE Rejected(r, "unavailable")

Asks(r, pc) == [r EXCEPT !.pc = pc, !.sent = now]

(* fromRequest up to the answer of the verifier.                           *)
Verified(r, t) ==
  CASE t = "none"                             -> IF config.required THEN Rejected(r, "unauthorized") ELSE Admitted(r, "none")
    [] t # "none" /\ ~HasVerifier              -> Rejected(r, "unauthorized")
    [] t # "none" /\ HasVerifier /\ ByJwks(t)  -> Asks(r, "jwks")
    [] t # "none" /\ HasVerifier /\ ~ByJwks(t) -> IF Remembered(t) THEN Admitted(r, t) ELSE Asks(r, "asked")

Arrive(r) ==
  /\ req[r].pc = "new" /\ now + Timeout <= MaxTime
  /\ \E t \in Tokens : req' = [req EXCEPT ![r] = Verified([@ EXCEPT !.token = t], t)]
  /\ UNCHANGED <<config, known, now, revoked, revokedAt>>

(* JwksJwtVerifier, MultiIssuerJwtVerifier: only a genuine token has its   *)
(* claims; the keys of the issuer may be out of reach.                     *)
Jwks(r) ==
  /\ req[r].pc = "jwks"
  /\ \/ req' = [req EXCEPT ![r] = Rejected(@, "unauthorized")]
     \/ req[r].token = "jwt" /\ req' = [req EXCEPT ![r] = Admitted(@, "jwt")]
  /\ UNCHANGED <<config, known, now, revoked, revokedAt>>

(* External: the issuer looks the key up.                                  *)
Introspected(r) ==
  /\ req[r].pc = "asked"
  /\ \E v \in {"no", "broken"} \cup IF req[r].token \in Keys \ revoked THEN {"active", "partial"} ELSE {} :
       req' = [req EXCEPT ![r].pc = "answered", ![r].verdict = v]
  /\ UNCHANGED <<config, known, now, revoked, revokedAt>>

Remember(t) == [known EXCEPT ![t] = now + Ttl]

(* introspect() ends and verify() remembers a positive answer.  A body that *)
(* is not JSON throws what is not an AuthError; claims may be incomplete.  *)
Answered(r) ==
  /\ req[r].pc = "answered"
  /\ \/ /\ req[r].verdict = "active"
        /\ known' = Remember(req[r].token)
        /\ req' = [req EXCEPT ![r] = Admitted(@, req[r].token)]
     \/ /\ req[r].verdict \in {"no", "partial"}
        /\ req' = [req EXCEPT ![r] = Rejected(@, "unauthorized")] /\ UNCHANGED known
     \/ /\ req[r].verdict = "broken"
        /\ req' = [req EXCEPT ![r] = Rejected(@, "unavailable")] /\ UNCHANGED known
  /\ UNCHANGED <<config, now, revoked, revokedAt>>

(* The connection breaks or the time is up: before the headers an AuthError, *)
(* while the body is read an error of another kind.                        *)
Broken(r) ==
  /\ \/ req[r].pc = "asked" /\ req' = [req EXCEPT ![r] = Rejected(@, "unauthorized")]
     \/ req[r].pc = "answered" /\ req' = [req EXCEPT ![r] = Rejected(@, "unavailable")]
  /\ UNCHANGED <<config, known, now, revoked, revokedAt>>

(* Mutant: the request is sent without a signal.                           *)
NoSignal(r) == FALSE

Overdue(r) == now >= req[r].sent + Timeout
InTime(r) == req[r].pc \in {"asked", "answered"} => now < req[r].sent + Timeout

TimesOut(r) == Overdue(r) /\ Broken(r)

Revoke(k) ==
  /\ k \notin revoked
  /\ revoked' = revoked \cup {k} /\ revokedAt' = [revokedAt EXCEPT ![k] = now]
  /\ UNCHANGED <<config, known, req, now>>

Tick ==
  /\ now < MaxTime /\ \A r \in Requests : InTime(r)
  /\ now' = now + 1
  /\ UNCHANGED <<config, known, req, revoked, revokedAt>>

Next == Tick \/ (\E k \in Keys : Revoke(k))
        \/ \E r \in Requests : Arrive(r) \/ Jwks(r) \/ Introspected(r) \/ Answered(r) \/ Broken(r)

Safety == Init /\ [][Next]_admissionVars

(* Time passes while a request waits, timers fire, what has arrived is     *)
(* handled, and jose, which has a timeout of its own, answers.             *)
Fairness == \A r \in Requests :
  /\ WF_admissionVars(Tick /\ req[r].pc \in Asking)
  /\ WF_admissionVars(Jwks(r)) /\ WF_admissionVars(TimesOut(r))

Spec == Safety /\ Fairness

--------------------------------------------------------------------------------
Passes(r) == req[r].pc # "passed" /\ req'[r].pc = "passed"

(* When a token is required, a request goes on only with the identity of its *)
(* own genuine token, whatever failed on the way; and a revoked key passes *)
(* for no longer than its entry in the cache and a late answer together last. *)
AdmittedMeansVerified ==
  [][\A r \in Requests : Passes(r) /\ config.required =>
       LET t == req'[r].token IN
         /\ t \in Keys \cup {"jwt"} /\ req'[r].ctx = t
         /\ t \in revoked => now < revokedAt[t] + Timeout + Ttl]_admissionVars

(* Every request is passed on or answered, though the issuer may be silent. *)
EveryRequestIsAnswered == \A r \in Requests : req[r].pc \in Asking ~> req[r].pc \in {"passed"} \cup Refused
================================================================================
