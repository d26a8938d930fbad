--------------------------- MODULE HostRequestsProofs ---------------------------
(***************************************************************************)
(* What a request meets in the host, for any requests, keys, settings,     *)
(* skills and durations.                                                   *)
(*                                                                         *)
(* Admission: a required token is one that was verified, and a revoked key *)
(* does not outlive its entry in the cache and a late answer.  Billing: a  *)
(* decision is taken from a state that the account had since the request   *)
(* for it was sent (FetchInv, CacheInv), which bounds its age.  The MCP    *)
(* endpoint and the skills need little: where a request is tells what it   *)
(* holds, and the stored marker names the skill that asked with a state.   *)
(***************************************************************************)
EXTENDS MCHostRequests, Integers, TLAPS

USE ConstantsAssumption

--------------------------------------------------------------------------------
(* The inductive invariant.  A request waits no longer than its timeout; an *)
(* answer that is positive was true when the request had been sent, so an  *)
(* entry of the cache ends at most so long after the key was revoked.      *)
RequestInv(r) ==
  /\ req[r].pc \in {"asked", "answered"} => now <= req[r].sent + Timeout /\ req[r].sent <= now
  /\ req[r].pc = "answered" /\ req[r].verdict = "active" =>
       req[r].token \in Keys /\ (req[r].token \in revoked => req[r].sent <= revokedAt[req[r].token])
  /\ req[r].pc = "jwks" => req[r].token # "none"

KeyInv(k) == k \in revoked => known[k] <= revokedAt[k] + Timeout + Ttl

IInv == TypeOK /\ (\A r \in Requests : RequestInv(r)) /\ (\A k \in Keys : KeyInv(k)) /\ (\A k \in Keys : known[k] <= now + Ttl)

Request == [pc : {"new", "passed"} \cup Asking \cup Refused, token : Tokens, sent : Nat,
            verdict : {"none", "active", "partial", "no", "broken"}, ctx : Tokens \cup {"absent"}]

LEMMA InitInv == Init => IInv
  BY DEF Init, IInv, TypeOK, RequestInv, KeyInv, Tokens, Asking, Refused

(* What a request looks like when it leaves the guard.                     *)
LEMMA LeftFact ==
  ASSUME NEW q \in Request, NEW t \in Tokens, NEW e \in Refused
  PROVE  /\ Rejected(q, e) \in Request /\ Admitted(q, t) \in Request
         /\ Rejected(q, e).pc \in {"passed"} \cup Refused /\ Admitted(q, t).pc \in {"passed"} \cup Refused
         /\ Rejected(q, e).token = q.token /\ Admitted(q, t).token = q.token
         /\ config.required => Rejected(q, e).pc # "passed" /\ (Admitted(q, t).pc = "passed" => Admitted(q, t).ctx = t)
<1>1. \A pc \in {"passed"} \cup Refused, ctx \in Tokens \cup {"absent"} :
        Left(q, pc, ctx) \in Request /\ Left(q, pc, ctx).pc = pc /\ Left(q, pc, ctx).token = q.token
        /\ Left(q, pc, ctx).ctx = ctx
  BY DEF Left, Request
<1>2. "unavailable" \in Refused
  BY DEF Refused
<1>3. "passed" \notin Refused
  BY DEF Refused
<1>4. ASSUME NEW e2 \in Refused
      PROVE  /\ Rejected(q, e2) \in Request /\ Rejected(q, e2).pc \in {"passed"} \cup Refused
             /\ Rejected(q, e2).token = q.token /\ (config.required => Rejected(q, e2).pc # "passed")
  <2> DEFINE refused == Left(q, e2, "absent")
             passed  == Left(q, "passed", "absent")
  <2>1. refused \in Request /\ refused.pc = e2 /\ refused.token = q.token
    BY <1>1
  <2>2. passed \in Request /\ passed.pc = "passed" /\ passed.token = q.token
    BY <1>1
  <2>3. Rejected(q, e2) = IF config.required THEN refused ELSE passed
    BY DEF Rejected, Refuses
  <2>4. e2 # "passed"
    BY <1>3
  <2> HIDE DEF refused, passed
  <2> QED  BY <2>1, <2>2, <2>3, <2>4
<1>5. Admitted(q, t) \in Request /\ Admitted(q, t).pc \in {"passed"} \cup Refused /\ Admitted(q, t).token = q.token
  BY <1>1, <1>2, <1>4 DEF Admitted
<1>6. config.required /\ Admitted(q, t).pc = "passed" => Admitted(q, t).ctx = t
  BY <1>1, <1>2, <1>4 DEF Admitted
<1> QED  BY <1>4, <1>5, <1>6

LEMMA AsksFact ==
  ASSUME TypeOK, NEW q \in Request, NEW pc \in Asking
  PROVE  /\ Asks(q, pc) \in Request /\ Asks(q, pc).pc = pc /\ Asks(q, pc).token = q.token
         /\ Asks(q, pc).sent = now /\ Asks(q, pc).verdict = q.verdict
  BY DEF Asks, Request, TypeOK

(* One request goes on, the cache and the issuer stay.                     *)
LEMMA RequestStep ==
  ASSUME IInv, NEW r \in Requests, NEW q \in Request, req' = [req EXCEPT ![r] = q],
         UNCHANGED <<config, known, now, revoked, revokedAt>>,
         RequestInv(r)'
  PROVE  IInv'
<1>1. req' \in [Requests -> Request]
  BY DEF IInv, TypeOK, Request
<1>2. TypeOK'
  BY <1>1 DEF IInv, TypeOK, Request
<1>3. ASSUME NEW x \in Requests  PROVE RequestInv(x)'
  <2>1. CASE x = r
    BY <2>1
  <2>2. CASE x # r
    <3>1. req'[x] = req[x]
      BY <2>2 DEF IInv, TypeOK
    <3> QED  BY <3>1 DEF IInv, RequestInv
  <2> QED  BY <2>1, <2>2
<1> QED  BY <1>2, <1>3 DEF IInv, KeyInv

--------------------------------------------------------------------------------
LEMMA ArriveInv ==
  ASSUME IInv, NEW r \in Requests, Arrive(r)
  PROVE  IInv'
<1>1. PICK t \in Tokens : req' = [req EXCEPT ![r] = Verified([@ EXCEPT !.token = t], t)]
  BY DEF Arrive
<1> DEFINE q == [req[r] EXCEPT !.token = t]
<1>2. UNCHANGED <<config, known, now, revoked, revokedAt>>
  BY DEF Arrive
<1>3. q \in Request /\ q.token = t /\ req \in [Requests -> Request]
  BY DEF IInv, TypeOK, Request
<1> HIDE DEF q
<1>4. "unauthorized" \in Refused /\ "jwks" \in Asking /\ "asked" \in Asking /\ "none" \in Tokens
  BY DEF Refused, Asking, Tokens
<1>5. /\ Verified(q, t) \in Request /\ Verified(q, t).token = t
      /\ Verified(q, t).pc \in {"passed", "jwks", "asked"} \cup Refused
      /\ Verified(q, t).pc \in {"jwks", "asked"} => Verified(q, t).sent = now /\ t # "none"
  <2>1. CASE t = "none"
    BY <1>3, <1>4, <2>1, LeftFact DEF Verified, Refused
  <2>2. CASE t # "none" /\ ~HasVerifier
    BY <1>3, <1>4, <2>2, LeftFact DEF Verified, Refused
  <2>3. CASE t # "none" /\ HasVerifier /\ ByJwks(t)
    BY <1>3, <1>4, <2>3, AsksFact DEF Verified, IInv
  <2>4. CASE t # "none" /\ HasVerifier /\ ~ByJwks(t)
    <3>1. CASE Remembered(t)
      <4>1. Verified(q, t) = Admitted(q, t)
        BY <2>4, <3>1 DEF Verified
      <4> QED  BY <1>3, <1>4, <4>1, LeftFact DEF Refused
    <3>2. CASE ~Remembered(t)
      <4>1. Verified(q, t) = Asks(q, "asked")
        BY <2>4, <3>2 DEF Verified
      <4> QED  BY <1>3, <1>4, <2>4, <4>1, AsksFact DEF IInv
    <3> QED  BY <3>1, <3>2
  <2> QED  BY <2>1, <2>2, <2>3, <2>4
<1>6. req' = [req EXCEPT ![r] = Verified(q, t)] /\ req'[r] = Verified(q, t)
  BY <1>1, <1>3 DEF q
<1>7. RequestInv(r)'
  BY <1>2, <1>5, <1>6 DEF RequestInv, IInv, TypeOK, Refused
<1> QED  BY <1>2, <1>5, <1>6, <1>7, RequestStep

(* The request leaves the guard.                                           *)
LEMMA LeavesInv ==
  ASSUME IInv, NEW r \in Requests, NEW q \in Request, req' = [req EXCEPT ![r] = q],
         q.pc \in {"passed"} \cup Refused, UNCHANGED <<config, known, now, revoked, revokedAt>>
  PROVE  IInv'
<1>1. req'[r] = q
  BY DEF IInv, TypeOK
<1>2. RequestInv(r)'
  BY <1>1 DEF RequestInv, Refused
<1> QED  BY <1>2, RequestStep

LEMMA JwksInv ==
  ASSUME IInv, NEW r \in Requests, Jwks(r)
  PROVE  IInv'
<1>1. req[r] \in Request /\ "unauthorized" \in Refused /\ "jwt" \in Tokens
  BY DEF IInv, TypeOK, Request, Refused, Tokens
<1>2. req' = [req EXCEPT ![r] = Rejected(req[r], "unauthorized")] \/ req' = [req EXCEPT ![r] = Admitted(req[r], "jwt")]
  BY DEF Jwks
<1>3. UNCHANGED <<config, known, now, revoked, revokedAt>>
  BY DEF Jwks
<1> QED  BY <1>1, <1>2, <1>3, LeftFact, LeavesInv

LEMMA BrokenInv ==
  ASSUME IInv, NEW r \in Requests, Broken(r)
  PROVE  IInv'
<1>1. req[r] \in Request /\ "unauthorized" \in Refused /\ "unavailable" \in Refused
  BY DEF IInv, TypeOK, Request, Refused
<1>2. PICK e \in Refused : req' = [req EXCEPT ![r] = Rejected(req[r], e)]
  BY <1>1 DEF Broken
<1>3. UNCHANGED <<config, known, now, revoked, revokedAt>>
  BY DEF Broken
<1>4. "jwt" \in Tokens
  BY DEF Tokens
<1> QED  BY <1>1, <1>2, <1>3, <1>4, LeftFact, LeavesInv

(* A positive answer is true at this moment.                               *)
LEMMA IntrospectedInv ==
  ASSUME IInv, NEW r \in Requests, Introspected(r)
  PROVE  IInv'
<1>1. PICK v \in {"no", "broken"} \cup IF req[r].token \in Keys \ revoked THEN {"active", "partial"} ELSE {} :
        req' = [req EXCEPT ![r].pc = "answered", ![r].verdict = v]
  BY DEF Introspected
<1> DEFINE q == [req[r] EXCEPT !.pc = "answered", !.verdict = v]
<1>2. req[r] \in Request /\ req \in [Requests -> Request]
  BY DEF IInv, TypeOK, Request
<1>3. v \in {"no", "broken", "active", "partial"} /\ (v = "active" => req[r].token \in Keys \ revoked)
  BY <1>1
<1>4. q \in Request /\ q.token = req[r].token /\ q.sent = req[r].sent /\ q.pc = "answered" /\ q.verdict = v
  BY <1>2, <1>3 DEF Request, Asking
<1>5. req' = [req EXCEPT ![r] = q]
  BY <1>1, <1>2 DEF Request
<1> HIDE DEF q
<1>6. req'[r] = q
  BY <1>2, <1>5
<1>7. UNCHANGED <<config, known, now, revoked, revokedAt>> /\ req[r].pc = "asked"
  BY DEF Introspected
<1>8. now <= req[r].sent + Timeout /\ req[r].sent <= now
  BY <1>7 DEF IInv, RequestInv
<1>9. RequestInv(r)'
  BY <1>3, <1>4, <1>6, <1>7, <1>8 DEF RequestInv
<1> QED  BY <1>4, <1>5, <1>7, <1>9, RequestStep

(* The cache remembers what the issuer said.                               *)
LEMMA AnsweredInv ==
  ASSUME IInv, NEW r \in Requests, Answered(r)
  PROVE  IInv'
<1>1. req[r] \in Request /\ req \in [Requests -> Request] /\ "unauthorized" \in Refused /\ "unavailable" \in Refused
      /\ "jwt" \in Tokens
  BY DEF IInv, TypeOK, Request, Refused, Tokens
<1>2. CASE req[r].verdict # "active"
  <2>1. PICK e \in Refused : req' = [req EXCEPT ![r] = Rejected(req[r], e)] /\ UNCHANGED known
    BY <1>1, <1>2 DEF Answered
  <2>2. UNCHANGED <<config, known, now, revoked, revokedAt>>
    BY <2>1 DEF Answered
  <2> QED  BY <1>1, <2>1, <2>2, LeftFact, LeavesInv
<1>3. CASE req[r].verdict = "active"
  <2> DEFINE t == req[r].token
             q == Admitted(req[r], t)
  <2>1. t \in Keys /\ t \in Tokens /\ now <= req[r].sent + Timeout
        /\ (t \in revoked => req[r].sent <= revokedAt[t])
    BY <1>3 DEF Answered, IInv, RequestInv, Tokens
  <2>2. q \in Request /\ q.pc \in {"passed"} \cup Refused
    BY <1>1, <2>1, LeftFact
  <2>3. known' = [known EXCEPT ![t] = now + Ttl] /\ req' = [req EXCEPT ![r] = q]
        /\ UNCHANGED <<config, now, revoked, revokedAt>>
    BY <1>3 DEF Answered, Remember
  <2> HIDE DEF q, t
  <2>4. known' \in [Keys -> Nat] /\ \A k \in Keys : known'[k] = IF k = t THEN now + Ttl ELSE known[k]
    BY <2>1, <2>3 DEF IInv, TypeOK
  <2>5. req' \in [Requests -> Request] /\ \A x \in Requests : req'[x] = IF x = r THEN q ELSE req[x]
    BY <1>1, <2>2, <2>3
  <2>6. TypeOK'
    BY <2>3, <2>4, <2>5 DEF IInv, TypeOK, Request
  <2>7. \A x \in Requests : RequestInv(x)'
    BY <2>2, <2>3, <2>5 DEF IInv, RequestInv, Refused
  <2>8. ASSUME NEW k \in Keys, k \in revoked  PROVE known'[k] <= revokedAt[k] + Timeout + Ttl
    <3>1. CASE k = t
      <4>1. req[r].sent \in Nat /\ revokedAt[k] \in Nat /\ now \in Nat
        BY <1>1 DEF IInv, TypeOK, Request
      <4>2. now <= revokedAt[k] + Timeout
        BY <2>1, <2>8, <3>1, <4>1
      <4> QED  BY <2>4, <3>1, <4>1, <4>2
    <3>2. CASE k # t
      BY <2>4, <2>8, <3>2 DEF IInv, KeyInv
    <3> QED  BY <3>1, <3>2
  <2>9. \A k \in Keys : known'[k] <= now' + Ttl
    BY <2>3, <2>4 DEF IInv, TypeOK
  <2> QED  BY <2>3, <2>6, <2>7, <2>8, <2>9 DEF IInv, KeyInv
<1> QED  BY <1>2, <1>3

--------------------------------------------------------------------------------
LEMMA RevokeInv ==
  ASSUME IInv, NEW k \in Keys, Revoke(k)
  PROVE  IInv'
<1>1. revoked' = revoked \cup {k} /\ revokedAt' = [revokedAt EXCEPT ![k] = now] /\ k \notin revoked
      /\ UNCHANGED <<config, known, req, now>>
  BY DEF Revoke
<1>2. revokedAt' \in [Keys -> Nat] /\ \A j \in Keys : revokedAt'[j] = IF j = k THEN now ELSE revokedAt[j]
  BY <1>1 DEF IInv, TypeOK
<1>3. TypeOK'
  BY <1>1, <1>2 DEF IInv, TypeOK
<1>4. ASSUME NEW j \in Keys  PROVE KeyInv(j)'
  <2>1. known[j] <= now + Ttl /\ now \in Nat /\ known[j] \in Nat
    BY DEF IInv, TypeOK
  <2>2. CASE j = k
    BY <1>1, <1>2, <2>1, <2>2 DEF KeyInv
  <2>3. CASE j # k
    BY <1>1, <1>2, <2>3 DEF IInv, KeyInv
  <2> QED  BY <2>2, <2>3
<1>5. ASSUME NEW r \in Requests  PROVE RequestInv(r)'
  <2>1. req[r] \in Request /\ now \in Nat
    BY DEF IInv, TypeOK, Request
  <2> QED  BY <1>1, <1>2, <2>1 DEF IInv, RequestInv
<1> QED  BY <1>1, <1>3, <1>4, <1>5 DEF IInv

LEMMA TickInv ==
  ASSUME IInv, Tick
  PROVE  IInv'
<1>1. now' = now + 1 /\ now \in Nat /\ UNCHANGED <<config, known, req, revoked, revokedAt>>
  BY DEF Tick, IInv, TypeOK
<1>2. ASSUME NEW r \in Requests  PROVE RequestInv(r)'
  <2>1. req[r].sent \in Nat
    BY DEF IInv, TypeOK
  <2>2. req[r].pc \in {"asked", "answered"} => now + 1 <= req[r].sent + Timeout
    BY <1>1, <2>1 DEF Tick, InTime
  <2> QED  BY <1>1, <2>1, <2>2 DEF IInv, RequestInv
<1>3. TypeOK' /\ \A k \in Keys : KeyInv(k)'
  BY <1>1 DEF IInv, TypeOK, KeyInv
<1>4. \A k \in Keys : known'[k] <= now' + Ttl
  BY <1>1 DEF IInv, TypeOK
<1> QED  BY <1>2, <1>3, <1>4 DEF IInv

LEMMA NextInv == IInv /\ [Next]_admissionVars => IInv'
<1> SUFFICES ASSUME IInv, [Next]_admissionVars  PROVE IInv'
  OBVIOUS
<1>1. CASE Next
  BY <1>1, TickInv, RevokeInv, ArriveInv, JwksInv, IntrospectedInv, AnsweredInv, BrokenInv DEF Next
<1>2. CASE UNCHANGED admissionVars
  BY <1>2 DEF admissionVars, IInv, TypeOK, RequestInv, KeyInv
<1> QED  BY <1>1, <1>2

LEMMA Invariance == Spec => []IInv
<1> QED  BY InitInv, NextInv, PTL DEF Spec, Safety

(* Every reachable state of the guards is of its types.                    *)
THEOREM TypeCorrect == Spec => []TypeOK
<1>1. IInv => TypeOK
  BY DEF IInv
<1> QED  BY <1>1, Invariance, PTL

--------------------------------------------------------------------------------
(* A request that passes while a token is required.                        *)

Genuine(r) == LET t == req'[r].token IN
  /\ t \in Keys \cup {"jwt"} /\ req'[r].ctx = t
  /\ t \in revoked => now < revokedAt[t] + Timeout + Ttl

(* A key whose positive answer is at hand, or is remembered.               *)
LEMMA LateKey ==
  ASSUME IInv, NEW r \in Requests, NEW t \in Keys, t \in revoked,
         \/ t = req[r].token /\ req[r].pc = "answered" /\ req[r].verdict = "active"
         \/ known[t] > now
  PROVE  now < revokedAt[t] + Timeout + Ttl
<1>1. now \in Nat /\ revokedAt[t] \in Nat /\ known[t] \in Nat /\ req[r].sent \in Nat
  BY DEF IInv, TypeOK
<1>2. CASE t = req[r].token /\ req[r].pc = "answered" /\ req[r].verdict = "active"
  BY <1>1, <1>2 DEF IInv, RequestInv
<1>3. CASE known[t] > now
  BY <1>1, <1>3 DEF IInv, KeyInv
<1> QED  BY <1>2, <1>3

LEMMA ArriveGenuine ==
  ASSUME IInv, config.required, NEW r \in Requests, Arrive(r), Passes(r)
  PROVE  Genuine(r)
<1>1. PICK t \in Tokens : req' = [req EXCEPT ![r] = Verified([@ EXCEPT !.token = t], t)]
  BY DEF Arrive
<1> DEFINE q == [req[r] EXCEPT !.token = t]
<1>2. q \in Request /\ q.token = t /\ req \in [Requests -> Request]
  BY DEF IInv, TypeOK, Request
<1> HIDE DEF q
<1>3. req'[r] = Verified(q, t) /\ Verified(q, t).pc = "passed"
  BY <1>1, <1>2 DEF q, Passes
<1>4. "unauthorized" \in Refused /\ "jwks" \in Asking /\ "asked" \in Asking
  BY DEF Refused, Asking
<1>5. t # "none" /\ HasVerifier /\ ~ByJwks(t) /\ Remembered(t)
  BY <1>2, <1>3, <1>4, LeftFact, AsksFact DEF Verified, IInv
<1>6. Verified(q, t) = Admitted(q, t) /\ t \in Keys /\ known[t] > now
  BY <1>5 DEF Verified, Remembered
<1>7. req'[r].token = t /\ req'[r].ctx = t
  BY <1>2, <1>3, <1>4, <1>6, LeftFact
<1>8. t \in revoked => now < revokedAt[t] + Timeout + Ttl
  BY <1>6, LateKey
<1> QED  BY <1>6, <1>7, <1>8 DEF Genuine

LEMMA OthersGenuine ==
  ASSUME IInv, config.required, NEW r \in Requests, Jwks(r) \/ Introspected(r) \/ Answered(r) \/ Broken(r), Passes(r)
  PROVE  Genuine(r)
<1>1. req[r] \in Request /\ req \in [Requests -> Request] /\ "unauthorized" \in Refused /\ "unavailable" \in Refused
      /\ "jwt" \in Tokens
  BY DEF IInv, TypeOK, Request, Refused, Tokens
<1>2. \A e \in Refused : req' # [req EXCEPT ![r] = Rejected(req[r], e)]
  BY <1>1, LeftFact DEF Passes
<1>3. ~Broken(r)
  BY <1>1, <1>2 DEF Broken
<1>4. ~Introspected(r)
  BY <1>1 DEF Introspected, Passes, Request
<1>5. CASE Jwks(r)
  <2>1. req[r].token = "jwt" /\ req'[r] = Admitted(req[r], "jwt")
    BY <1>1, <1>2, <1>5 DEF Jwks
  <2>2. Admitted(req[r], "jwt").token = "jwt" /\ Admitted(req[r], "jwt").ctx = "jwt"
    BY <1>1, <2>1, LeftFact DEF Passes
  <2>3. "jwt" \notin revoked
    BY DEF IInv, TypeOK
  <2> QED  BY <2>1, <2>2, <2>3 DEF Genuine
<1>6. CASE Answered(r)
  <2> DEFINE t == req[r].token
  <2>1. req[r].pc = "answered" /\ req[r].verdict = "active" /\ req'[r] = Admitted(req[r], t)
    BY <1>1, <1>2, <1>6 DEF Answered
  <2>2. t \in Keys /\ t \in Tokens
    BY <2>1 DEF IInv, RequestInv, Tokens
  <2>3. req'[r].token = t /\ req'[r].ctx = t
    BY <1>1, <2>1, <2>2, LeftFact DEF Passes
  <2>4. t \in revoked => now < revokedAt[t] + Timeout + Ttl
    BY <2>1, <2>2, LateKey
  <2> QED  BY <2>2, <2>3, <2>4 DEF Genuine
<1> QED  BY <1>3, <1>4, <1>5, <1>6

LEMMA StepGenuine == IInv /\ [Next]_admissionVars => [\A r \in Requests : Passes(r) /\ config.required => Genuine(r)]_admissionVars
<1> SUFFICES ASSUME IInv, Next, NEW r \in Requests, Passes(r), config.required  PROVE Genuine(r)
  OBVIOUS
<1>1. CASE Tick \/ \E k \in Keys : Revoke(k)
  BY <1>1 DEF Tick, Revoke, Passes
<1>2. ASSUME NEW x \in Requests, Arrive(x) \/ Jwks(x) \/ Introspected(x) \/ Answered(x) \/ Broken(x)
      PROVE  Genuine(r)
  <2>1. CASE x = r
    BY <1>2, <2>1, ArriveGenuine, OthersGenuine
  <2>2. CASE x # r
    <3>1. req'[r] = req[r]
      BY <1>2, <2>2 DEF Arrive, Jwks, Introspected, Answered, Broken, IInv, TypeOK
    <3> QED  BY <3>1 DEF Passes
  <2> QED  BY <2>1, <2>2
<1> QED  BY <1>1, <1>2 DEF Next

(* When a token is required, whatever passes bears the identity of its own *)
(* genuine token, and a revoked key passes no longer than a late answer and *)
(* the lifetime of its entry in the cache together last.                   *)
THEOREM AdmissionSafe == Spec => AdmittedMeansVerified
<1>1. Spec => [][\A r \in Requests : Passes(r) /\ config.required => Genuine(r)]_admissionVars
  BY StepGenuine, Invariance, PTL DEF Spec, Safety
<1>2. [\A r \in Requests : Passes(r) /\ config.required => Genuine(r)]_admissionVars =>
        [\A r \in Requests : Passes(r) /\ config.required =>
           LET t == req'[r].token IN
             /\ t \in Keys \cup {"jwt"} /\ req'[r].ctx = t
             /\ t \in revoked => now < revokedAt[t] + Timeout + Ttl]_admissionVars
  BY DEF Genuine
<1> QED  BY <1>1, <1>2, PTL DEF AdmittedMeansVerified

--------------------------------------------------------------------------------
(* The billing client.                                                     *)
States == Account!Accounts
Pcs == {"new", "report", "asserts", "reports", "sending", "reported", "failed", "allowed", "none"} \cup Account!Reasons
Entry == [state : States \cup {Account!Nothing}, until : Nat]
Fetch == [since : Nat, state : States \cup {Account!Nothing}, pc : {"none", "asked", "answered"}]
Bill == [pc : Pcs, needs : Account!Requirements]

AccountTyped ==
  /\ account \in States /\ left \in [States -> Nat] /\ time \in 0 .. Horizon
  /\ cache \in Entry /\ fetch \in Fetch /\ bill \in [BillingCalls -> Bill]

(* The account was in state s at tick t, or later.                         *)
WasIn(s, t) == s = account \/ (left[s] # Account!Never /\ t <= left[s])

FetchInv ==
  fetch.pc # "none" =>
    /\ fetch.since <= time /\ time <= fetch.since + RequestTimeout /\ cache.until <= time
    /\ fetch.pc = "answered" => fetch.state \in States /\ WasIn(fetch.state, fetch.since)

CacheInv ==
  cache.until > time =>
    /\ cache.state \in States /\ cache.until <= time + CacheTtl
    /\ WasIn(cache.state, cache.until - CacheTtl - RequestTimeout)

AccountInv == AccountTyped /\ FetchInv /\ CacheInv

LEMMA NothingFacts == Account!Nothing \in States \cup {Account!Nothing} /\ Account!Healthy \in States
BY DEF States, Account!Accounts, Account!Healthy

LEMMA AccountInit == Account!Init => AccountInv
<1> SUFFICES ASSUME Account!Init  PROVE AccountInv
  OBVIOUS
<1>1. account \in States /\ left \in [States -> Nat] /\ time \in 0 .. Horizon
  BY BillingAssumption DEF Account!Init, States, Account!Never
<1>2. cache \in Entry /\ cache.until = 0 /\ fetch \in Fetch /\ fetch.pc = "none"
  BY DEF Account!Init, Account!NoEntry, Entry, Fetch
<1>3. bill \in [BillingCalls -> Bill]
  BY DEF Account!Init, Bill, Pcs, Account!Requirements
<1> QED  BY <1>1, <1>2, <1>3 DEF AccountInv, AccountTyped, FetchInv, CacheInv

(* How a call ends that has a state of the account.                        *)
LEMMA EndedFacts ==
  ASSUME NEW b \in Bill, NEW s \in States
  PROVE  /\ Account!Ended(b, s) \in Bill
         /\ b.pc \in {"report", "reports"} => Account!Ended(b, s).pc = "sending"
         /\ b.pc \notin {"report", "reports"} =>
              LET blamed == {reason \in Account!Reasons : Account!Blames(reason, s, b.needs)} IN
              IF Account!Ended(b, s).pc = "allowed" THEN blamed = {} ELSE Account!Ended(b, s).pc \in blamed
<1> DEFINE n == b.needs
           blamed == {reason \in Account!Reasons : Account!Blames(reason, s, n)}
           pc == IF Account!Allowed(s, n) THEN "allowed" ELSE Account!ExplainDenial(s, n)
<1>1. n \in Account!Requirements /\ b.pc \in Pcs
  BY DEF Bill
<1>2. /\ s.status \in {"active", "payment_failed", "no_resources", "inactive"}
      /\ s.tokens \in {0, 1} /\ s.feature \in {"missing", "withheld", "granted"}
  BY DEF States, Account!Accounts
<1>3. n = {} \/ n = {"feature"} \/ n = {"privilege"} \/ n = {"feature", "privilege"}
  BY <1>1 DEF Account!Requirements
<1>4. Account!HasRequiredAccess(s, n) <=>
        ("feature" \in n => s.feature # "missing") /\ ("privilege" \in n => s.feature = "granted")
  <2>1. CASE n = {}
    BY <2>1 DEF Account!HasRequiredAccess
  <2>2. CASE n = {"feature"}
    <3>1. n # {} /\ "feature" \in n /\ "privilege" \notin n
      BY <2>2
    <3> QED  BY <2>2, <3>1 DEF Account!HasRequiredAccess
  <2>3. CASE "privilege" \in n
    <3>1. n # {} /\ n # {"feature"}
      BY <2>3
    <3>2. Account!HasRequiredAccess(s, n) <=> s.feature = "granted"
      BY <2>3, <3>1 DEF Account!HasRequiredAccess
    <3> QED  BY <2>3, <3>2
  <2> QED  BY <1>3, <2>1, <2>2, <2>3
<1>5. /\ Account!Blames("PAYMENT_FAILED", s, n) <=> s.status = "payment_failed"
      /\ Account!Blames("NO_TOKENS", s, n) <=> s.tokens = 0 \/ s.status = "no_resources"
      /\ Account!Blames("ENTITLEMENT_INACTIVE", s, n) <=> s.status # "active"
      /\ Account!Blames("MISSING_FEATURE", s, n) <=> "feature" \in n /\ s.feature = "missing"
      /\ Account!Blames("MISSING_PRIVILEGE", s, n) <=> "privilege" \in n /\ s.feature # "granted"
  BY DEF Account!Blames
<1>6. ASSUME Account!Allowed(s, n)  PROVE pc = "allowed" /\ blamed = {}
  <2>1. pc = "allowed" /\ s.status = "active" /\ s.tokens = 1 /\ Account!HasRequiredAccess(s, n)
    BY <1>2, <1>6 DEF Account!Allowed
  <2>2. blamed = {}
    BY <1>4, <1>5, <2>1 DEF Account!Reasons
  <2> QED  BY <2>1, <2>2
<1>7. ASSUME ~Account!Allowed(s, n)  PROVE pc \in Account!Reasons /\ Account!Blames(pc, s, n)
  <2>1. pc = Account!ExplainDenial(s, n)
    BY <1>7
  <2>2. s.status # "active" \/ s.tokens = 0 \/ ~Account!HasRequiredAccess(s, n)
    BY <1>2, <1>7 DEF Account!Allowed
  <2>3. pc \in Account!Reasons /\ Account!Blames(pc, s, n)
    <3>1. CASE s.status = "payment_failed"
      BY <1>5, <2>1, <3>1 DEF Account!ExplainDenial, Account!Reasons
    <3>2. CASE s.status # "payment_failed" /\ (s.status = "no_resources" \/ s.tokens = 0)
      BY <1>2, <1>5, <2>1, <3>2 DEF Account!ExplainDenial, Account!Reasons
    <3>3. CASE s.status = "inactive" /\ s.tokens = 1
      BY <1>5, <2>1, <3>3 DEF Account!ExplainDenial, Account!Reasons
    <3>4. CASE s.status = "active" /\ s.tokens = 1
      BY <1>2, <1>4, <1>5, <2>1, <2>2, <3>4 DEF Account!ExplainDenial, Account!Reasons
    <3> QED  BY <1>2, <3>1, <3>2, <3>3, <3>4
  <2> QED  BY <2>3
<1>8. IF pc = "allowed" THEN blamed = {} ELSE pc \in blamed
  BY <1>6, <1>7 DEF Account!Reasons
<1>9. pc \in Pcs
  BY <1>6, <1>7 DEF Pcs
<1>10. CASE b.pc \in {"report", "reports"}
  BY <1>10 DEF Account!Ended, Bill, Pcs
<1>11. CASE b.pc \notin {"report", "reports"}
  <2>1. Account!Ended(b, s) = [pc |-> pc, needs |-> {}]
    BY <1>11 DEF Account!Ended
  <2>2. {} \in Account!Requirements
    BY DEF Account!Requirements
  <2> HIDE DEF pc
  <2> QED  BY <1>8, <1>9, <1>11, <2>1, <2>2 DEF Bill
<1> QED  BY <1>10, <1>11

(* A call finds the entry, or waits for a request.                         *)
LEMMA LookupFacts ==
  ASSUME AccountInv, NEW c \in BillingCalls, NEW b \in Bill, b.pc \in {"new", "report"},
         Account!Lookup(c, b), UNCHANGED <<account, cache, time, left>>
  PROVE  /\ AccountInv'
         /\ \A d \in BillingCalls \ {c} : bill'[d] = bill[d]
         /\ cache.until > time => cache.state \in States /\ bill'[c] = Account!Ended(b, cache.state)
         /\ ~(cache.until > time) => bill'[c].pc = IF b.pc = "report" THEN "reports" ELSE "asserts"
<1>1. AccountTyped /\ FetchInv /\ CacheInv
  BY DEF AccountInv
<1>2. CASE cache.until > time
  <2>1. cache.state \in States
    BY <1>1, <1>2 DEF CacheInv
  <2>2. bill' = [bill EXCEPT ![c] = Account!Ended(b, cache.state)] /\ UNCHANGED fetch
    BY <1>2 DEF Account!Lookup
  <2>bill. Account!Ended(b, cache.state) \in Bill
    BY <2>1, EndedFacts
  <2>typed. AccountTyped'
    BY <1>1, <2>2, <2>bill DEF AccountTyped
  <2>cache. FetchInv' /\ CacheInv'
    BY <1>1, <2>2 DEF FetchInv, CacheInv, WasIn, Account!Never
  <2> QED  BY <1>1, <1>2, <2>1, <2>2, <2>bill, <2>typed, <2>cache DEF AccountInv, AccountTyped
<1>3. CASE ~(cache.until > time)
  <2> DEFINE w == [b EXCEPT !.pc = IF b.pc = "report" THEN "reports" ELSE "asserts"]
             f == IF fetch.pc = "none" THEN [since |-> time, state |-> Account!Nothing, pc |-> "asked"] ELSE fetch
  <2>1. bill' = [bill EXCEPT ![c] = w] /\ fetch' = f
    BY <1>3 DEF Account!Lookup
  <2>2. w \in Bill /\ w.pc = (IF b.pc = "report" THEN "reports" ELSE "asserts")
    BY DEF Bill, Pcs
  <2>3. f \in Fetch /\ (f = fetch \/ (f.pc = "asked" /\ f.since = time))
    BY <1>1 DEF AccountTyped, Fetch
  <2> HIDE DEF w, f
  <2>4. AccountTyped'
    BY <1>1, <2>1, <2>2, <2>3 DEF AccountTyped
  <2>5. FetchInv'
    BY <1>1, <1>3, <2>1, <2>3, BillingAssumption DEF AccountTyped, FetchInv, WasIn, Account!Never, Entry
  <2>6. CacheInv'
    BY <1>1 DEF CacheInv, WasIn, Account!Never
  <2> QED  BY <1>1, <1>3, <2>1, <2>2, <2>4, <2>5, <2>6 DEF AccountInv, AccountTyped
<1> QED  BY <1>2, <1>3

LEMMA AssertFacts ==
  ASSUME AccountInv, NEW c \in BillingCalls, Account!Assert(c)
  PROVE  /\ AccountInv'
         /\ \A d \in BillingCalls \ {c} : bill'[d] = bill[d]
         /\ bill[c].pc = "new"
         /\ bill'[c].pc # "asserts" =>
              /\ cache.until > time /\ cache.state \in States
              /\ \E b \in Bill : b.pc = "new" /\ bill'[c] = Account!Ended(b, cache.state)
<1>1. bill[c] \in Bill /\ bill[c].pc = "new" /\ UNCHANGED <<account, cache, time, left>>
  BY DEF AccountInv, AccountTyped, Account!Assert
<1>2. PICK r \in Account!Requirements : Account!Lookup(c, [bill[c] EXCEPT !.needs = r])
  BY DEF Account!Assert
<1> DEFINE b == [bill[c] EXCEPT !.needs = r]
<1>3. b \in Bill /\ b.pc = "new"
  BY <1>1 DEF Bill
<1>4. Account!Lookup(c, b)
  BY <1>2
<1> HIDE DEF b
<1> QED  BY <1>1, <1>3, <1>4, LookupFacts

LEMMA ReportFacts ==
  ASSUME AccountInv, NEW c \in BillingCalls, Account!Report(c)
  PROVE  /\ AccountInv'
         /\ \A d \in BillingCalls \ {c} : bill'[d] = bill[d]
         /\ bill'[c].pc \in {"sending", "reports"}
<1>1. bill[c] \in Bill /\ bill[c].pc = "new" /\ UNCHANGED <<account, cache, time, left>> /\ AccountTyped
  BY DEF AccountInv, AccountTyped, Account!Report
<1>2. CASE bill' = [bill EXCEPT ![c].pc = "sending"] /\ UNCHANGED fetch
  <2>1. /\ bill' \in [BillingCalls -> Bill] /\ bill'[c].pc = "sending"
        /\ \A d \in BillingCalls \ {c} : bill'[d] = bill[d]
    BY <1>1, <1>2 DEF AccountTyped, Bill, Pcs
  <2> QED  BY <1>1, <1>2, <2>1 DEF AccountInv, AccountTyped, FetchInv, CacheInv, WasIn, Account!Never
<1>3. CASE Account!Lookup(c, [bill[c] EXCEPT !.pc = "report"])
  <2> DEFINE b == [bill[c] EXCEPT !.pc = "report"]
  <2>1. b \in Bill /\ b.pc = "report"
    BY <1>1 DEF Bill, Pcs
  <2>2. Account!Lookup(c, b)
    BY <1>3
  <2> HIDE DEF b
  <2>3. /\ AccountInv'
        /\ \A d \in BillingCalls \ {c} : bill'[d] = bill[d]
        /\ cache.until > time => cache.state \in States /\ bill'[c] = Account!Ended(b, cache.state)
        /\ ~(cache.until > time) => bill'[c].pc = "reports"
    BY <1>1, <2>1, <2>2, LookupFacts
  <2> QED  BY <2>1, <2>3, EndedFacts
<1> QED  BY <1>2, <1>3 DEF Account!Report

LEMMA SettledFacts ==
  ASSUME AccountInv, Account!Fetched \/ Account!FetchFails
  PROVE  /\ AccountInv'
         /\ \A c \in BillingCalls :
              \/ bill'[c] = bill[c] \/ bill'[c].pc = "failed"
              \/ /\ Account!Waits(c) /\ fetch.pc = "answered" /\ fetch.state \in States /\ cache.until <= time
                 /\ bill'[c] = Account!Ended(bill[c], fetch.state)
<1>1. AccountTyped /\ FetchInv /\ CacheInv /\ UNCHANGED <<account, time, left>>
  BY DEF AccountInv, Account!Fetched, Account!FetchFails
<1>2. fetch.pc # "none" /\ fetch' = [fetch EXCEPT !.pc = "none", !.state = Account!Nothing, !.since = 0]
  BY DEF Account!Fetched, Account!FetchFails
<1>3. fetch' \in Fetch /\ fetch'.pc = "none"
  BY <1>1, <1>2 DEF AccountTyped, Fetch
<1>4. CASE Account!FetchFails
  <2>1. bill' = [c \in BillingCalls |-> IF Account!Waits(c) THEN [pc |-> "failed", needs |-> {}] ELSE bill[c]] /\ UNCHANGED cache
    BY <1>4 DEF Account!FetchFails
  <2>2. bill' \in [BillingCalls -> Bill] /\ \A c \in BillingCalls : bill'[c] = bill[c] \/ bill'[c].pc = "failed"
    BY <1>1, <2>1 DEF AccountTyped, Bill, Pcs, Account!Requirements
  <2>3. AccountInv'
    BY <1>1, <1>3, <2>1, <2>2 DEF AccountInv, AccountTyped, FetchInv, CacheInv, WasIn, Account!Never
  <2> QED  BY <2>2, <2>3
<1>5. CASE Account!Fetched
  <2>1. /\ fetch.pc = "answered" /\ fetch.state \in States /\ WasIn(fetch.state, fetch.since)
        /\ fetch.since <= time /\ time <= fetch.since + RequestTimeout /\ cache.until <= time
    BY <1>1, <1>5 DEF FetchInv, Account!Fetched
  <2> DEFINE e == IF Account!EntryUntil > time THEN [state |-> fetch.state, until |-> Account!EntryUntil] ELSE Account!NoEntry
  <2>2. cache' = e /\ bill' = [c \in BillingCalls |-> IF Account!Waits(c) THEN Account!Ended(bill[c], fetch.state) ELSE bill[c]]
    BY <1>5 DEF Account!Fetched
  <2>3. time \in Nat /\ CacheTtl \in Nat /\ RequestTimeout \in Nat /\ fetch.since \in Nat
    BY <1>1, BillingAssumption DEF AccountTyped, Fetch
  <2>4. e \in Entry /\ (e.until = 0 \/ (e.state = fetch.state /\ e.until = time + CacheTtl))
    BY <2>1, <2>3 DEF Entry, Account!NoEntry, Account!EntryUntil
  <2> HIDE DEF e
  <2>5. CacheInv'
    <3>1. CASE e.until = 0
      BY <1>1, <2>2, <2>3, <3>1 DEF CacheInv
    <3>2. CASE e.state = fetch.state /\ e.until = time + CacheTtl
      <4>1. e.until - CacheTtl - RequestTimeout <= fetch.since
        BY <2>1, <2>3, <3>2
      <4>2. WasIn(e.state, e.until - CacheTtl - RequestTimeout)
        BY <1>1, <2>1, <2>3, <3>2, <4>1 DEF WasIn, AccountTyped
      <4> QED  BY <1>1, <2>1, <2>2, <2>3, <3>2, <4>2 DEF CacheInv, WasIn, Account!Never
    <3> QED  BY <2>4, <3>1, <3>2
  <2>6. ASSUME NEW c \in BillingCalls, Account!Waits(c)  PROVE Account!Ended(bill[c], fetch.state) \in Bill
    BY <1>1, <2>1, EndedFacts DEF AccountTyped
  <2>7. bill' \in [BillingCalls -> Bill]
    BY <1>1, <2>2, <2>6 DEF AccountTyped
  <2>8. AccountInv'
    BY <1>1, <1>3, <2>2, <2>4, <2>5, <2>7 DEF AccountInv, AccountTyped, FetchInv
  <2> QED  BY <2>1, <2>2, <2>8
<1> QED  BY <1>4, <1>5

(* The account leaves a state.                                             *)
LEMMA ChangeFacts ==
  ASSUME AccountInv, Account!Change
  PROVE  AccountInv'
<1>1. /\ AccountTyped /\ FetchInv /\ CacheInv /\ UNCHANGED <<cache, fetch, bill, time>>
      /\ account' # account /\ left' = [left EXCEPT ![account] = time, ![account'] = Account!Never]
  BY DEF AccountInv, Account!Change
<1>2. account' \in States
  BY <1>1, NothingFacts DEF Account!Change, AccountTyped, States, Account!Accounts
<1>3. time \in Nat /\ time # Account!Never /\ Account!Never \in Nat
  BY <1>1, BillingAssumption DEF AccountTyped, Account!Never
<1>4. left' \in [States -> Nat]
  BY <1>1, <1>3 DEF AccountTyped
<1>5. ASSUME NEW s \in States, NEW t \in Int, t <= time, WasIn(s, t)
      PROVE  s = account' \/ (left'[s] # Account!Never /\ t <= left'[s])
  BY <1>1, <1>3, <1>5 DEF WasIn, AccountTyped
<1>6. fetch.since \in Int /\ cache.until \in Int /\ CacheTtl \in Nat /\ RequestTimeout \in Nat
  BY <1>1, BillingAssumption DEF AccountTyped, Fetch, Entry
<1>7. FetchInv'
  BY <1>1, <1>5, <1>6 DEF FetchInv, WasIn, Account!Never
<1>8. CacheInv'
  <2>1. SUFFICES ASSUME cache.until > time  PROVE WasIn(cache.state, cache.until - CacheTtl - RequestTimeout)'
    BY <1>1 DEF CacheInv
  <2>2. /\ cache.state \in States /\ WasIn(cache.state, cache.until - CacheTtl - RequestTimeout)
        /\ cache.until - CacheTtl - RequestTimeout \in Int /\ cache.until - CacheTtl - RequestTimeout <= time
    BY <1>1, <1>3, <1>6, <2>1 DEF CacheInv
  <2>3. cache.state = account' \/ (left'[cache.state] # Account!Never /\ cache.until - CacheTtl - RequestTimeout <= left'[cache.state])
    BY <1>5, <2>2
  <2> QED  BY <1>1, <2>3 DEF WasIn, Account!Never
<1> QED  BY <1>1, <1>2, <1>4, <1>7, <1>8 DEF AccountInv, AccountTyped

LEMMA OtherFacts ==
  ASSUME AccountInv, Account!Answer \/ Account!Tick \/ \E c \in BillingCalls : Account!Send(c)
  PROVE  AccountInv' /\ \A c \in BillingCalls : bill'[c] = bill[c] \/ bill[c].pc = "sending"
<1>1. AccountTyped /\ FetchInv /\ CacheInv /\ time \in Nat /\ fetch.since \in Nat /\ cache.until \in Nat
      /\ Horizon \in Nat /\ CacheTtl \in Nat /\ RequestTimeout \in Nat
  BY BillingAssumption DEF AccountInv, AccountTyped, Fetch, Entry
<1>2. CASE Account!Answer
  <2>1. fetch' = [fetch EXCEPT !.state = account, !.pc = "answered"] /\ fetch.pc = "asked" /\ UNCHANGED <<account, cache, bill, time, left>>
    BY <1>2 DEF Account!Answer
  <2>2. fetch' \in Fetch /\ fetch'.state = account /\ fetch'.since = fetch.since
    BY <1>1, <2>1 DEF AccountTyped, Fetch
  <2> QED  BY <1>1, <2>1, <2>2 DEF AccountInv, AccountTyped, FetchInv, CacheInv, WasIn, Account!Never
<1>3. CASE Account!Tick
  <2>1. /\ time < Horizon /\ time' = time + 1 /\ UNCHANGED <<account, fetch, bill, left>>
        /\ cache' = IF cache.until > time + 1 THEN cache ELSE Account!NoEntry
        /\ fetch.pc # "none" => time < fetch.since + RequestTimeout
    BY <1>3 DEF Account!Tick, Account!InTime
  <2>2. cache' \in Entry /\ (cache' = cache \/ cache'.until = 0) /\ (cache'.until > time + 1 => cache' = cache)
    BY <1>1, <2>1 DEF AccountTyped, Account!NoEntry, Entry
  <2>3. AccountTyped'
    BY <1>1, <2>1, <2>2 DEF AccountTyped
  <2>4. FetchInv'
    BY <1>1, <2>1, <2>2 DEF FetchInv, WasIn, Account!Never
  <2>5. CacheInv'
    BY <1>1, <2>1, <2>2 DEF CacheInv, WasIn, Account!Never
  <2> QED  BY <2>1, <2>3, <2>4, <2>5 DEF AccountInv
<1>4. ASSUME NEW c \in BillingCalls, Account!Send(c)
      PROVE  AccountInv' /\ \A d \in BillingCalls : bill'[d] = bill[d] \/ bill[d].pc = "sending"
  <2>1. PICK end \in {"reported", "failed"} : bill' = [bill EXCEPT ![c].pc = end]
    BY <1>4 DEF Account!Send
  <2>2. bill[c].pc = "sending" /\ UNCHANGED <<account, cache, fetch, time, left>>
    BY <1>4 DEF Account!Send
  <2>3. bill' \in [BillingCalls -> Bill] /\ \A d \in BillingCalls \ {c} : bill'[d] = bill[d]
    BY <1>1, <2>1 DEF AccountTyped, Bill, Pcs
  <2> QED  BY <1>1, <2>2, <2>3 DEF AccountInv, AccountTyped, FetchInv, CacheInv, WasIn, Account!Never
<1> QED  BY <1>2, <1>3, <1>4

LEMMA AccountStep == AccountInv /\ [Account!Next]_accountVars => AccountInv'
<1> SUFFICES ASSUME AccountInv, [Account!Next]_accountVars  PROVE AccountInv'
  OBVIOUS
<1>1. CASE UNCHANGED accountVars
  BY <1>1 DEF accountVars, AccountInv, AccountTyped, FetchInv, CacheInv, WasIn, Account!Never
<1>2. ASSUME NEW c \in BillingCalls, Account!Assert(c) \/ Account!Report(c)  PROVE AccountInv'
  BY <1>2, AssertFacts, ReportFacts
<1> QED  BY <1>1, <1>2, SettledFacts, ChangeFacts, OtherFacts DEF Account!Next

(* What a decision is taken from is recent.                                *)
LEMMA RecentFacts ==
  ASSUME AccountInv, cache.until > time \/ fetch.pc = "answered"
  PROVE  Account!Recent
<1>1. /\ time \in Nat /\ fetch.since \in Nat /\ cache.until \in Nat /\ CacheTtl \in Nat /\ RequestTimeout \in Nat
      /\ left \in [States -> Nat]
  BY BillingAssumption DEF AccountInv, AccountTyped, Fetch, Entry
<1>2. CASE cache.until > time
  <2>1. cache.state \in States /\ WasIn(cache.state, cache.until - CacheTtl - RequestTimeout) /\ Account!Basis = cache.state
    BY <1>2 DEF AccountInv, CacheInv, Account!Basis
  <2> QED  BY <1>1, <1>2, <2>1 DEF WasIn, Account!Recent
<1>3. CASE ~(cache.until > time) /\ fetch.pc = "answered"
  <2>1. /\ fetch.state \in States /\ WasIn(fetch.state, fetch.since) /\ Account!Basis = fetch.state
        /\ time <= fetch.since + RequestTimeout
    BY <1>3 DEF AccountInv, FetchInv, Account!Basis
  <2> QED  BY <1>1, <2>1 DEF WasIn, Account!Recent
<1> QED  BY <1>2, <1>3

LEMMA DecisionStep ==
  AccountInv /\ [Account!Next]_accountVars =>
    [\A c \in BillingCalls : Account!Decided(c) => Account!Recent /\ Account!Explained(c)]_Account!billingVars
<1> SUFFICES ASSUME AccountInv, Account!Next, NEW c \in BillingCalls, Account!Decided(c)
             PROVE  Account!Recent /\ Account!Explained(c)
  BY DEF accountVars, Account!billingVars
<1>1. /\ bill[c].pc \in {"new", "asserts"} /\ bill'[c].pc \notin {"new", "asserts", "sending", "reports", "failed"}
      /\ bill'[c] # bill[c] /\ bill[c] \in Bill
  BY DEF Account!Decided, Account!Undecided, AccountInv, AccountTyped
<1>2. CASE Account!Assert(c)
  <2>1. /\ bill[c].pc = "new" /\ cache.until > time /\ cache.state \in States
        /\ \E b \in Bill : b.pc = "new" /\ bill'[c] = Account!Ended(b, cache.state)
    BY <1>1, <1>2, AssertFacts
  <2>2. PICK b \in Bill : b.pc = "new" /\ bill'[c] = Account!Ended(b, cache.state)
    BY <2>1
  <2>3. b.needs \in Account!Requirements /\ Account!Basis = cache.state
    BY <2>1 DEF Bill, Account!Basis
  <2>4. Account!Explained(c)
    BY <2>1, <2>2, <2>3, EndedFacts DEF Account!Explained
  <2> QED  BY <2>1, <2>4, RecentFacts
<1>3. CASE Account!Fetched \/ Account!FetchFails
  <2>1. /\ bill[c].pc = "asserts" /\ fetch.pc = "answered" /\ fetch.state \in States /\ cache.until <= time
        /\ bill'[c] = Account!Ended(bill[c], fetch.state)
    BY <1>1, <1>3, SettledFacts DEF Account!Waits
  <2>2. bill[c].needs \in Account!Requirements /\ Account!Basis = fetch.state
    <3>1. cache.until \in Nat /\ time \in Nat
      BY BillingAssumption DEF AccountInv, AccountTyped, Entry
    <3> QED  BY <1>1, <2>1, <3>1 DEF Bill, Account!Basis
  <2>3. Account!Explained(c)
    BY <1>1, <2>1, <2>2, EndedFacts DEF Account!Explained
  <2> QED  BY <2>1, <2>3, RecentFacts
<1>4. CASE Account!Change
  BY <1>1, <1>4 DEF Account!Change
<1>5. CASE Account!Answer \/ Account!Tick \/ \E d \in BillingCalls : Account!Send(d)
  BY <1>1, <1>5, OtherFacts
<1>6. ASSUME NEW d \in BillingCalls, Account!Report(d)  PROVE FALSE
  BY <1>1, <1>6, ReportFacts
<1>7. ASSUME NEW d \in BillingCalls \ {c}, Account!Assert(d)  PROVE FALSE
  BY <1>1, <1>7, AssertFacts
<1> QED  BY <1>2, <1>3, <1>4, <1>5, <1>6, <1>7 DEF Account!Next

(* For any calls, entries and timeouts: a permission or a denial is no     *)
(* older than an entry and a request together last, and a denial names a   *)
(* condition that fails: getCachedRuntimeState, explainDenial.             *)
THEOREM DecisionsSafe == MCSpec => DecisionsAreRight
<1>1. MCInit => AccountInv
  BY AccountInit DEF MCInit
<1>2. [MCNext]_allVars => [Account!Next]_accountVars
  BY DEF MCNext, allVars, accountVars
<1>3. AccountInv /\ [MCNext]_allVars => AccountInv'
  BY <1>2, AccountStep
<1>4. AccountInv /\ [MCNext]_allVars =>
        [\A c \in BillingCalls : Account!Decided(c) => Account!Recent /\ Account!Explained(c)]_Account!billingVars
  BY <1>2, DecisionStep
<1> QED  BY <1>1, <1>3, <1>4, PTL DEF MCSpec, DecisionsAreRight, Account!DecisionsAreRight

--------------------------------------------------------------------------------
(* The dispatch to skills: the marker in the stored state is the skill that *)
(* asked, and there is none when it asked without a state.                 *)
MarkerInv == pausedBy # "none" => marker = IF stated THEN pausedBy ELSE "none"
EnabledInv == "none" \notin enabled

LEMMA AnsweredFacts ==
  ASSUME NEW skill, NEW answer \in Skills!Answers, Skills!Answered(skill, answer)
  PROVE  MarkerInv'
<1>1. CASE answer.status # "input-required"
  BY <1>1 DEF Skills!Answered, MarkerInv
<1>2. CASE answer.status = "input-required" /\ answer.state = "none"
  <2>1. ~stated' /\ marker' = "none"
    BY <1>2 DEF Skills!Answered, Skills!MarkerAfter, Skills!NoState
  <2> QED  BY <2>1 DEF MarkerInv
<1>3. CASE answer.status = "input-required" /\ answer.state # "none"
  <2>1. Skills!MarkerAfter(skill, answer) = skill
    BY <1>3 DEF Skills!MarkerAfter, Skills!OwnMarker, Skills!Answers
  <2>2. stated' /\ marker' = skill /\ pausedBy' = skill
    BY <1>3, <2>1 DEF Skills!Answered
  <2> QED  BY <2>2 DEF MarkerInv
<1> QED  BY <1>1, <1>2, <1>3

LEMMA MarkerStep == MarkerInv /\ [Skills!Next]_skillVars => MarkerInv'
<1> SUFFICES ASSUME MarkerInv, [Skills!Next]_skillVars  PROVE MarkerInv'
  OBVIOUS
<1>1. CASE UNCHANGED <<marker, pausedBy, stated>>
  BY <1>1 DEF MarkerInv
<1>2. CASE Skills!Turn
  <2>1. Skills!Failure \in Skills!Answers
    BY DEF Skills!Failure, Skills!Answers
  <2>2. \/ \E skill : \E answer \in Skills!Answers : Skills!Answered(skill, answer)
        \/ UNCHANGED <<marker, pausedBy, stated>>
    BY <1>2, <2>1 DEF Skills!Turn, Skills!Throws
  <2> QED  BY <1>1, <2>2, AnsweredFacts
<1> QED  BY <1>1, <1>2 DEF Skills!Next, Skills!Restart, skillVars

(* The answer to a question that came with a state goes to the skill that  *)
(* asked it, whatever asked before and however the process was restarted;  *)
(* one without a state is routed anew: createSkillDispatchHandler.         *)
THEOREM AnswersSafe == MCSpec => []AnswersReachTheirSkill
<1>1. \A ids : "none" \notin Skills!Registry(ids)
  BY IdsAssumption DEF Skills!Registry, Skills!Starts
<1>2. MCInit => MarkerInv /\ EnabledInv
  BY <1>1 DEF MCInit, Skills!Init, MarkerInv, EnabledInv
<1>3. [MCNext]_allVars => [Skills!Next]_skillVars
  BY DEF MCNext, allVars, skillVars
<1>4. MarkerInv /\ [MCNext]_allVars => MarkerInv'
  BY <1>3, MarkerStep
<1>5. EnabledInv /\ [MCNext]_allVars => EnabledInv'
  BY <1>1, <1>3 DEF EnabledInv, Skills!Next, Skills!Restart, skillVars
<1>6. MarkerInv /\ EnabledInv => AnswersReachTheirSkill
  BY DEF MarkerInv, EnabledInv, AnswersReachTheirSkill, Skills!AnswersReachTheirSkill, Skills!Selected
<1> QED  BY <1>2, <1>4, <1>5, <1>6, PTL DEF MCSpec

--------------------------------------------------------------------------------
(* The MCP endpoint.                                                       *)
McpRequest == [pc : {"new", "refused", "resolving", "building", "rejected", "serving", "served"},
               holds : BOOLEAN, releases : Nat, listening : BOOLEAN, closed : BOOLEAN]
ToolCall == [pc : {"none", "running", "ended"}, cancelled : BOOLEAN, error : BOOLEAN]

(* Nothing is given back before the end; a request that is served listens  *)
(* while the response is open; its tool runs under it.                     *)
ReleaseInv(m, c) ==
  /\ m.pc # "served" => m.releases = 0
  /\ m.pc = "served" => m.closed /\ ~m.holds /\ m.releases <= 1 /\ (c.pc = "running" => c.cancelled)
  /\ m.pc = "serving" => m.listening = ~m.closed
  /\ m.listening => m.pc = "serving"
  /\ c.pc # "none" => m.pc \in {"serving", "served"}

EndpointInv ==
  /\ mcp \in [McpRequests -> McpRequest] /\ tool \in [McpRequests -> ToolCall]
  /\ \A r \in McpRequests : ReleaseInv(mcp[r], tool[r])

LEMMA FreeFacts ==
  ASSUME NEW m \in McpRequest, m.releases = 0
  PROVE  Endpoint!Free(m) \in McpRequest /\ Endpoint!Free(m).releases <= 1 /\ ~Endpoint!Free(m).holds
<1> DEFINE n == IF m.holds THEN m.releases + 1 ELSE m.releases
           f == [m EXCEPT !.holds = FALSE, !.releases = n]
<1>1. Endpoint!Free(m) = f
  BY DEF Endpoint!Free
<1>2. n \in Nat /\ n <= 1
  OBVIOUS
<1> HIDE DEF n
<1>3. f \in McpRequest /\ f.releases = n /\ f.holds = FALSE
  BY <1>2 DEF McpRequest
<1> QED  BY <1>1, <1>2, <1>3

(* A step of the endpoint is a step of one request.                        *)
LEMMA OneRequest ==
  ASSUME EndpointInv, NEW r \in McpRequests, NEW m \in McpRequest, NEW c \in ToolCall, ReleaseInv(m, c),
         mcp' = [mcp EXCEPT ![r] = m], tool' = [tool EXCEPT ![r] = c]
  PROVE  EndpointInv'
BY DEF EndpointInv

LEMMA EndpointStep == EndpointInv /\ [Endpoint!Next]_endpointVars => EndpointInv'
<1> SUFFICES ASSUME EndpointInv, [Endpoint!Next]_endpointVars  PROVE EndpointInv'
  OBVIOUS
<1>1. CASE UNCHANGED endpointVars
  BY <1>1 DEF endpointVars, EndpointInv
<1>2. CASE Endpoint!Next
  <2>1. PICK r \in McpRequests :
          \/ Endpoint!Received(r) \/ Endpoint!Resolved(r) \/ Endpoint!Built(r) \/ Endpoint!CallTool(r)
          \/ Endpoint!ToolEnds(r) \/ Endpoint!Answered(r) \/ Endpoint!Leave(r)
    BY <1>2 DEF Endpoint!Next
  <2>2. /\ mcp \in [McpRequests -> McpRequest] /\ tool \in [McpRequests -> ToolCall]
        /\ mcp[r] \in McpRequest /\ tool[r] \in ToolCall /\ ReleaseInv(mcp[r], tool[r])
    BY DEF EndpointInv
  <2>3. SUFFICES ASSUME NEW m, NEW c, m = mcp'[r], c = tool'[r]
                 PROVE  m \in McpRequest /\ c \in ToolCall /\ ReleaseInv(m, c)
                        /\ mcp' = [mcp EXCEPT ![r] = m] /\ tool' = [tool EXCEPT ![r] = c]
    BY OneRequest
  <2>4. CASE Endpoint!Received(r)
    BY <2>2, <2>3, <2>4 DEF Endpoint!Received, McpRequest, ToolCall, ReleaseInv
  <2>5. CASE Endpoint!Resolved(r)
    BY <2>2, <2>3, <2>5 DEF Endpoint!Resolved, McpRequest, ToolCall, ReleaseInv
  <2>6. CASE Endpoint!Built(r)
    BY <2>2, <2>3, <2>6 DEF Endpoint!Built, McpRequest, ToolCall, ReleaseInv
  <2>7. CASE Endpoint!CallTool(r)
    BY <2>2, <2>3, <2>7 DEF Endpoint!CallTool, McpRequest, ToolCall, ReleaseInv
  <2>8. CASE Endpoint!ToolEnds(r)
    <3>1. PICK failed \in BOOLEAN : tool' = [tool EXCEPT ![r].pc = "ended", ![r].error = failed]
      BY <2>8 DEF Endpoint!ToolEnds
    <3> DEFINE e == [tool[r] EXCEPT !.pc = "ended", !.error = failed]
    <3>2. e \in ToolCall /\ e.pc = "ended" /\ tool' = [tool EXCEPT ![r] = e]
      BY <2>2, <3>1 DEF ToolCall
    <3>3. tool[r].pc = "running" /\ mcp' = mcp
      BY <2>8 DEF Endpoint!ToolEnds
    <3> HIDE DEF e
    <3>4. m = mcp[r] /\ c = e
      BY <2>2, <2>3, <3>2, <3>3
    <3> QED  BY <2>2, <3>2, <3>3, <3>4 DEF ReleaseInv
  <2>9. ASSUME mcp[r].pc # "new", mcp[r].listening,
               tool[r].pc = "running" => tool' = [tool EXCEPT ![r].cancelled = TRUE], tool[r].pc # "running" => tool' = tool,
               mcp' = [mcp EXCEPT ![r] = [Endpoint!Free(mcp[r]) EXCEPT !.pc = "served", !.closed = TRUE, !.listening = FALSE]]
        PROVE  m \in McpRequest /\ c \in ToolCall /\ ReleaseInv(m, c)
               /\ mcp' = [mcp EXCEPT ![r] = m] /\ tool' = [tool EXCEPT ![r] = c]
    <3> DEFINE s == [Endpoint!Free(mcp[r]) EXCEPT !.pc = "served", !.closed = TRUE, !.listening = FALSE]
               k == [tool[r] EXCEPT !.cancelled = TRUE]
    <3>1. Endpoint!Free(mcp[r]) \in McpRequest /\ Endpoint!Free(mcp[r]).releases <= 1 /\ ~Endpoint!Free(mcp[r]).holds
      BY <2>2, <2>9, FreeFacts DEF ReleaseInv
    <3>2. s \in McpRequest /\ s.pc = "served" /\ s.closed /\ ~s.listening /\ s.releases <= 1 /\ ~s.holds
      BY <3>1 DEF McpRequest
    <3>3. k \in ToolCall /\ k.cancelled /\ (tool[r].pc = "running" => tool' = [tool EXCEPT ![r] = k])
      BY <2>2, <2>9 DEF ToolCall
    <3>4. mcp' = [mcp EXCEPT ![r] = s]
      BY <2>9
    <3> HIDE DEF s, k
    <3>5. m = s /\ (c = k \/ (c = tool[r] /\ c.pc # "running"))
      BY <2>2, <2>3, <2>9, <3>3, <3>4
    <3>6. tool' = [tool EXCEPT ![r] = c]
      BY <2>2, <2>3, <2>9, <3>3
    <3> QED  BY <2>2, <3>2, <3>3, <3>4, <3>5, <3>6 DEF ReleaseInv
  <2>10. CASE Endpoint!Answered(r)
    <3>1. mcp[r].pc = "serving" /\ tool[r].pc # "running" /\ tool' = tool /\ mcp[r].listening
      BY <2>2, <2>10 DEF Endpoint!Answered, ReleaseInv, McpRequest
    <3>2. mcp' = [mcp EXCEPT ![r] = [Endpoint!Free(mcp[r]) EXCEPT !.pc = "served", !.closed = TRUE, !.listening = FALSE]]
      BY <2>10 DEF Endpoint!Answered, Endpoint!Handled
    <3> QED  BY <2>9, <3>1, <3>2
  <2>11. CASE Endpoint!Leave(r) /\ mcp[r].listening
    <3>1. mcp[r].pc # "new" /\ tool' = IF tool[r].pc = "running" THEN [tool EXCEPT ![r].cancelled = TRUE] ELSE tool
      BY <2>11 DEF Endpoint!Leave, Endpoint!Closed
    <3>2. mcp' = [mcp EXCEPT ![r] = [Endpoint!Free(mcp[r]) EXCEPT !.pc = "served", !.closed = TRUE, !.listening = FALSE]]
      BY <2>11 DEF Endpoint!Leave, Endpoint!Closed
    <3> QED  BY <2>9, <2>11, <3>1, <3>2
  <2>12. CASE Endpoint!Leave(r) /\ ~mcp[r].listening
    <3>1. mcp' = [mcp EXCEPT ![r].closed = TRUE] /\ tool' = tool /\ mcp[r].pc # "served" /\ ~mcp[r].closed
      BY <2>12 DEF Endpoint!Leave, Endpoint!Closed
    <3> QED  BY <2>2, <2>3, <2>12, <3>1 DEF ReleaseInv, McpRequest
  <2> QED  BY <2>1, <2>4, <2>5, <2>6, <2>7, <2>8, <2>10, <2>11, <2>12
<1> QED  BY <1>1, <1>2

(* For any requests and wherever their clients leave, what the resolver of *)
(* the tools took is given back at most once, and under no tool that may   *)
(* still use it: mountMcpServer.                                           *)
THEOREM ReleasesSafe == MCSpec => []ServedRequestsRelease
<1>1. MCInit => EndpointInv
  BY DEF MCInit, Endpoint!Init, EndpointInv, McpRequest, ToolCall, ReleaseInv
<1>2. EndpointInv /\ [MCNext]_allVars => EndpointInv'
  <2>1. [MCNext]_allVars => [Endpoint!Next]_endpointVars
    BY DEF MCNext, allVars, endpointVars
  <2> QED  BY <2>1, EndpointStep
<1>3. EndpointInv => ServedRequestsRelease
  BY DEF EndpointInv, ReleaseInv, McpRequest, ToolCall, ServedRequestsRelease, Endpoint!ServedRequestsRelease
<1> QED  BY <1>1, <1>2, <1>3, PTL DEF MCSpec
================================================================================
