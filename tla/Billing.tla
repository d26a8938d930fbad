-------------------------------- MODULE Billing --------------------------------
(***************************************************************************)
(* The billing client of a context (packages/ts/src/billing/client.ts and  *)
(* access.ts) under the calls of one turn: assertExecutionAllowed and      *)
(* reportUsage (packages/ts/src/context.ts), which share the cache of the  *)
(* runtime state, one request at a time, and the state that the last       *)
(* permission left in the context.                                         *)
(*                                                                         *)
(* External: the billing service, whose state of the account may change    *)
(* between any two steps, and lru-cache, which gives one pending fetch to  *)
(* all callers.  All calls that wait for it go on in one step.             *)
(***************************************************************************)
EXTENDS Naturals, FiniteSets

CONSTANTS BillingCalls, CacheTtl, RequestTimeout, Horizon   \* a bound: the last tick

VARIABLES
  account,   (* the service: the state it would answer                         *)
  cache,     (* the cached state and the tick its entry ends                   *)
  fetch,     (* the pending request: since when, what it was answered          *)
  kept,      (* AgentContext.cachedState is set                                *)
  bill,      (* bill[c]: a call, its requirement and how it ended              *)
  time,
  left       (* observation: the tick at which the account last was in a state *)
             (* it is in no more, or Never                                     *)

billingVars == <<account, cache, fetch, kept, bill, time, left>>

(* BillingRuntimeState: of its features the one that is asked for, and how *)
(* it holds the privilege that is asked for.                               *)
Accounts == [status : {"active", "payment_failed", "no_resources", "inactive"},
             tokens : {0, 1}, feature : {"missing", "withheld", "granted"}]
Requirements == SUBSET {"feature", "privilege"}
Healthy == [status |-> "active", tokens |-> 1, feature |-> "withheld"]
Never == Horizon + 1
Nothing == [status |-> "none", tokens |-> 0, feature |-> "missing"]
NoEntry == [state |-> Nothing, until |-> 0]

(* Another feature, which has no privilege, is always there.               *)
HasRequiredAccess(s, r) ==
  CASE r = {}          -> TRUE
    [] r = {"feature"} -> s.feature # "missing"
    [] "privilege" \in r -> s.feature = "granted"

Allowed(s, r) == s.status = "active" /\ s.tokens > 0 /\ HasRequiredAccess(s, r)

(* Mutant: the tokens are not looked at.                                   *)
WithoutTokens(s, r) ==
  CASE s.status = "payment_failed" -> "PAYMENT_FAILED"
    [] s.status = "no_resources" -> "NO_TOKENS"
    [] s.status = "inactive" -> "ENTITLEMENT_INACTIVE"
    [] s.status = "active" /\ ~HasRequiredAccess(s, r) -> "MISSING_PRIVILEGE"
    [] OTHER -> "none"

(* The reason of a denial, the first that applies.                         *)
ExplainDenial(s, r) ==
  IF s.status = "payment_failed" THEN "PAYMENT_FAILED"
  ELSE IF s.status = "no_resources" \/ s.tokens <= 0 THEN "NO_TOKENS"
  ELSE IF s.status # "active" THEN "ENTITLEMENT_INACTIVE"
  ELSE IF "feature" \in r /\ s.feature = "missing" THEN "MISSING_FEATURE"
  ELSE IF ~HasRequiredAccess(s, r) THEN "MISSING_PRIVILEGE" ELSE "none"

Init ==
  /\ account \in Accounts
  /\ cache = NoEntry /\ fetch = [since |-> 0, state |-> Nothing, pc |-> "none"]
  /\ kept = FALSE /\ time = 0
  /\ bill = [c \in BillingCalls |-> [pc |-> "new", needs |-> {}]]
  /\ left = [s \in Accounts |-> Never]

--------------------------------------------------------------------------------
(* assertExecutionAllowed: the call ends as allowed or with the reason.    *)
(* reportUsage sends one event in the name of the state it has.            *)
Ended(b, s) ==
  IF b.pc \in {"report", "reports"} THEN [b EXCEPT !.pc = "sending"]
  ELSE [pc |-> IF Allowed(s, b.needs) THEN "allowed" ELSE ExplainDenial(s, b.needs), needs |-> {}]

KeptAfter(calls) == kept \/ \E c \in BillingCalls : calls[c].pc = "allowed"

(* getCachedRuntimeState: the entry, or the pending request, or a new one. *)
Lookup(c, b) ==
  IF cache.until > time
  THEN /\ bill' = [bill EXCEPT ![c] = Ended(b, cache.state)]
       /\ kept' = KeptAfter(bill') /\ UNCHANGED fetch
  ELSE /\ bill' = [bill EXCEPT ![c] = [b EXCEPT !.pc = IF b.pc = "report" THEN "reports" ELSE "asserts"]]
       /\ fetch' = IF fetch.pc = "none" THEN [since |-> time, state |-> Nothing, pc |-> "asked"] ELSE fetch
       /\ UNCHANGED kept

Assert(c) ==
  /\ bill[c].pc = "new"
  /\ \E r \in Requirements : Lookup(c, [bill[c] EXCEPT !.needs = r])
  /\ UNCHANGED <<account, cache, time, left>>

Report(c) ==
  /\ bill[c].pc = "new"
  /\ \/ /\ kept
        /\ bill' = [bill EXCEPT ![c].pc = "sending"] /\ UNCHANGED <<kept, fetch>>
     \/ ~kept /\ Lookup(c, [bill[c] EXCEPT !.pc = "report"])
  /\ UNCHANGED <<account, cache, time, left>>

(* External: the service reads the state of the account.                   *)
Answer ==
  /\ fetch.pc = "asked" /\ fetch' = [fetch EXCEPT !.state = account, !.pc = "answered"]
  /\ UNCHANGED <<account, cache, kept, bill, time, left>>

Waits(c) == bill[c].pc \in {"asserts", "reports"}

(* Mutant: an entry does not expire.                                       *)
LongEntry == Never

EntryUntil == time + CacheTtl    \* zero: deleted by the first call that goes on

(* The fetch settles: lru-cache stores its value and all its callers go on. *)
Fetched ==
  /\ fetch.pc = "answered" /\ fetch' = [fetch EXCEPT !.pc = "none", !.state = Nothing, !.since = 0]
  /\ cache' = IF EntryUntil > time THEN [state |-> fetch.state, until |-> EntryUntil] ELSE NoEntry
  /\ bill' = [c \in BillingCalls |-> IF Waits(c) THEN Ended(bill[c], fetch.state) ELSE bill[c]]
  /\ kept' = KeptAfter(bill')
  /\ UNCHANGED <<account, time, left>>

(* ensureOk refuses the status, the connection breaks, or the time is up:  *)
(* nothing is cached and every caller gets the error.                      *)
FetchFails ==
  /\ fetch.pc # "none" /\ fetch' = [fetch EXCEPT !.pc = "none", !.state = Nothing, !.since = 0]
  /\ bill' = [c \in BillingCalls |-> IF Waits(c) THEN [pc |-> "failed", needs |-> {}] ELSE bill[c]]
  /\ UNCHANGED <<account, cache, kept, time, left>>

(* sendUsageEvent: one POST; its failure is the caller's to handle.        *)
Send(c) ==
  /\ bill[c].pc = "sending"
  /\ \E end \in {"reported", "failed"} : bill' = [bill EXCEPT ![c].pc = end]
  /\ UNCHANGED <<account, cache, fetch, kept, time, left>>

(* External: tokens are spent, or the account is restored.                 *)
Change ==
  /\ account' \in {[account EXCEPT !.tokens = 0], Healthy} /\ account' # account
  /\ left' = [left EXCEPT ![account] = time, ![account'] = Never]
  /\ UNCHANGED <<cache, fetch, kept, bill, time>>

InTime == fetch.pc # "none" => time < fetch.since + RequestTimeout

Tick ==
  /\ time < Horizon /\ InTime /\ time' = time + 1
  /\ cache' = IF cache.until > time + 1 THEN cache ELSE NoEntry
  /\ UNCHANGED <<account, fetch, kept, bill, left>>

Next == Answer \/ Fetched \/ FetchFails \/ Change \/ Tick \/ \E c \in BillingCalls : Assert(c) \/ Report(c) \/ Send(c)

--------------------------------------------------------------------------------
(* A call ends in this step with a decision, taken from the entry or else  *)
(* from the answer.                                                        *)
Reasons == {"PAYMENT_FAILED", "NO_TOKENS", "ENTITLEMENT_INACTIVE", "MISSING_FEATURE", "MISSING_PRIVILEGE"}
Undecided(c) == bill[c].pc \in {"new", "asserts"}
Decided(c) == Undecided(c) /\ bill'[c].pc \notin {"new", "asserts", "sending", "reports", "failed"}
Basis == IF cache.until > time THEN cache.state ELSE fetch.state

Recent == Basis = account \/ (left[Basis] # Never /\ time <= left[Basis] + CacheTtl + RequestTimeout)

Blames(reason, s, needs) ==
  CASE reason = "PAYMENT_FAILED" -> s.status = "payment_failed"
    [] reason = "NO_TOKENS" -> s.tokens = 0 \/ s.status = "no_resources"
    [] reason = "ENTITLEMENT_INACTIVE" -> s.status # "active"
    [] reason = "MISSING_FEATURE" -> "feature" \in needs /\ s.feature = "missing"
    [] reason = "MISSING_PRIVILEGE" -> "privilege" \in needs /\ s.feature # "granted"

Explained(c) ==
  \E needs \in Requirements :
    LET blamed == {reason \in Reasons : Blames(reason, Basis, needs)} IN
    /\ bill[c].pc = "asserts" => needs = bill[c].needs
    /\ IF bill'[c].pc = "allowed" THEN blamed = {} ELSE bill'[c].pc \in blamed

(* A permission or a denial was right no longer ago than an entry and the  *)
(* longest request together last: neither the pending fetch that callers   *)
(* join nor the cache makes it older.  A call is refused exactly when one of *)
(* the conditions of the permission fails, and the reason it is given names *)
(* a condition that does fail: access.ts says that explainDenial checks "the *)
(* same three conditions".                                                 *)
DecisionsAreRight == [][\A c \in BillingCalls : Decided(c) => Recent /\ Explained(c)]_billingVars
================================================================================
