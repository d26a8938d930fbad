----------------------------- MODULE ServiceToken -----------------------------
(***************************************************************************)
(* serviceToken (packages/ts-host/src/project-knowledge/service-token.ts): *)
(* the access token of a background client, kept in memory until shortly   *)
(* before it expires.  Calls that find no fresh token share one request to *)
(* the provider, and every request shares one discovery of its endpoint.   *)
(*                                                                         *)
(* A key stands for issuer, client, scope and secret; all keys here have   *)
(* one issuer.  A request is named by the call that started it.  What a    *)
(* promise leaves behind runs in microtasks, before anything else arrives  *)
(* from the network and before the clock moves: that is Quiet.             *)
(***************************************************************************)
EXTENDS Integers, FiniteSets

CONSTANTS
  Calls, Keys, NoRequest,
  Ttls,        (* lifetimes the provider may give to a token                  *)
  Margin,      (* MAX_MARGIN_SECONDS                                          *)
  Delay,       (* the timeout of a request, in units of time                  *)
  MaxTime      (* bound of the clock                                          *)

ASSUME TokenAssumption ==
  /\ NoRequest \notin Calls \cup Keys
  /\ Ttls \subseteq Nat \ {0} /\ Margin \in Nat /\ Delay \in Nat /\ MaxTime \in Nat
  (* A token outlives twice the timeout of the request that fetches it.       *)
  /\ \A ttl \in Ttls : 2 * Delay <= ttl /\ Delay <= Margin

VARIABLES
  now,
  tokens,     (* tokens[k]: the request whose token is cached                 *)
  pending,    (* pending[k]: the request in flight                            *)
  endpoint,   (* tokenEndpoints: the discovery remembered for the issuer      *)
  discovery,  (* discovery[c]: the discovery that c started                   *)
  flight,     (* flight[c]: the request that c started                        *)
  caller      (* caller[c]: serviceToken() itself                             *)

tokenVars == <<now, tokens, pending, endpoint, discovery, flight, caller>>

Flight == [stage : {"none", "endpoint", "sent", "ok", "failed"}, cleared : BOOLEAN,
           key : Keys \cup {NoRequest}, from : Calls \cup {NoRequest},
           sent : 0 .. MaxTime, refreshAt : Nat, expires : Nat]

TokenTypeOK ==
  /\ now \in 0 .. MaxTime
  /\ tokens \in [Keys -> Calls \cup {NoRequest}] /\ pending \in [Keys -> Calls \cup {NoRequest}]
  /\ endpoint \in Calls \cup {NoRequest}
  /\ discovery \in [Calls -> {"none", "pending", "known", "rejected", "forgotten"}]
  /\ flight \in [Calls -> Flight]
  /\ caller \in [Calls -> [stage : {"new", "waiting", "done", "failed"}, key : Keys \cup {NoRequest},
                         on : Calls \cup {NoRequest}]]
  /\ \A c \in Calls : caller[c].stage # "new" => flight[caller[c].on].key = caller[c].key

TokenInit ==
  /\ now = 0
  /\ tokens = [k \in Keys |-> NoRequest] /\ pending = [k \in Keys |-> NoRequest] /\ endpoint = NoRequest
  /\ discovery = [c \in Calls |-> "none"]
  /\ flight = [c \in Calls |-> [stage |-> "none", cleared |-> FALSE, key |-> NoRequest, from |-> NoRequest,
                                sent |-> 0, refreshAt |-> 0, expires |-> 0]]
  /\ caller = [c \in Calls |-> [stage |-> "new", key |-> NoRequest, on |-> NoRequest]]

--------------------------------------------------------------------------------
(* Microtasks that are due.                                                *)
Rejected(c) == discovery[c] = "rejected"
Continues(c) == flight[c].stage = "endpoint" /\ discovery[flight[c].from] \in {"known", "forgotten"}
Clears(c) == flight[c].stage \in {"ok", "failed"} /\ ~flight[c].cleared
Resumes(c) == caller[c].stage = "waiting" /\ flight[caller[c].on].cleared

Quiet == \A c \in Calls : ~Rejected(c) /\ ~Continues(c) /\ ~Clears(c) /\ ~Resumes(c)

(* Mutants: a call always starts a request of its own; a token is used for *)
(* all of the lifetime it was given.                                       *)
AlwaysOwn(k) == NoRequest
NoMargin(ttl) == ttl

Joins(k) == pending[k]
RefreshAfter(ttl) == ttl - (IF Margin < ttl \div 2 THEN Margin ELSE ttl \div 2)
EndpointAfterFailure == NoRequest
HasTimeout == TRUE

Fresh(k) == tokens[k] # NoRequest /\ now < flight[tokens[k]].refreshAt

(* A call that finds a fresh token has it at once.                         *)
Cached(c, k) ==
  /\ caller[c].stage = "new" /\ Fresh(k)
  /\ caller' = [caller EXCEPT ![c] = [stage |-> "done", key |-> k, on |-> tokens[k]]]
  /\ UNCHANGED <<now, tokens, pending, endpoint, discovery, flight>>

(* Otherwise it waits for the request in flight.                           *)
Join(c, k) ==
  /\ caller[c].stage = "new" /\ ~Fresh(k) /\ Joins(k) # NoRequest
  /\ caller' = [caller EXCEPT ![c] = [stage |-> "waiting", key |-> k, on |-> Joins(k)]]
  /\ UNCHANGED <<now, tokens, pending, endpoint, discovery, flight>>

(* Or starts one: requestToken() runs up to its wait for the endpoint, and *)
(* starts the discovery if none is remembered.                             *)
Ask(c, k) ==
  /\ caller[c].stage = "new" /\ ~Fresh(k) /\ Joins(k) = NoRequest
  /\ caller' = [caller EXCEPT ![c] = [stage |-> "waiting", key |-> k, on |-> c]]
  /\ pending' = [pending EXCEPT ![k] = c]
  /\ endpoint' = IF endpoint = NoRequest THEN c ELSE endpoint
  /\ discovery' = IF endpoint = NoRequest THEN [discovery EXCEPT ![c] = "pending"] ELSE discovery
  /\ flight' = [flight EXCEPT ![c].stage = "endpoint", ![c].key = k, ![c].from = endpoint']
  /\ UNCHANGED <<now, tokens>>

--------------------------------------------------------------------------------
(* The network.  A request that is not answered is ended by its timeout.   *)
Discovered(d) ==
  /\ Quiet /\ discovery[d] = "pending"
  /\ discovery' = [discovery EXCEPT ![d] = "known"]
  /\ UNCHANGED <<now, tokens, pending, endpoint, flight, caller>>

DiscoveryFails(d) ==
  /\ Quiet /\ discovery[d] = "pending"
  /\ discovery' = [discovery EXCEPT ![d] = "rejected"]
  /\ UNCHANGED <<now, tokens, pending, endpoint, flight, caller>>

(* The reaction to the failure was registered first: it runs before the    *)
(* requests that wait for the endpoint go on.                              *)
Forget(d) ==
  /\ Rejected(d)
  /\ discovery' = [discovery EXCEPT ![d] = "forgotten"]
  /\ endpoint' = EndpointAfterFailure
  /\ UNCHANGED <<now, tokens, pending, flight, caller>>

(* requestToken() after its wait: it posts, or fails with the discovery.   *)
Continue(c) ==
  /\ Continues(c)
  /\ flight' = IF discovery[flight[c].from] = "known"
               THEN [flight EXCEPT ![c].stage = "sent", ![c].sent = now]
               ELSE [flight EXCEPT ![c].stage = "failed"]
  /\ UNCHANGED <<now, tokens, pending, endpoint, discovery, caller>>

(* The provider counts the lifetime from when it saw the request at the    *)
(* earliest, the client from when the answer arrives.                      *)
Granted(c, ttl) ==
  /\ Quiet /\ flight[c].stage = "sent"
  /\ flight' = [flight EXCEPT ![c].stage = "ok", ![c].refreshAt = now + RefreshAfter(ttl),
                              ![c].expires = flight[c].sent + ttl]
  /\ UNCHANGED <<now, tokens, pending, endpoint, discovery, caller>>

(* The request is refused, its answer makes no sense, or the network fails. *)
Denied(c) ==
  /\ Quiet /\ flight[c].stage = "sent"
  /\ flight' = [flight EXCEPT ![c].stage = "failed"]
  /\ UNCHANGED <<now, tokens, pending, endpoint, discovery, caller>>

(* finally(): the request is pending no more.  The calls resume later.     *)
Clear(c) ==
  /\ Clears(c)
  /\ flight' = [flight EXCEPT ![c].cleared = TRUE]
  /\ pending' = [pending EXCEPT ![flight[c].key] = NoRequest]
  /\ UNCHANGED <<now, tokens, endpoint, discovery, caller>>

(* A waiting call goes on: every one of them stores the token.             *)
Resume(c) ==
  /\ Resumes(c)
  /\ LET f == caller[c].on
         won == flight[f].stage = "ok" IN
       /\ tokens' = IF won THEN [tokens EXCEPT ![caller[c].key] = f] ELSE tokens
       /\ caller' = [caller EXCEPT ![c].stage = IF won THEN "done" ELSE "failed"]
  /\ UNCHANGED <<now, pending, endpoint, discovery, flight>>

Tick ==
  /\ Quiet /\ now < MaxTime
  /\ \A c \in Calls : flight[c].stage = "sent" => now < flight[c].sent + Delay
  /\ now' = now + 1
  /\ UNCHANGED <<tokens, pending, endpoint, discovery, flight, caller>>

TokenNext ==
  \/ Tick
  \/ \E c \in Calls : Discovered(c) \/ DiscoveryFails(c) \/ Forget(c) \/ Continue(c)
                      \/ Denied(c) \/ Clear(c) \/ Resume(c)
                      \/ \E ttl \in Ttls : Granted(c, ttl)
                      \/ \E k \in Keys : Cached(c, k) \/ Join(c, k) \/ Ask(c, k)

(* Microtasks run, and the timeout of a request fires.                     *)
TokenFairness ==
  \A c \in Calls : /\ WF_tokenVars(Forget(c)) /\ WF_tokenVars(Continue(c))
                   /\ WF_tokenVars(Clear(c)) /\ WF_tokenVars(Resume(c))
                   /\ WF_tokenVars(HasTimeout /\ DiscoveryFails(c))
                   /\ WF_tokenVars(HasTimeout /\ Denied(c))

TokenSpec == TokenInit /\ [][TokenNext]_tokenVars /\ TokenFairness

--------------------------------------------------------------------------------
(* Parallel calls never have two requests of one key at the provider.      *)
OneRequest ==
  \A k \in Keys :
    Cardinality({c \in Calls : flight[c].key = k /\ flight[c].stage \in {"endpoint", "sent"}}) <= 1

(* A failure is never remembered: once its reactions ran, the next call will *)
(* ask the provider again, and discover its endpoint again.                *)
NoFailureRemembered ==
  Quiet => /\ endpoint # NoRequest => discovery[endpoint] \in {"pending", "known"}
           /\ \A k \in Keys : pending[k] # NoRequest => flight[pending[k]].stage \in {"endpoint", "sent"}

(* Calls share requests, and failures no longer than until they are known; *)
(* each waits for a request of its own key (TokenTypeOK).                  *)
RequestsAreShared == TokenTypeOK /\ OneRequest /\ NoFailureRemembered

(* No call is given a token that has expired, however late the answer came *)
(* and however long the token was cached.                                  *)
NeverExpired ==
  [][\A c \in Calls : caller[c].stage # "done" /\ caller'[c].stage = "done" =>
       now < flight[caller'[c].on].expires]_tokenVars

(* Every call ends, with a token or an error.                              *)
EveryCallEnds == \A c \in Calls : caller[c].stage = "waiting" ~> caller[c].stage \in {"done", "failed"}
================================================================================
