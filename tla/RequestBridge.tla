----------------------------- MODULE RequestBridge -----------------------------
(***************************************************************************)
(* ScopedRequestBridge (packages/ts-host/src/dsh/request-bridge.ts): the   *)
(* loopback server through which a child process fetches credentials and   *)
(* calls tools in the name of one turn.  A turn is bound to its session    *)
(* under a fresh nonce; a request names a session and a nonce.             *)
(*                                                                         *)
(* A binding ends by release(), by its timer, by close(); its requests are *)
(* also refused when the turn's stop signal fired or its credentials       *)
(* expired, which leaves the map alone.  The dispatcher is the             *)
(* environment: it settles some time after the call, or fails.  Bad        *)
(* secrets, routes and bodies are refused before any state is read and are *)
(* left out, as is the cap on the body's size.                             *)
(***************************************************************************)
CONSTANTS Sessions, Bindings, Requests, None

ASSUME ConstantsAssumption == None \notin Sessions \cup Bindings

VARIABLES
  bindings,   (* the map: session -> its binding, or None                     *)
  turn,       (* turn[b]: the binding b and what has happened to it           *)
  request,    (* request[r]: an HTTP request and how far handle() got         *)
  closed,
  server      (* off, starting, up, failed (to listen), down                  *)

vars == <<bindings, turn, request, closed, server>>

Kinds == {"credential", "tool", "unlisted"}

Turn == [session : Sessions \cup {None}, aborted : BOOLEAN, stopped : BOOLEAN,
         expired : BOOLEAN, timer : {"none", "armed", "off"}]

Request == [stage : {"new", "reading", "dispatching", "answered", "cut"},
            session : Sessions \cup {None}, nonce : Bindings \cup {None}, kind : Kinds,
            on : Bindings \cup {None}, status : {"none", "ok", "refused", "failed"}]

TypeOK ==
  /\ bindings \in [Sessions -> Bindings \cup {None}]
  /\ turn \in [Bindings -> Turn]
  /\ request \in [Requests -> Request]
  /\ closed \in BOOLEAN /\ server \in {"off", "starting", "up", "failed", "down"}
  /\ \A r \in Requests :
       /\ request[r].stage \in {"reading", "dispatching"} =>
            request[r].session \in Sessions /\ request[r].nonce \in Bindings
       /\ request[r].stage = "dispatching" => request[r].on \in Bindings

Init ==
  /\ bindings = [s \in Sessions |-> None]
  /\ turn = [b \in Bindings |-> [session |-> None, aborted |-> FALSE, stopped |-> FALSE,
                                 expired |-> FALSE, timer |-> "none"]]
  /\ request = [r \in Requests |-> [stage |-> "new", session |-> None, nonce |-> None,
                                    kind |-> "tool", on |-> None, status |-> "none"]]
  /\ closed = FALSE /\ server = "off"

Bound(b) == turn[b].session # None

--------------------------------------------------------------------------------
(* The server.                                                             *)

Start ==
  /\ ~closed /\ server = "off"
  /\ server' = "starting"
  /\ UNCHANGED <<bindings, turn, request, closed>>

Listening ==
  /\ server = "starting"
  /\ server' \in {"up", "failed"}
  /\ UNCHANGED <<bindings, turn, request, closed>>

(* Mutant: binding while the bridge is closed.                             *)
MayBindLate(s) == bindings[s] = None

MayBind(s) == ~closed /\ bindings[s] = None

Bind(s, b) ==
  /\ ~Bound(b)
  /\ MayBind(s)
  /\ turn' = [turn EXCEPT ![b].session = s, ![b].timer = "armed"]
  /\ bindings' = [bindings EXCEPT ![s] = b]
  /\ UNCHANGED <<request, closed, server>>

(* Mutants: the entry of the session is deleted whoever holds it; the timer *)
(* unbinds without cancelling.                                             *)
DeleteEntry(b) == [bindings EXCEPT ![turn[b].session] = None]
Unheard(b) == turn[b].aborted

WithoutBinding(b) == [s \in Sessions |-> IF bindings[s] = b THEN None ELSE bindings[s]]
TimerAfterRelease(b) == "off"
WithoutExpired(b) == WithoutBinding(b)
AbortedByTimer(b) == TRUE

(* release(), by the owner of the turn: any number of times.               *)
Release(b) ==
  /\ Bound(b)
  /\ turn' = [turn EXCEPT ![b].aborted = TRUE, ![b].timer = TimerAfterRelease(b)]
  /\ bindings' = WithoutBinding(b)
  /\ UNCHANGED <<request, closed, server>>

(* The timer calls the same release, no later than the credentials expire. *)
TimerFires(b) ==
  /\ turn[b].timer = "armed"
  /\ turn' = [turn EXCEPT ![b].aborted = AbortedByTimer(b), ![b].timer = "off"]
  /\ bindings' = WithoutExpired(b)
  /\ UNCHANGED <<request, closed, server>>

(* The clock passes expiresAt, and the stop signal of the turn fires.      *)
Expire(b) ==
  /\ Bound(b) /\ ~turn[b].expired
  /\ turn' = [turn EXCEPT ![b].expired = TRUE]
  /\ UNCHANGED <<bindings, request, closed, server>>

Stop(b) ==
  /\ Bound(b) /\ ~turn[b].stopped
  /\ turn' = [turn EXCEPT ![b].stopped = TRUE]
  /\ UNCHANGED <<bindings, request, closed, server>>

Cancelled(b) == \E s \in Sessions : bindings[s] = b

(* close() and the part of finishClose() before its first await.           *)
Close ==
  /\ ~closed
  /\ closed' = TRUE
  /\ turn' = [b \in Bindings |->
       IF Cancelled(b) THEN [turn[b] EXCEPT !.aborted = TRUE, !.timer = "off"] ELSE turn[b]]
  /\ bindings' = [s \in Sessions |-> None]
  /\ UNCHANGED <<request, server>>

InProgress(r) == request[r].stage \in {"reading", "dispatching"}

(* The rest of finishClose(): every open connection is destroyed.          *)
Shutdown ==
  /\ closed /\ server = "up"
  /\ server' = "down"
  /\ request' = [r \in Requests |-> IF InProgress(r) THEN [request[r] EXCEPT !.stage = "cut"]
                                                     ELSE request[r]]
  /\ UNCHANGED <<bindings, turn, closed>>

--------------------------------------------------------------------------------
(* Requests.                                                               *)

Active(b) == ~turn[b].aborted /\ ~turn[b].stopped /\ ~turn[b].expired

Answer(r, status) == request' = [request EXCEPT ![r].stage = "answered", ![r].status = status]

(* An authorized request on a known route: handle() starts to read its body. *)
(* The nonce may be that of an older turn, or of another session.          *)
Receive(r, s, b, kind) ==
  /\ server = "up" /\ request[r].stage = "new" /\ Bound(b)
  /\ request' = [request EXCEPT ![r].stage = "reading", ![r].session = s,
                                ![r].nonce = b, ![r].kind = kind]
  /\ UNCHANGED <<bindings, turn, closed, server>>

HasContext(r) ==
  LET b == bindings[request[r].session] IN b # None /\ request[r].nonce = b /\ Active(b)

(* handle() after the body: the binding is looked up now, not when the     *)
(* request came in.                                                        *)
Body(r) ==
  /\ request[r].stage = "reading"
  /\ LET b == bindings[request[r].session] IN
       \/ ~HasContext(r) /\ Answer(r, "refused")
       \/ /\ HasContext(r) /\ request[r].kind = "credential"
          /\ request' = [request EXCEPT ![r].stage = "answered", ![r].status = "ok", ![r].on = b]
       \/ HasContext(r) /\ request[r].kind = "unlisted" /\ Answer(r, "refused")
       \/ /\ HasContext(r) /\ request[r].kind = "tool"
          /\ request' = [request EXCEPT ![r].stage = "dispatching", ![r].on = b]
  /\ UNCHANGED <<bindings, turn, closed, server>>

(* Mutant: a late result is returned as long as the session has a turn.    *)
StillBound(r) == bindings[request[r].session] # None

StillCurrent(r) == Active(request[r].on) /\ bindings[request[r].session] = request[r].on

(* The dispatcher settles: the binding is looked at again before its result *)
(* is returned.                                                            *)
DispatchSettles(r) ==
  /\ request[r].stage = "dispatching"
  /\ \/ Answer(r, "failed")
     \/ Answer(r, IF StillCurrent(r) THEN "ok" ELSE "refused")
  /\ UNCHANGED <<bindings, turn, closed, server>>

Next ==
  \/ Start \/ Listening \/ Close \/ Shutdown
  \/ \E b \in Bindings : Release(b) \/ TimerFires(b) \/ Expire(b) \/ Stop(b)
                         \/ \E s \in Sessions : Bind(s, b)
  \/ \E r \in Requests : Body(r) \/ DispatchSettles(r)
       \/ \E s \in Sessions, b \in Bindings, k \in Kinds : Receive(r, s, b, k)

Safety == Init /\ [][Next]_vars

(* Timers and sockets are served by the event loop.  The dispatcher is only *)
(* trusted to settle once the signal it was given has fired; release() is  *)
(* the caller's and may never come.                                        *)
Signalled(r) == request[r].on \in Bindings /\ (turn[request[r].on].aborted \/ turn[request[r].on].stopped)

Fairness ==
  /\ WF_vars(Listening) /\ WF_vars(Shutdown)
  /\ \A b \in Bindings : WF_vars(TimerFires(b))
  /\ \A r \in Requests : WF_vars(Body(r)) /\ WF_vars(Signalled(r) /\ DispatchSettles(r))

Spec == Safety /\ Fairness

--------------------------------------------------------------------------------
Live(b) == Bound(b) /\ ~turn[b].aborted

(* A session never has two turns whose requests could be served.           *)
OneLiveTurn ==
  \A b1, b2 \in Bindings :
    Live(b1) /\ Live(b2) /\ turn[b1].session = turn[b2].session => b1 = b2

(* close() cancels every turn, and none is bound after it.                 *)
ClosedCancelsAll == closed => \A b \in Bindings : ~Live(b)

(* A turn that ended leaves no timer behind, and one that has not still has *)
(* the timer that will end it.                                             *)
TimersMatchTurns == \A b \in Bindings : turn[b].timer = "armed" <=> Live(b)

(* The turns of the bridge: one live turn to a session, one timer to a live *)
(* turn, and neither after close().                                        *)
TurnsExclusive == OneLiveTurn /\ ClosedCancelsAll /\ TimersMatchTurns

(* A credential or a result is given only in the context of the turn whose *)
(* nonce the request carries, while that turn is bound and not cancelled,  *)
(* stopped or expired: a late result of the dispatcher is never returned.  *)
OnlyLiveTurnsAreServed ==
  [][\A r \in Requests : request[r].status = "none" /\ request'[r].status = "ok" =>
       LET b == request[r].nonce IN
         request'[r].on = b /\ Active(b) /\ bindings[turn[b].session] = b
         /\ request[r].session = turn[b].session]_vars

(* The release of a turn never takes the session away from a later turn.   *)
OnlyOwnReleaseUnbinds ==
  [][\A s \in Sessions : bindings[s] # None /\ bindings'[s] # bindings[s] =>
       turn'[bindings[s]].aborted]_vars

(* The inductive invariant: the map holds exactly the live turns, each under *)
(* its session, and a request keeps to the turn it was let in for.         *)
MapMatches ==
  /\ \A s \in Sessions, b \in Bindings : bindings[s] = b <=> Live(b) /\ turn[b].session = s
  /\ \A b \in Bindings : ~Bound(b) => ~turn[b].aborted

RequestsMatch ==
  \A r \in Requests : request[r].stage = "dispatching" =>
    /\ request[r].on = request[r].nonce
    /\ turn[request[r].on].session = request[r].session

IInv == TypeOK /\ ClosedCancelsAll /\ TimersMatchTurns /\ MapMatches /\ RequestsMatch

(* A turn whose owner never releases it is unbound all the same.           *)
TurnsEnd == \A s \in Sessions : bindings[s] # None ~> bindings[s] = None

(* Every request is answered or cut by the shutdown, even one whose tool   *)
(* would run for ever: the timer of its turn reaches the tool's signal.    *)
RequestsSettle == \A r \in Requests : InProgress(r) ~> ~InProgress(r)

(* One timer ends both.                                                    *)
TurnsAndRequestsEnd == TurnsEnd /\ RequestsSettle
================================================================================
