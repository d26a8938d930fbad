-------------------------- MODULE RequestBridgeProofs --------------------------
(***************************************************************************)
(* The safety of the request bridge for any sessions, turns and requests.  *)
(* The invariant IInv says that the map holds exactly the turns that are   *)
(* live, each under its own session: this is what makes the comparison of  *)
(* a binding with the entry of its session, in release and after a         *)
(* dispatch, the right test.                                               *)
(***************************************************************************)
EXTENDS RequestBridge, TLAPS

USE DEF MayBind, WithoutBinding, TimerAfterRelease, WithoutExpired, AbortedByTimer,
        Bound, Live, Active, Kinds

--------------------------------------------------------------------------------
LEMMA InitInv == Init => IInv
<1> SUFFICES ASSUME Init PROVE IInv
  OBVIOUS
<1>1. /\ bindings \in [Sessions -> Bindings \cup {None}] /\ turn \in [Bindings -> Turn]
      /\ closed \in BOOLEAN /\ server \in {"off", "starting", "up", "failed", "down"}
  BY DEF Init, Turn
<1>2. request \in [Requests -> Request] /\ \A r \in Requests : request[r].stage = "new"
  BY DEF Init, Request
<1>3. TypeOK /\ RequestsMatch
  BY <1>1, <1>2 DEF TypeOK, RequestsMatch
<1>4. ClosedCancelsAll /\ TimersMatchTurns /\ MapMatches
  BY ConstantsAssumption DEF Init, ClosedCancelsAll, TimersMatchTurns, MapMatches
<1> QED
  BY <1>3, <1>4 DEF IInv

(* A request that changes keeps the shape of a request.                    *)
RequestShape(q) ==
  /\ q.stage \in {"reading", "dispatching"} => q.session \in Sessions /\ q.nonce \in Bindings
  /\ q.stage = "dispatching" =>
       q.on \in Bindings /\ q.on = q.nonce /\ turn[q.on].session = q.session

LEMMA OneRequest ==
  ASSUME IInv, NEW r \in Requests, NEW q \in Request, RequestShape(q),
         request' = [request EXCEPT ![r] = q], UNCHANGED <<bindings, turn, closed, server>>
  PROVE  IInv'
<1>1. request' \in [Requests -> Request]
  BY DEF IInv, TypeOK
<1>2. TypeOK'
  BY <1>1 DEF IInv, TypeOK, RequestShape
<1>3. RequestsMatch'
  BY DEF IInv, TypeOK, RequestsMatch, RequestShape
<1>4. ClosedCancelsAll' /\ TimersMatchTurns' /\ MapMatches'
  BY DEF IInv, ClosedCancelsAll, TimersMatchTurns, MapMatches
<1> QED
  BY <1>2, <1>3, <1>4 DEF IInv

(* A step that leaves map and turns alone keeps what is said of them.      *)
LEMMA KeepTurns ==
  ASSUME IInv, UNCHANGED <<bindings, turn, closed>>
  PROVE  ClosedCancelsAll' /\ TimersMatchTurns' /\ MapMatches'
BY DEF IInv, ClosedCancelsAll, TimersMatchTurns, MapMatches

LEMMA ServerInv == ASSUME IInv, Start \/ Listening PROVE IInv'
<1>1. UNCHANGED <<bindings, turn, request, closed>> /\ server' \in {"off", "starting", "up", "failed", "down"}
  BY DEF Start, Listening
<1>2. TypeOK' /\ RequestsMatch'
  BY <1>1 DEF IInv, TypeOK, RequestsMatch
<1> QED
  BY <1>1, <1>2, KeepTurns DEF IInv

LEMMA ShutdownInv == ASSUME IInv, Shutdown PROVE IInv'
<1>1. UNCHANGED <<bindings, turn, closed>> /\ server' = "down"
      /\ request' = [r \in Requests |-> IF InProgress(r) THEN [request[r] EXCEPT !.stage = "cut"]
                                                         ELSE request[r]]
  BY DEF Shutdown
<1>2. request' \in [Requests -> Request]
  BY <1>1 DEF IInv, TypeOK, Request
<1>3. \A r \in Requests : request'[r].stage \in {"reading", "dispatching"} => request'[r] = request[r]
  BY <1>1 DEF IInv, TypeOK, InProgress, Request
<1>4. TypeOK' /\ RequestsMatch'
  BY <1>1, <1>2, <1>3 DEF IInv, TypeOK, RequestsMatch
<1> QED
  BY <1>1, <1>4, KeepTurns DEF IInv

(* What happens to a turn leaves it a turn.                                *)
LEMMA TurnFacts ==
  ASSUME NEW t \in Turn
  PROVE  /\ \A s \in Sessions : [t EXCEPT !.session = s, !.timer = "armed"] \in Turn
         /\ [t EXCEPT !.aborted = TRUE, !.timer = "off"] \in Turn
         /\ [t EXCEPT !.expired = TRUE] \in Turn /\ [t EXCEPT !.stopped = TRUE] \in Turn
  BY DEF Turn

LEMMA BindInv == ASSUME IInv, NEW s \in Sessions, NEW b \in Bindings, Bind(s, b) PROVE IInv'
<1> USE ConstantsAssumption DEF IInv, TypeOK, Turn
<1>1. /\ turn[b].session = None /\ ~closed /\ bindings[s] = None
      /\ turn' = [turn EXCEPT ![b].session = s, ![b].timer = "armed"]
      /\ bindings' = [bindings EXCEPT ![s] = b]
      /\ UNCHANGED <<request, closed, server>>
  BY DEF Bind
<1>2. TypeOK'
  <2>1. turn' \in [Bindings -> Turn]
    <3> HIDE DEF Turn
    <3>1. [turn[b] EXCEPT !.session = s, !.timer = "armed"] \in Turn
      BY TurnFacts
    <3>2. turn' = [turn EXCEPT ![b] = [turn[b] EXCEPT !.session = s, !.timer = "armed"]]
      BY <1>1
    <3> QED
      BY <3>1, <3>2
  <2>2. bindings' \in [Sessions -> Bindings \cup {None}]
    BY <1>1
  <2> QED
    BY <1>1, <2>1, <2>2
<1>3. ~turn[b].aborted
  BY <1>1 DEF MapMatches
<1>4. ClosedCancelsAll' /\ TimersMatchTurns'
  BY <1>1, <1>3 DEF ClosedCancelsAll, TimersMatchTurns
<1>5. MapMatches'
  BY <1>1, <1>3 DEF MapMatches
<1>6. RequestsMatch'
  <2> SUFFICES ASSUME NEW r \in Requests, request[r].stage = "dispatching"
               PROVE  request[r].on = request[r].nonce /\ turn'[request[r].on].session = request[r].session
    BY <1>1 DEF RequestsMatch
  <2>1. request[r].on \in Bindings /\ request[r].session \in Sessions \cup {None}
    BY DEF Request
  <2>2. request[r].session # None => request[r].on # b
    BY <1>1, <2>1 DEF RequestsMatch
  <2> QED
    BY <1>1, <2>1, <2>2 DEF RequestsMatch
<1> QED
  BY <1>2, <1>4, <1>5, <1>6

(* release() and the timer do the same to the map and to the turn.         *)
LEMMA UnbindTypes ==
  ASSUME TypeOK, NEW b \in Bindings,
         turn' = [turn EXCEPT ![b].aborted = TRUE, ![b].timer = "off"],
         bindings' = WithoutBinding(b), UNCHANGED <<request, closed, server>>
  PROVE  TypeOK'
<1>1. [turn[b] EXCEPT !.aborted = TRUE, !.timer = "off"] \in Turn
  BY TurnFacts DEF TypeOK
<1>2. turn' \in [Bindings -> Turn]
  BY <1>1 DEF TypeOK
<1>3. bindings' \in [Sessions -> Bindings \cup {None}]
  BY DEF TypeOK
<1> QED
  BY <1>2, <1>3 DEF TypeOK

LEMMA UnbindInv ==
  ASSUME IInv, NEW b \in Bindings, Bound(b),
         turn' = [turn EXCEPT ![b].aborted = TRUE, ![b].timer = "off"],
         bindings' = WithoutBinding(b), UNCHANGED <<request, closed, server>>
  PROVE  IInv'
<1>1. TypeOK'
  BY UnbindTypes DEF IInv
<1> USE ConstantsAssumption DEF IInv, TypeOK, Turn
<1>2. ClosedCancelsAll' /\ TimersMatchTurns'
  BY DEF ClosedCancelsAll, TimersMatchTurns
<1>3. MapMatches'
  BY DEF MapMatches
<1>4. RequestsMatch'
  BY DEF RequestsMatch
<1> QED
  BY <1>1, <1>2, <1>3, <1>4

LEMMA MarkInv == ASSUME IInv, NEW b \in Bindings, Expire(b) \/ Stop(b) PROVE IInv'
<1> USE DEF IInv, TypeOK, Turn
<1>1. /\ turn' = [turn EXCEPT ![b].expired = TRUE] \/ turn' = [turn EXCEPT ![b].stopped = TRUE]
      /\ UNCHANGED <<bindings, request, closed, server>>
  BY DEF Expire, Stop
<1>2. TypeOK'
  <2>1. turn' \in [Bindings -> Turn]
    <3> HIDE DEF Turn
    <3>1. /\ [turn[b] EXCEPT !.expired = TRUE] \in Turn
          /\ [turn[b] EXCEPT !.stopped = TRUE] \in Turn
      BY TurnFacts
    <3>2. \/ turn' = [turn EXCEPT ![b] = [turn[b] EXCEPT !.expired = TRUE]]
          \/ turn' = [turn EXCEPT ![b] = [turn[b] EXCEPT !.stopped = TRUE]]
      BY <1>1
    <3> QED
      BY <3>1, <3>2
  <2> QED
    BY <1>1, <2>1
<1>3. /\ \A c \in Bindings : /\ turn'[c].session = turn[c].session
                             /\ turn'[c].aborted = turn[c].aborted
                             /\ turn'[c].timer = turn[c].timer
  BY <1>1
<1>4. ClosedCancelsAll' /\ TimersMatchTurns'
  BY <1>1, <1>3 DEF ClosedCancelsAll, TimersMatchTurns
<1>5. MapMatches'
  BY <1>1, <1>3 DEF MapMatches
<1>6. RequestsMatch'
  BY <1>1, <1>3 DEF RequestsMatch
<1> QED
  BY <1>2, <1>4, <1>5, <1>6

LEMMA CloseInv == ASSUME IInv, Close PROVE IInv'
<1> USE ConstantsAssumption DEF IInv, TypeOK, Turn
<1>1. /\ closed' = TRUE /\ bindings' = [s \in Sessions |-> None] /\ UNCHANGED <<request, server>>
      /\ turn' = [b \in Bindings |->
           IF Cancelled(b) THEN [turn[b] EXCEPT !.aborted = TRUE, !.timer = "off"] ELSE turn[b]]
  BY DEF Close
<1>2. TypeOK'
  <2> HIDE DEF Turn
  <2>1. \A b \in Bindings : [turn[b] EXCEPT !.aborted = TRUE, !.timer = "off"] \in Turn
    BY TurnFacts
  <2>2. turn' \in [Bindings -> Turn]
    BY <1>1, <2>1
  <2> QED
    BY <1>1, <2>2
<1>3. \A b \in Bindings : Live(b) => Cancelled(b)
  BY DEF MapMatches, Cancelled
<1>4. \A b \in Bindings : Cancelled(b) => Bound(b)
  BY DEF MapMatches, Cancelled
<1>. HIDE DEF Cancelled
<1>a. \A b \in Bindings : turn'[b].session = turn[b].session
  BY <1>1
<1>b. \A b \in Bindings : turn'[b].aborted = (Cancelled(b) \/ turn[b].aborted)
  BY <1>1
<1>5. ClosedCancelsAll' /\ TimersMatchTurns'
  BY <1>1, <1>3 DEF ClosedCancelsAll, TimersMatchTurns
<1>6. MapMatches'
  <2>1. \A b \in Bindings : ~Live(b)'
    BY <1>1, <1>3, <1>a, <1>b
  <2>2. \A b \in Bindings : ~Bound(b)' => ~turn'[b].aborted
    BY <1>4, <1>a, <1>b DEF MapMatches
  <2>3. \A s \in Sessions, b \in Bindings : bindings'[s] # b
    BY <1>1
  <2> QED
    BY <2>1, <2>2, <2>3 DEF MapMatches
<1>7. RequestsMatch'
  BY <1>1, <1>a DEF RequestsMatch
<1> QED
  BY <1>2, <1>5, <1>6, <1>7

LEMMA RequestInv ==
  ASSUME IInv, NEW r \in Requests,
         Body(r) \/ DispatchSettles(r)
           \/ \E s \in Sessions, b \in Bindings, k \in Kinds : Receive(r, s, b, k)
  PROVE  IInv'
<1>1. UNCHANGED <<bindings, turn, closed, server>> /\ request[r] \in Request
  BY DEF Body, DispatchSettles, Receive, IInv, TypeOK
<1>2. ASSUME NEW s \in Sessions, NEW b \in Bindings, NEW k \in Kinds, Receive(r, s, b, k)
      PROVE  IInv'
  <2> DEFINE q == [request[r] EXCEPT !.stage = "reading", !.session = s, !.nonce = b, !.kind = k]
  <2>1. request' = [request EXCEPT ![r] = q]
    BY <1>2 DEF Receive, IInv, TypeOK
  <2>2. q \in Request /\ RequestShape(q)
    BY <1>1 DEF Request, RequestShape
  <2> QED
    BY <1>1, <2>1, <2>2, OneRequest
<1>3. ASSUME NEW v \in {"ok", "refused", "failed"}, Answer(r, v) PROVE IInv'
  <2> DEFINE q == [request[r] EXCEPT !.stage = "answered", !.status = v]
  <2>1. request' = [request EXCEPT ![r] = q]
    BY <1>3 DEF Answer, IInv, TypeOK
  <2>2. q \in Request /\ RequestShape(q)
    BY <1>1 DEF Request, RequestShape
  <2> QED
    BY <1>1, <2>1, <2>2, OneRequest
<1>4. CASE Body(r) /\ HasContext(r)
  <2> DEFINE b == bindings[request[r].session]
             q1 == [request[r] EXCEPT !.stage = "answered", !.status = "ok", !.on = b]
             q2 == [request[r] EXCEPT !.stage = "dispatching", !.on = b]
  <2>1. request[r].session \in Sessions /\ request[r].nonce \in Bindings /\ b = request[r].nonce
    BY <1>4 DEF Body, HasContext, IInv, TypeOK
  <2>2. turn[b].session = request[r].session
    BY <2>1 DEF IInv, MapMatches
  <2>3. Answer(r, "refused") \/ request' = [request EXCEPT ![r] = q1] \/ request' = [request EXCEPT ![r] = q2]
    BY <1>4 DEF Body, IInv, TypeOK
  <2>4. q1 \in Request /\ RequestShape(q1)
    BY <1>1, <2>1 DEF Request, RequestShape
  <2>5. q2 \in Request /\ RequestShape(q2)
    BY <1>1, <2>1, <2>2 DEF Request, RequestShape
  <2>6. CASE Answer(r, "refused")
    BY <2>6, <1>3
  <2>7. CASE request' = [request EXCEPT ![r] = q1]
    BY <1>1, <2>4, <2>7, OneRequest
  <2>8. CASE request' = [request EXCEPT ![r] = q2]
    BY <1>1, <2>5, <2>8, OneRequest
  <2> QED
    BY <2>3, <2>6, <2>7, <2>8
<1>5. CASE Body(r) /\ ~HasContext(r)
  BY <1>3, <1>5 DEF Body
<1>6. CASE DispatchSettles(r)
  BY <1>3, <1>6 DEF DispatchSettles
<1> QED
  BY <1>2, <1>4, <1>5, <1>6

--------------------------------------------------------------------------------
(* IInv holds in every reachable state.                                    *)
THEOREM Invariance == Safety => []IInv
<1>1. IInv /\ [Next]_vars => IInv'
  <2> SUFFICES ASSUME IInv, [Next]_vars PROVE IInv'
    OBVIOUS
  <2>server. CASE Start \/ Listening
    BY <2>server, ServerInv
  <2>shutdown. CASE Shutdown
    BY <2>shutdown, ShutdownInv
  <2>close. CASE Close
    BY <2>close, CloseInv
  <2>bind. CASE \E s \in Sessions, b \in Bindings : Bind(s, b)
    BY <2>bind, BindInv
  <2>release. CASE \E b \in Bindings : Release(b)
    BY <2>release, UnbindInv DEF Release
  <2>fires. ASSUME NEW b \in Bindings, TimerFires(b) PROVE IInv'
    <3>1. Bound(b)
      BY <2>fires DEF TimerFires, IInv, TimersMatchTurns
    <3> QED
      BY <2>fires, <3>1, UnbindInv DEF TimerFires
  <2>mark. CASE \E b \in Bindings : Expire(b) \/ Stop(b)
    BY <2>mark, MarkInv
  <2>request. CASE \E r \in Requests : Body(r) \/ DispatchSettles(r)
                     \/ \E s \in Sessions, b \in Bindings, k \in Kinds : Receive(r, s, b, k)
    BY <2>request, RequestInv
  <2>stutter. CASE UNCHANGED vars
    <3>1. TypeOK' /\ RequestsMatch'
      BY <2>stutter DEF vars, IInv, TypeOK, RequestsMatch
    <3> QED
      BY <2>stutter, <3>1, KeepTurns DEF vars, IInv
  <2> QED
    BY <2>server, <2>shutdown, <2>close, <2>bind, <2>release, <2>fires, <2>mark, <2>request, <2>stutter DEF Next
<1> QED
  BY <1>1, InitInv, PTL DEF Safety

(* Types.                                                                  *)
THEOREM TypeCorrect == Safety => []TypeOK
<1>1. IInv => TypeOK
  BY DEF IInv
<1> QED
  BY <1>1, Invariance, PTL

(* A session never has two live turns, every turn that ended has lost its  *)
(* timer, and close() leaves no turn alive.                                *)
THEOREM TurnsSafe == Safety => []TurnsExclusive
<1>1. IInv => TurnsExclusive
  <2> SUFFICES ASSUME IInv PROVE OneLiveTurn
    BY DEF IInv, TurnsExclusive
  <2> SUFFICES ASSUME NEW b1 \in Bindings, NEW b2 \in Bindings,
                      Live(b1), Live(b2), turn[b1].session = turn[b2].session
               PROVE  b1 = b2
    BY DEF OneLiveTurn
  <2>1. turn[b1].session \in Sessions
    BY DEF IInv, TypeOK, Turn
  <2> QED
    BY <2>1 DEF IInv, MapMatches
<1> QED
  BY <1>1, Invariance, PTL

(* Only the live turn whose nonce a request carries ever answers it.       *)
THEOREM ServedSafe == Safety => OnlyLiveTurnsAreServed
<1> DEFINE Served == \A r \in Requests : request[r].status = "none" /\ request'[r].status = "ok" =>
       LET b == request[r].nonce IN
         request'[r].on = b /\ Active(b) /\ bindings[turn[b].session] = b
         /\ request[r].session = turn[b].session
<1>1. IInv /\ [Next]_vars => Served
  <2> SUFFICES ASSUME IInv, [Next]_vars, NEW r \in Requests,
                      request[r].status = "none", request'[r].status = "ok"
               PROVE  LET b == request[r].nonce IN
                        request'[r].on = b /\ Active(b) /\ bindings[turn[b].session] = b
                        /\ request[r].session = turn[b].session
    OBVIOUS
  <2> USE ConstantsAssumption DEF IInv, TypeOK, Request
  <2>1. CASE Body(r)
    <3> DEFINE b == bindings[request[r].session]
    <3>1. /\ request' = [request EXCEPT ![r].stage = "answered", ![r].status = "ok", ![r].on = b]
          /\ HasContext(r) /\ request[r].session \in Sessions
      BY <2>1 DEF Body, Answer
    <3>2. b \in Bindings /\ request[r].nonce = b /\ Active(b)
      BY <3>1 DEF HasContext
    <3>3. turn[b].session = request[r].session
      BY <3>1, <3>2 DEF MapMatches
    <3> QED
      BY <3>1, <3>2, <3>3
  <2>settles. CASE DispatchSettles(r)
    <3>1. /\ request' = [request EXCEPT ![r].stage = "answered", ![r].status = "ok"]
          /\ StillCurrent(r) /\ request[r].stage = "dispatching"
      BY <2>settles DEF DispatchSettles, Answer
    <3> QED
      BY <3>1 DEF StillCurrent, RequestsMatch
  <2>elsewhere. CASE \E q \in Requests : q # r /\ (Body(q) \/ DispatchSettles(q))
    BY <2>elsewhere DEF Body, DispatchSettles, Answer
  <2>receive. CASE \E q \in Requests, s \in Sessions, b \in Bindings, k \in Kinds : Receive(q, s, b, k)
    BY <2>receive DEF Receive
  <2>shutdown. CASE Shutdown
    BY <2>shutdown DEF Shutdown
  <2>same. CASE UNCHANGED request
    BY <2>same
  <2>stutter. CASE UNCHANGED vars
    BY <2>stutter DEF vars
  <2>turns. CASE \E b \in Bindings : Release(b) \/ TimerFires(b) \/ Expire(b) \/ Stop(b)
                                    \/ \E s \in Sessions : Bind(s, b)
    BY <2>same, <2>turns DEF Release, TimerFires, Expire, Stop, Bind
  <2>server. CASE Start \/ Listening \/ Close
    BY <2>same, <2>server DEF Start, Listening, Close
  <2> QED
    BY <2>1, <2>settles, <2>elsewhere, <2>receive, <2>shutdown, <2>stutter, <2>turns, <2>server DEF Next
<1> QED
  BY <1>1, Invariance, PTL DEF Safety, OnlyLiveTurnsAreServed

(* The end of a turn never unbinds another turn of its session.            *)
THEOREM ReleaseSafe == Safety => OnlyOwnReleaseUnbinds
<1> DEFINE Own == \A s \in Sessions : bindings[s] # None /\ bindings'[s] # bindings[s] =>
                    turn'[bindings[s]].aborted
<1>1. IInv /\ [Next]_vars => Own
  <2> SUFFICES ASSUME IInv, [Next]_vars, NEW s \in Sessions, bindings[s] # None, bindings'[s] # bindings[s]
               PROVE  turn'[bindings[s]].aborted
    OBVIOUS
  <2> USE ConstantsAssumption DEF IInv, TypeOK, Turn
  <2>1. bindings[s] \in Bindings
    OBVIOUS
  <2>2. CASE \E b \in Bindings : Release(b) \/ TimerFires(b)
    BY <2>1, <2>2 DEF Release, TimerFires
  <2>3. CASE Close
    BY <2>1, <2>3 DEF Close, Cancelled
  <2>4. CASE \E b \in Bindings, q \in Sessions : Bind(q, b)
    BY <2>4 DEF Bind
  <2>5. CASE UNCHANGED bindings
    BY <2>5
  <2>6. CASE \E b \in Bindings : Expire(b) \/ Stop(b)
    BY <2>5, <2>6 DEF Expire, Stop
  <2>7. CASE Start \/ Listening \/ Shutdown \/ UNCHANGED vars
    BY <2>5, <2>7 DEF Start, Listening, Shutdown, vars
  <2>8. CASE \E r \in Requests : Body(r) \/ DispatchSettles(r)
               \/ \E q \in Sessions, b \in Bindings, k \in Kinds : Receive(r, q, b, k)
    <3>1. UNCHANGED bindings
      <4> HIDE DEF IInv, TypeOK, Turn
      <4>1. ASSUME NEW r \in Requests, Body(r) \/ DispatchSettles(r)  PROVE UNCHANGED bindings
        BY <4>1 DEF Body, DispatchSettles
      <4>2. ASSUME NEW r \in Requests, NEW q \in Sessions, NEW b \in Bindings, NEW k \in Kinds, Receive(r, q, b, k)
            PROVE  UNCHANGED bindings
        BY <4>2 DEF Receive
      <4> QED  BY <2>8, <4>1, <4>2
    <3> QED  BY <2>5, <3>1
  <2> QED
    BY <2>2, <2>3, <2>4, <2>6, <2>7, <2>8 DEF Next
<1> QED
  BY <1>1, Invariance, PTL DEF Safety, OnlyOwnReleaseUnbinds
================================================================================
