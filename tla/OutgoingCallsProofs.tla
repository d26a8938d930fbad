-------------------------- MODULE OutgoingCallsProofs --------------------------
(***************************************************************************)
(* A call of a remote agent through the relay, whatever the agent and the  *)
(* transport do and for any number of events, and the cache of service     *)
(* tokens for any calls, keys, lifetimes and margins.                      *)
(*                                                                         *)
(* ExecutedOnce and CancelsWhenAborted say what the agent did and what the *)
(* relay knows.  Neither is inductive: RelayInv adds which task the message *)
(* names (MessageInv) and what each answer that is on its way says of the  *)
(* agent (WireInv), without which a retry could meet a running task.       *)
(***************************************************************************)
EXTENDS RelayCall, ServiceToken, FiniteSetTheorems, SequenceTheorems, TLAPS

--------------------------------------------------------------------------------
(* The relay.                                                              *)
USE NoTaskAssumption DEF Ids

(* What the relay has received and not dealt with, or will receive.        *)
On(e) == (call.pc = "got" /\ call.item = e) \/ \E k \in DOMAIN wire : wire[k] = e

(* The task that the message names.                                        *)
Current == IF req.resume /\ ~call.dropped THEN "old" ELSE "fresh"

(* The message is run once, on the task it names.                          *)
MessageInv ==
  /\ agent.inbox \in {NoTask, Current}
  /\ agent.inbox # NoTask => agent.executions = 0
  /\ agent.executions <= 1
  /\ \A i \in Ids : agent.task[i] = "running" => agent.executions = 1 /\ i = Current
  /\ agent.task["fresh"] \notin Stale
  /\ call.pc = "new" =>
       /\ agent.inbox = NoTask /\ agent.executions = 0 /\ agent.cancels = {}
       /\ wire = <<>> /\ call.task = NoTask /\ ~call.dropped

(* What an answer on its way says of the agent.                            *)
WireInv ==
  /\ ~On("unreadable") /\ (On("unsupported") => req.protocol = "1.0")
  /\ On("not found") \/ On("unsupported") =>
       agent.executions = 0 /\ agent.inbox = NoTask /\ req.resume /\ ~call.dropped
  /\ On("task") \/ call.task # NoTask => req.streaming /\ agent.executions = 1
  /\ call.task \in {NoTask, Current}
  /\ On("end") => agent.inbox = NoTask /\ \A i \in Ids : agent.task[i] # "running"

(* The task of a call that was aborted is cancelled, or it has ended.      *)
EndInv ==
  /\ agent.cancels # {} => watch.aborted
  /\ call.pc = "threw" =>
       /\ watch.aborted \/ call.item \in {"broken", "end"}
       /\ watch.aborted => \A i \in Ids :
            Known(i) => i \in agent.cancels \/ (agent.inbox = NoTask /\ agent.task[i] # "running")

RelayInv == RelayTypeOK /\ MessageInv /\ WireInv /\ EndInv

LEMMA RelayInitInv == RelayInit => RelayInv
<1> SUFFICES ASSUME RelayInit  PROVE RelayInv
  OBVIOUS
<1>1. PICK old \in {"paused"} \cup Stale :
        agent = [inbox |-> NoTask, task |-> [i \in Ids |-> IF i = "old" THEN old ELSE "none"],
                 executions |-> 0, sent |-> 0, cancels |-> {}]
  BY DEF RelayInit
<1>2. RelayTypeOK
  <2>1. agent \in RemoteAgent
    BY <1>1 DEF RemoteAgent, AgentTask
  <2>2. call \in Execution /\ call.pc \notin Ended /\ watch \in Watchdog /\ req \in RelayRequest /\ wire \in Seq(Items)
    BY DEF RelayInit, Execution, Watchdog, Items, Ended
  <2> QED  BY <2>1, <2>2 DEF RelayTypeOK
<1>3. MessageInv
  BY <1>1 DEF RelayInit, MessageInv, Current, Stale
<1>4. \A e : ~On(e)
  BY DEF RelayInit, On
<1>5. WireInv
  BY <1>4 DEF RelayInit, WireInv
<1>6. EndInv
  BY <1>1 DEF RelayInit, EndInv
<1> QED  BY <1>2, <1>3, <1>5, <1>6 DEF RelayInv

(* An answer is appended to the connection, or taken from it.              *)
LEMMA Appended ==
  ASSUME RelayTypeOK, NEW e \in Items, wire' = Append(wire, e), UNCHANGED call
  PROVE  wire' \in Seq(Items) /\ \A f : On(f)' => On(f) \/ f = e
BY AppendProperties DEF RelayTypeOK, On

LEMMA Taken ==
  ASSUME RelayTypeOK, Receive
  PROVE  /\ wire' \in Seq(Items) /\ Head(wire) \in Items
         /\ \A f : On(f)' => On(f)
<1>1. wire \in Seq(Items) /\ wire # <<>> /\ wire' = Tail(wire) /\ call' = [call EXCEPT !.pc = "got", !.item = Head(wire)]
  BY DEF Receive, RelayTypeOK
<1>2. wire' \in Seq(Items) /\ Head(wire) \in Items /\ Head(wire) = wire[1] /\ 1 \in DOMAIN wire
      /\ \A k \in DOMAIN wire' : k + 1 \in DOMAIN wire /\ wire'[k] = wire[k + 1]
  BY <1>1, HeadTailProperties
<1>3. call'.pc = "got" => call'.item = Head(wire)
  BY <1>1 DEF RelayTypeOK, Execution
<1> QED  BY <1>2, <1>3 DEF On

LEMMA CallInv == ASSUME RelayInv, Call PROVE RelayInv'
<1>1. /\ agent \in RemoteAgent /\ call \in Execution /\ req \in RelayRequest /\ wire \in Seq(Items)
      /\ UNCHANGED <<req, wire>>
  BY DEF RelayInv, RelayTypeOK, Call
<1>2. /\ agent' \in RemoteAgent /\ agent'.inbox = (IF req.resume THEN "old" ELSE "fresh") /\ agent'.task = agent.task
      /\ agent'.executions = agent.executions /\ agent'.cancels = agent.cancels
  BY <1>1 DEF Call, RemoteAgent
<1>3. call' \in Execution /\ call'.pc = "waiting" /\ call'.task = call.task /\ call'.dropped = call.dropped
  BY <1>1 DEF Call, Execution, Active
<1>4. watch' \in Watchdog
  BY <1>1 DEF Call, Watchdog, RelayRequest
<1>5. RelayTypeOK'
  BY <1>1, <1>2, <1>3, <1>4 DEF RelayTypeOK, Ended
<1>6. MessageInv'
  BY <1>1, <1>2, <1>3 DEF RelayInv, Call, MessageInv, Current
<1>7. \A e : ~On(e)'
  BY <1>1, <1>3 DEF On, Call, RelayInv, MessageInv
<1>8. WireInv'
  BY <1>1, <1>2, <1>3, <1>7 DEF RelayInv, Call, WireInv, MessageInv
<1>9. EndInv'
  BY <1>2, <1>3 DEF RelayInv, Call, MessageInv, EndInv
<1> QED  BY <1>5, <1>6, <1>8, <1>9 DEF RelayInv

LEMMA AbortInv == ASSUME RelayInv, Abort PROVE RelayInv'
<1>0. watch' \in Watchdog /\ watch'.aborted /\ (watch'.idle => watch.idle) /\ (watch'.deadline => watch.deadline)
      /\ (watch'.listening => watch.listening)
  BY DEF RelayInv, Abort, RelayTypeOK, Watchdog
<1>1. RelayTypeOK'
  BY <1>0 DEF RelayInv, Abort, RelayTypeOK
<1>2. MessageInv' /\ WireInv'
  BY DEF RelayInv, Abort, MessageInv, WireInv, Current, On
<1>3. call.pc # "threw"
  BY DEF RelayInv, RelayTypeOK, Abort, Ended
<1>4. EndInv'
  BY <1>0, <1>3 DEF RelayInv, Abort, EndInv
<1> QED  BY <1>1, <1>2, <1>4 DEF RelayInv

(* The three ways in which execute.ts disposes of the watchdog.            *)
LEMMA EndsInv ==
  ASSUME RelayInv, NEW how \in Ended, NEW cancels \in SUBSET Ids, End(how, cancels), UNCHANGED <<req, wire>>,
         call.pc \in Active, cancels # {} => watch.aborted,
         how = "threw" => watch.aborted \/ call.item \in {"broken", "end"},
         how = "threw" /\ watch.aborted => \A i \in Ids : Known(i) => i \in cancels \/ (agent.inbox = NoTask /\ agent.task[i] # "running")
  PROVE  RelayInv'
<1>1. /\ call' = [call EXCEPT !.pc = how] /\ watch' = Disposed /\ agent' = [agent EXCEPT !.cancels = @ \cup cancels]
  BY DEF End
<1>2. RelayTypeOK'
  <2>1. call' \in Execution
    BY <1>1 DEF RelayInv, RelayTypeOK, Execution
  <2>2. watch' \in Watchdog /\ ~(watch'.idle \/ watch'.deadline \/ watch'.listening)
    BY <1>1 DEF RelayInv, RelayTypeOK, Watchdog, Disposed
  <2>3. agent' \in RemoteAgent
    BY <1>1 DEF RelayInv, RelayTypeOK, RemoteAgent
  <2> QED  BY <2>1, <2>2, <2>3 DEF RelayInv, RelayTypeOK
<1>3. /\ call'.pc = how /\ call'.item = call.item /\ call'.dropped = call.dropped /\ call'.task = call.task
      /\ watch'.aborted = watch.aborted /\ agent'.cancels = agent.cancels \cup cancels
      /\ agent'.inbox = agent.inbox /\ agent'.task = agent.task /\ agent'.executions = agent.executions
  BY <1>1 DEF RelayInv, RelayTypeOK, Execution, Watchdog, RemoteAgent, Disposed
<1>4. \A e : On(e)' => On(e)
  BY <1>3 DEF On, Ended
<1>5. MessageInv'
  BY <1>3 DEF RelayInv, MessageInv, Current, Ended
<1>6. WireInv'
  BY <1>3, <1>4 DEF RelayInv, WireInv, Current
<1>7. EndInv'
  BY <1>3 DEF RelayInv, EndInv, Known
<1> QED  BY <1>2, <1>5, <1>6, <1>7 DEF RelayInv

(* What is cancelled is every task that the relay knows of.                *)
LEMMA ToCancelFact ==
  ASSUME RelayInv
  PROVE  ToCancel \in SUBSET Ids /\ \A i \in Ids : Known(i) => i \in ToCancel
BY DEF RelayInv, RelayTypeOK, Execution, WireInv, ToCancel, Known, Current

LEMMA ThrowAbortedInv == ASSUME RelayInv, ThrowAborted PROVE RelayInv'
BY ToCancelFact, EndsInv DEF ThrowAborted, Cancelled, Ended, Active

LEMMA FailInv == ASSUME RelayInv, Fail PROVE RelayInv'
<1>1. ~watch.aborted => call.item = "broken"
  <2>1. SUFFICES ASSUME ~watch.aborted, call.item # "broken"  PROVE FALSE
    OBVIOUS
  <2>2. On(call.item) /\ call.item \in {"not found", "unsupported", "unreadable"}
    BY <2>1 DEF Fail, Failures, On
  <2> QED  BY <2>1, <2>2 DEF Fail, MayRetry, IsStale, RelayInv, WireInv
<1> QED  BY <1>1, ToCancelFact, EndsInv DEF Fail, Cancelled, Ended, Active

LEMMA FinishInv == ASSUME RelayInv, Finish PROVE RelayInv'
<1>1. On("end") /\ call.item = "end"
  BY DEF Finish, On
<1> QED  BY <1>1, EndsInv DEF Finish, Ended, Active, RelayInv, WireInv

LEMMA ReceiveInv == ASSUME RelayInv, Receive PROVE RelayInv'
<1>1. wire' \in Seq(Items) /\ Head(wire) \in Items /\ \A f : On(f)' => On(f)
  BY Taken DEF RelayInv
<1>3. call' \in Execution /\ call'.pc = "got" /\ call'.dropped = call.dropped /\ call'.task = call.task
      /\ UNCHANGED <<req, watch, agent>>
  BY <1>1 DEF RelayInv, RelayTypeOK, Receive, Execution, Active
<1>2. RelayTypeOK'
  BY <1>1, <1>3 DEF RelayInv, RelayTypeOK, Ended
<1>4. MessageInv' /\ EndInv'
  BY <1>3 DEF RelayInv, MessageInv, Current, EndInv
<1>5. WireInv'
  BY <1>1, <1>3 DEF RelayInv, WireInv, Current
<1> QED  BY <1>2, <1>4, <1>5 DEF RelayInv

LEMMA RetryInv == ASSUME RelayInv, Retry PROVE RelayInv'
<1>1. On(call.item) /\ call.item \in {"not found", "unsupported"} /\ req.resume
  BY DEF Retry, MayRetry, IsStale, On
<1>2. agent.executions = 0 /\ call.task = NoTask
  <2>1. On("not found") \/ On("unsupported")
    BY <1>1 DEF On
  <2>2. agent.executions = 0
    BY <2>1 DEF RelayInv, WireInv
  <2>3. agent.executions # 1
    BY <2>2
  <2> QED  BY <2>2, <2>3 DEF RelayInv, WireInv
<1>3. /\ call'.pc = "waiting" /\ call'.dropped /\ call'.task = NoTask /\ wire' = <<>>
      /\ agent'.inbox = "fresh" /\ agent'.executions = 0 /\ agent'.task = agent.task /\ agent'.cancels = agent.cancels
      /\ watch'.aborted = watch.aborted /\ UNCHANGED req
  BY <1>2 DEF Retry, RelayInv, RelayTypeOK, Execution, Watchdog, RemoteAgent
<1>4. RelayTypeOK'
  <2>1. call' \in Execution /\ agent' \in RemoteAgent
    BY DEF Retry, RelayInv, RelayTypeOK, Execution, RemoteAgent, Active
  <2>2. watch' \in Watchdog
    BY DEF Retry, RelayInv, RelayTypeOK, Watchdog, RelayRequest, Touched
  <2> QED  BY <1>3, <2>1, <2>2 DEF RelayInv, RelayTypeOK, Ended
<1>5. MessageInv'
  BY <1>2, <1>3 DEF RelayInv, MessageInv, Current
<1>6. \A e : ~On(e)'
  BY <1>3 DEF On
<1>7. WireInv'
  BY <1>3, <1>6 DEF WireInv
<1>8. EndInv'
  BY <1>3 DEF RelayInv, EndInv
<1> QED  BY <1>4, <1>5, <1>7, <1>8 DEF RelayInv

LEMMA DrainInv == ASSUME RelayInv, Drain PROVE RelayInv'
<1>1. call.item = "task" => On("task")
  BY DEF Drain, On
<1>2. /\ call'.pc = "waiting" /\ call'.dropped = call.dropped
      /\ call'.task = (IF call.item = "task" THEN Current ELSE call.task)
      /\ watch'.aborted = watch.aborted /\ UNCHANGED <<req, wire, agent>>
  BY DEF Drain, RelayInv, RelayTypeOK, Execution, Watchdog, Current
<1>3. RelayTypeOK'
  <2>1. call' \in Execution
    BY DEF Drain, RelayInv, RelayTypeOK, Execution, Active
  <2>2. watch' \in Watchdog
    BY DEF Drain, RelayInv, RelayTypeOK, Watchdog, RelayRequest, Touched
  <2> QED  BY <1>2, <2>1, <2>2 DEF RelayInv, RelayTypeOK, Ended
<1>4. \A e : On(e)' => On(e)
  BY <1>2 DEF On
<1>5. MessageInv' /\ EndInv'
  BY <1>2 DEF RelayInv, MessageInv, EndInv, Current, Drain
<1>6. WireInv'
  BY <1>1, <1>2, <1>4 DEF RelayInv, WireInv, Current
<1> QED  BY <1>3, <1>5, <1>6 DEF RelayInv

LEMMA AcceptInv == ASSUME RelayInv, Accept PROVE RelayInv'
<1> DEFINE i == agent.inbox
           refusal == Refusal(IF agent.task[i] = "missing" THEN "not found" ELSE "unsupported")
<1>1. i = Current /\ i # NoTask /\ i \in Ids /\ agent.executions = 0 /\ UNCHANGED <<req, call, watch>> /\ call.pc # "new"
  BY DEF Accept, RelayInv, MessageInv, Current
<1>2. ~On("unreadable") /\ ~On("not found") /\ ~On("unsupported") /\ ~On("task") /\ ~On("end") /\ call.task = NoTask
  <2>1. agent.inbox # NoTask /\ agent.executions # 1
    BY <1>1
  <2> QED  BY <2>1 DEF RelayInv, WireInv
<1>3. CASE agent.task[i] \in Stale
  <2>1. agent' = [agent EXCEPT !.inbox = NoTask] /\ wire' = Append(wire, refusal)
    BY <1>3 DEF Accept
  <2>2. refusal \in {"not found", "unsupported"} /\ (refusal = "unsupported" => req.protocol = "1.0")
    BY DEF Refusal, ForLegacyClient, LegacyStreamErrorsAsSse, RelayInv, RelayTypeOK, RelayRequest
  <2>9. refusal \in Items
    BY <2>2 DEF Items, Failures
  <2> HIDE DEF refusal
  <2>3. wire' \in Seq(Items) /\ \A f : On(f)' => On(f) \/ f = refusal
    BY <1>1, <2>1, <2>9, Appended DEF RelayInv
  <2>4. RelayTypeOK'
    <3>1. agent' \in RemoteAgent
      BY <2>1 DEF RelayInv, RelayTypeOK, RemoteAgent
    <3> QED  BY <1>1, <2>3, <3>1 DEF RelayInv, RelayTypeOK
  <2>5. /\ agent'.inbox = NoTask /\ agent'.task = agent.task /\ agent'.executions = agent.executions
        /\ agent'.cancels = agent.cancels
    BY <2>1 DEF RelayInv, RelayTypeOK, RemoteAgent
  <2>6. i = "old" /\ req.resume /\ ~call.dropped
    BY <1>1, <1>3 DEF RelayInv, MessageInv, Current
  <2>7. MessageInv' /\ EndInv'
    BY <1>1, <2>5 DEF RelayInv, MessageInv, EndInv, Current, Known
  <2>8. WireInv'
    BY <1>1, <1>2, <2>2, <2>3, <2>5, <2>6 DEF RelayInv, WireInv, Current
  <2> QED  BY <2>4, <2>7, <2>8 DEF RelayInv
<1>4. CASE agent.task[i] \notin Stale
  <2>1. agent' = [agent EXCEPT !.inbox = NoTask, !.task[i] = "running", !.executions = @ + 1]
        /\ wire' = IF req.streaming THEN Append(wire, "task") ELSE wire
    BY <1>4 DEF Accept
  <2>2. wire' \in Seq(Items) /\ \A f : On(f)' => On(f) \/ (f = "task" /\ req.streaming)
    <3>1. CASE req.streaming
      <4>1. "task" \in Items
        BY DEF Items
      <4> QED  BY <1>1, <2>1, <3>1, <4>1, Appended DEF RelayInv
    <3>2. CASE ~req.streaming
      BY <1>1, <2>1, <3>2 DEF RelayInv, RelayTypeOK, On
    <3> QED  BY <3>1, <3>2
  <2>3. /\ agent'.inbox = NoTask /\ agent'.task = [agent.task EXCEPT ![i] = "running"]
        /\ agent'.executions = 1 /\ agent'.cancels = agent.cancels
    BY <1>1, <2>1 DEF RelayInv, RelayTypeOK, RemoteAgent
  <2>4. \A k \in Ids : agent'.task[k] = IF k = i THEN "running" ELSE agent.task[k]
    BY <1>1, <2>3 DEF RelayInv, RelayTypeOK, RemoteAgent
  <2>5. RelayTypeOK'
    <3>1. agent.task \in [Ids -> AgentTask] /\ "running" \in AgentTask
      BY DEF RelayInv, RelayTypeOK, RemoteAgent, AgentTask
    <3>2. [agent.task EXCEPT ![i] = "running"] \in [Ids -> AgentTask]
      BY <3>1
    <3>3. agent' = [agent EXCEPT !.inbox = NoTask, !.task = [agent.task EXCEPT ![i] = "running"], !.executions = 1]
      BY <1>1, <2>1
    <3>4. agent' \in RemoteAgent
      BY <3>2, <3>3 DEF RelayInv, RelayTypeOK, RemoteAgent
    <3> QED  BY <1>1, <2>2, <3>4 DEF RelayInv, RelayTypeOK
  <2>6. MessageInv'
    BY <1>1, <2>3, <2>4 DEF RelayInv, MessageInv, Current, Stale
  <2>7. EndInv'
    <3>1. \A k \in Ids : Known(k)' <=> Known(k)
      BY <1>1 DEF Known
    <3>2. ASSUME call.pc = "threw", watch.aborted, NEW k \in Ids, Known(k)  PROVE k \in agent.cancels
      BY <1>1, <3>2 DEF RelayInv, EndInv, Accept
    <3> QED  BY <1>1, <2>3, <3>1, <3>2 DEF RelayInv, EndInv
  <2>8. WireInv'
    <3>1. ~On("unreadable")' /\ ~On("not found")' /\ ~On("unsupported")' /\ ~On("end")'
      <4>1. ASSUME NEW f \in {"unreadable", "not found", "unsupported", "end"}, On(f)'  PROVE On(f)
        BY <2>2, <4>1
      <4> QED  BY <1>2, <4>1
    <3>2. On("task")' => req.streaming
      BY <1>2, <2>2
    <3> QED  BY <1>1, <1>2, <2>3, <3>1, <3>2 DEF WireInv
  <2> QED  BY <2>5, <2>6, <2>7, <2>8 DEF RelayInv
<1> QED  BY <1>3, <1>4

LEMMA ReportInv == ASSUME RelayInv, NEW i \in Ids, Report(i) PROVE RelayInv'
<1>1. wire' \in Seq(Items) /\ \A f : On(f)' => On(f) \/ f = "progress"
  <2>1. "progress" \in Items
    BY DEF Items
  <2> QED  BY <2>1, Appended DEF Report, RelayInv
<1>2. RelayTypeOK'
  <2>1. agent' \in RemoteAgent
    <3>1. agent \in RemoteAgent /\ agent.sent + 1 \in Nat /\ agent' = [agent EXCEPT !.sent = agent.sent + 1]
      BY DEF Report, RelayInv, RelayTypeOK, RemoteAgent
    <3> QED  BY <3>1 DEF RemoteAgent
  <2> QED  BY <1>1, <2>1 DEF Report, RelayInv, RelayTypeOK
<1>3. /\ agent'.inbox = agent.inbox /\ agent'.task = agent.task /\ agent'.executions = agent.executions
      /\ agent'.cancels = agent.cancels /\ UNCHANGED <<req, call, watch>>
  BY DEF Report, RelayInv, RelayTypeOK, RemoteAgent
<1>4. MessageInv' /\ EndInv'
  BY <1>3 DEF Report, RelayInv, MessageInv, EndInv, Current, Known
<1>5. WireInv'
  BY <1>1, <1>3 DEF RelayInv, WireInv, Current
<1> QED  BY <1>2, <1>4, <1>5 DEF RelayInv

LEMMA AnswerInv == ASSUME RelayInv, NEW i \in Ids, Answer(i) PROVE RelayInv'
<1>1. wire' \in Seq(Items) /\ \A f : On(f)' => On(f) \/ f = "end"
  <2>1. "end" \in Items
    BY DEF Items
  <2> QED  BY <2>1, Appended DEF Answer, RelayInv
<1> DEFINE how == IF i \in agent.cancels THEN "canceled" ELSE "ended"
<1>2. RelayTypeOK'
  <2>1. agent.task \in [Ids -> AgentTask] /\ how \in AgentTask
    BY DEF RelayInv, RelayTypeOK, RemoteAgent, AgentTask
  <2>2. [agent.task EXCEPT ![i] = how] \in [Ids -> AgentTask]
    BY <2>1
  <2>3. agent' \in RemoteAgent
    BY <2>2 DEF Answer, RelayInv, RelayTypeOK, RemoteAgent
  <2> QED  BY <1>1, <2>3 DEF Answer, RelayInv, RelayTypeOK
<1>3. /\ agent'.inbox = agent.inbox /\ agent'.executions = agent.executions
      /\ agent'.cancels = agent.cancels /\ UNCHANGED <<req, call, watch>>
      /\ \A k \in Ids : agent'.task[k] = IF k = i THEN how ELSE agent.task[k]
  BY DEF Answer, RelayInv, RelayTypeOK, RemoteAgent
<1>4. agent.executions = 1 /\ i = Current /\ agent.inbox = NoTask /\ how \notin {"running"} \cup Stale /\ call.pc # "new"
  BY DEF Answer, RelayInv, MessageInv, Stale
<1> HIDE DEF how
<1>5. MessageInv' /\ EndInv'
  BY <1>3, <1>4 DEF RelayInv, MessageInv, EndInv, Current, Known
<1>6. \A k \in Ids : agent'.task[k] # "running"
  BY <1>3, <1>4 DEF RelayInv, MessageInv
<1>7. WireInv'
  BY <1>1, <1>3, <1>4, <1>6 DEF RelayInv, WireInv, Current
<1> QED  BY <1>2, <1>5, <1>7 DEF RelayInv

LEMMA BreakInv == ASSUME RelayInv, Break PROVE RelayInv'
<1>1. wire' = <<"broken">> /\ UNCHANGED <<req, call, watch>> /\ call.pc \in Active
  BY DEF Break
<1>2. /\ agent'.inbox \in {agent.inbox, NoTask} /\ agent'.task = agent.task /\ agent'.executions = agent.executions
      /\ agent'.cancels = agent.cancels
  BY DEF Break, RelayInv, RelayTypeOK, RemoteAgent
<1>3. RelayTypeOK'
  <2>1. agent' \in RemoteAgent
    BY DEF Break, RelayInv, RelayTypeOK, RemoteAgent
  <2>2. wire' \in Seq(Items)
    BY <1>1 DEF Items, Failures
  <2> QED  BY <1>1, <2>1, <2>2 DEF RelayInv, RelayTypeOK
<1>4. \A e : On(e)' => On(e) \/ e = "broken"
  BY <1>1 DEF On
<1>5. MessageInv' /\ EndInv'
  BY <1>1, <1>2 DEF RelayInv, MessageInv, EndInv, Current, Known, Active
<1>6. WireInv'
  BY <1>1, <1>2, <1>4 DEF RelayInv, WireInv, Current
<1> QED  BY <1>3, <1>5, <1>6 DEF RelayInv

LEMMA RelayStep == RelayInv /\ [RelayNext]_relayVars => RelayInv'
<1> SUFFICES ASSUME RelayInv, [RelayNext]_relayVars  PROVE RelayInv'
  OBVIOUS
<1>1. CASE RelayNext
  BY <1>1, CallInv, AbortInv, ThrowAbortedInv, ReceiveInv, RetryInv, FailInv, DrainInv, FinishInv, AcceptInv, BreakInv,
     ReportInv, AnswerInv DEF RelayNext, Relay, Agent
<1>2. CASE UNCHANGED relayVars
  <2>1. UNCHANGED <<req, call, watch, wire, agent>>
    BY <1>2 DEF relayVars
  <2>2. RelayTypeOK' /\ MessageInv' /\ EndInv'
    BY <2>1 DEF RelayInv, RelayTypeOK, MessageInv, EndInv, Current, Known
  <2>3. WireInv'
    BY <2>1 DEF RelayInv, WireInv, Current, On
  <2> QED  BY <2>2, <2>3 DEF RelayInv
<1> QED  BY <1>1, <1>2

LEMMA RelayInvariance == RelaySpec => []RelayInv
<1> QED  BY RelayInitInv, RelayStep, PTL DEF RelaySpec, RelaySafety

(* An agent runs the message of a call at most once, although the relay    *)
(* sends it a second time when the task to resume is stale; a stale task   *)
(* is never what a call fails of; nothing is left armed.                   *)
THEOREM ExecutedOnceSafe == RelaySpec => []ExecutedOnce
<1>1. RelayInv => ExecutedOnce
  BY DEF RelayInv, MessageInv, EndInv, ExecutedOnce
<1> QED  BY <1>1, RelayInvariance, PTL

(* Whoever aborts the call, the agent is told to stop the task it runs if  *)
(* the relay knows it, and is told so of no call that was not aborted.     *)
THEOREM CancelsSafe == RelaySpec => []CancelsWhenAborted
<1>1. RelayInv => CancelsWhenAborted
  BY DEF RelayInv, EndInv, CancelsWhenAborted
<1> QED  BY <1>1, RelayInvariance, PTL

HIDE NoTaskAssumption DEF Ids

--------------------------------------------------------------------------------
(* The cache of service tokens.                                            *)
USE TokenAssumption

--------------------------------------------------------------------------------
(* The inductive invariant.  A request that was started and not cleared is *)
(* the pending one of its key, and nothing else is; so two requests of one *)
(* key cannot be under way.                                                *)
FlightInv ==
  \A c \in Calls :
    /\ flight[c].stage # "none" =>
         flight[c].key \in Keys /\ caller[c].stage # "new" /\ (~flight[c].cleared => pending[flight[c].key] = c)
    /\ flight[c].cleared => flight[c].stage \in {"ok", "failed"}

PendingInv ==
  \A k \in Keys : pending[k] # NoRequest =>
    flight[pending[k]].stage # "none" /\ ~flight[pending[k]].cleared /\ flight[pending[k]].key = k

TokensInv ==
  \A k \in Keys : tokens[k] # NoRequest => flight[tokens[k]].stage = "ok" /\ flight[tokens[k]].key = k

CallerInv ==
  \A c \in Calls : caller[c].stage # "new" =>
    /\ caller[c].key \in Keys /\ caller[c].on \in Calls
    /\ flight[caller[c].on].stage # "none" /\ flight[caller[c].on].key = caller[c].key

EndpointInv == endpoint # NoRequest => discovery[endpoint] \in {"pending", "known", "rejected"}

(* The clock does not pass the timeout of a request that was sent, a token *)
(* is refreshed before it expires, and it has not expired while its request *)
(* is pending or a call still waits for it.                                *)
ClockInv ==
  \A c \in Calls :
    /\ flight[c].stage = "sent" => now <= flight[c].sent + Delay
    /\ flight[c].stage = "ok" => flight[c].refreshAt <= flight[c].expires
    /\ flight[c].stage = "ok" /\ ~flight[c].cleared => now < flight[c].expires
    /\ caller[c].stage = "waiting" /\ flight[caller[c].on].stage = "ok" => now < flight[caller[c].on].expires

Links == FlightInv /\ PendingInv /\ TokensInv /\ CallerInv
IInv == TokenTypeOK /\ Links /\ EndpointInv /\ ClockInv

LEMMA InitInv == TokenInit => IInv
  BY DEF TokenInit, IInv, TokenTypeOK, Links, FlightInv, PendingInv, TokensInv, CallerInv, EndpointInv, ClockInv, Flight

(* The lifetime of a token covers the wait for it, and so does its margin. *)
LEMMA Lifetime ==
  ASSUME NEW ttl \in Ttls
  PROVE  /\ ttl \in Nat /\ RefreshAfter(ttl) \in Nat /\ Delay < ttl
         /\ RefreshAfter(ttl) + Delay <= ttl
<1>1. ttl \in Nat \ {0} /\ 2 * Delay <= ttl /\ Delay <= Margin /\ Delay \in Nat /\ Margin \in Nat
  OBVIOUS
<1>2. ttl \div 2 \in Nat /\ ttl \div 2 <= ttl /\ Delay <= ttl \div 2
  BY <1>1
<1> QED  BY <1>1, <1>2 DEF RefreshAfter

--------------------------------------------------------------------------------
(* Steps of the clock and of the discovery.                                *)

LEMMA TickInv == ASSUME IInv, Tick  PROVE IInv'
<1>1. UNCHANGED <<tokens, pending, endpoint, discovery, flight, caller>> /\ now' \in 0 .. MaxTime
  BY DEF Tick, IInv, TokenTypeOK
<1>2. ASSUME NEW c \in Calls, caller[c].stage = "waiting", flight[caller[c].on].stage = "ok"  PROVE FALSE
  <2>1. caller[c].on \in Calls
    BY <1>2 DEF IInv, Links, CallerInv
  <2>2. flight[caller[c].on].cleared
    BY <1>2, <2>1 DEF Tick, Quiet, Clears, IInv, TokenTypeOK, Flight
  <2> QED  BY <1>2, <2>2 DEF Tick, Quiet, Resumes
<1>7. \A c \in Calls : flight[c].stage = "ok" => flight[c].cleared
  BY DEF Tick, Quiet, Clears, IInv, TokenTypeOK, Flight
<1>3. \A c \in Calls : flight[c].stage = "sent" => now' <= flight[c].sent + Delay
  BY DEF Tick, IInv, TokenTypeOK, Flight
<1>4. TokenTypeOK'
  BY <1>1 DEF IInv, TokenTypeOK
<1>5. Links' /\ EndpointInv'
  BY <1>1 DEF IInv, Links, FlightInv, PendingInv, TokensInv, CallerInv, EndpointInv
<1>6. ClockInv'
  BY <1>1, <1>2, <1>3, <1>7 DEF IInv, ClockInv
<1> QED  BY <1>4, <1>5, <1>6 DEF IInv

LEMMA DiscoveryInv ==
  ASSUME IInv, NEW d \in Calls, Discovered(d) \/ DiscoveryFails(d) \/ Forget(d)
  PROVE  IInv'
<1>1. UNCHANGED <<now, tokens, pending, flight, caller>>
  BY DEF Discovered, DiscoveryFails, Forget
<1>2. PICK outcome \in {"known", "rejected", "forgotten"} :
        /\ discovery' = [discovery EXCEPT ![d] = outcome]
        /\ outcome = "forgotten" => endpoint' = NoRequest
        /\ outcome # "forgotten" => endpoint' = endpoint
  BY DEF Discovered, DiscoveryFails, Forget, EndpointAfterFailure
<1>3. TokenTypeOK'
  BY <1>1, <1>2 DEF IInv, TokenTypeOK
<1>4. EndpointInv'
  BY <1>2 DEF IInv, TokenTypeOK, EndpointInv
<1>5. Links' /\ ClockInv'
  BY <1>1 DEF IInv, Links, FlightInv, PendingInv, TokensInv, CallerInv, ClockInv
<1> QED  BY <1>3, <1>4, <1>5 DEF IInv

--------------------------------------------------------------------------------
(* Steps of a request.                                                     *)

(* A request goes on, under the same key and pending as before.            *)
LEMMA FlightStep ==
  ASSUME IInv, NEW c \in Calls, NEW f \in Flight, flight' = [flight EXCEPT ![c] = f],
         flight[c].stage \notin {"none", "ok"}, f.stage # "none",
         f.key = flight[c].key, ~f.cleared, ~flight[c].cleared,
         UNCHANGED <<now, tokens, pending, endpoint, discovery, caller>>,
         f.stage = "sent" => now <= f.sent + Delay,
         f.stage = "ok" => f.refreshAt <= f.expires /\ now < f.expires
  PROVE  IInv'
<1>1. \A x \in Calls : flight'[x] = IF x = c THEN f ELSE flight[x]
  BY DEF IInv, TokenTypeOK
<1>2. flight' \in [Calls -> Flight]
  BY DEF IInv, TokenTypeOK
<1>3. \A x \in Calls : flight'[x].key = flight[x].key
  BY <1>1
<1>4. TokenTypeOK'
  BY <1>2, <1>3 DEF IInv, TokenTypeOK, Links, CallerInv
<1>5. FlightInv' /\ PendingInv' /\ TokensInv' /\ CallerInv'
  BY <1>1 DEF IInv, TokenTypeOK, Links, FlightInv, PendingInv, TokensInv, CallerInv
<1>6. EndpointInv'
  BY DEF IInv, EndpointInv
<1>7. ClockInv'
  BY <1>1 DEF IInv, Links, CallerInv, ClockInv
<1> QED  BY <1>4, <1>5, <1>6, <1>7 DEF IInv, Links

LEMMA ContinueInv ==
  ASSUME IInv, NEW c \in Calls, Continue(c)
  PROVE  IInv'
<1> DEFINE f == IF discovery[flight[c].from] = "known" THEN [flight[c] EXCEPT !.stage = "sent", !.sent = now]
                                                      ELSE [flight[c] EXCEPT !.stage = "failed"]
<1>1. flight[c] \in Flight /\ now \in 0 .. MaxTime /\ flight \in [Calls -> Flight]
  BY DEF IInv, TokenTypeOK
<1>2. flight[c].stage = "endpoint"
  BY DEF Continue, Continues
<1>3. ~flight[c].cleared
  BY <1>2 DEF IInv, Links, FlightInv
<1>4. f \in Flight /\ f.stage \in {"sent", "failed"} /\ f.key = flight[c].key /\ f.cleared = flight[c].cleared
      /\ (f.stage = "sent" => f.sent = now)
  BY <1>1 DEF Flight
<1>5. flight' = [flight EXCEPT ![c] = f]
  BY <1>1 DEF Continue, Flight
<1>6. UNCHANGED <<now, tokens, pending, endpoint, discovery, caller>>
  BY DEF Continue
<1>7. f.stage = "sent" => now <= f.sent + Delay
  BY <1>1, <1>4
<1> HIDE DEF f
<1> QED  BY <1>1, <1>2, <1>3, <1>4, <1>5, <1>6, <1>7, FlightStep

LEMMA GrantedInv ==
  ASSUME IInv, NEW c \in Calls, NEW ttl \in Ttls, Granted(c, ttl)
  PROVE  IInv'
<1> DEFINE f == [flight[c] EXCEPT !.stage = "ok", !.refreshAt = now + RefreshAfter(ttl),
                                  !.expires = flight[c].sent + ttl]
<1>1. flight[c] \in Flight /\ now \in 0 .. MaxTime /\ flight \in [Calls -> Flight]
  BY DEF IInv, TokenTypeOK
<1>2. flight[c].stage = "sent"
  BY DEF Granted
<1>3. ~flight[c].cleared /\ now <= flight[c].sent + Delay
  BY <1>2 DEF IInv, Links, FlightInv, ClockInv
<1>4. flight[c].sent \in Nat /\ now \in Nat
  BY <1>1 DEF Flight
<1>5. f \in Flight /\ f.stage = "ok" /\ f.key = flight[c].key /\ f.cleared = flight[c].cleared
      /\ f.refreshAt = now + RefreshAfter(ttl) /\ f.expires = flight[c].sent + ttl
  <2>1. now + RefreshAfter(ttl) \in Nat /\ flight[c].sent + ttl \in Nat
    BY <1>4, Lifetime
  <2> QED  BY <1>1, <2>1 DEF Flight
<1>6. f.refreshAt <= f.expires /\ now < f.expires
  BY <1>3, <1>4, <1>5, Lifetime
<1>7. flight' = [flight EXCEPT ![c] = f]
  BY <1>1 DEF Granted, Flight
<1>8. UNCHANGED <<now, tokens, pending, endpoint, discovery, caller>>
  BY DEF Granted
<1> HIDE DEF f
<1> QED  BY <1>1, <1>2, <1>3, <1>5, <1>6, <1>7, <1>8, FlightStep

LEMMA DeniedInv ==
  ASSUME IInv, NEW c \in Calls, Denied(c)
  PROVE  IInv'
<1> DEFINE f == [flight[c] EXCEPT !.stage = "failed"]
<1>1. flight[c] \in Flight /\ flight \in [Calls -> Flight]
  BY DEF IInv, TokenTypeOK
<1>2. flight[c].stage = "sent"
  BY DEF Denied
<1>3. ~flight[c].cleared
  BY <1>2 DEF IInv, Links, FlightInv
<1>4. f \in Flight /\ f.stage = "failed" /\ f.key = flight[c].key /\ f.cleared = flight[c].cleared
  BY <1>1 DEF Flight
<1>5. flight' = [flight EXCEPT ![c] = f]
  BY <1>1 DEF Denied, Flight
<1>6. UNCHANGED <<now, tokens, pending, endpoint, discovery, caller>>
  BY DEF Denied
<1> HIDE DEF f
<1> QED  BY <1>2, <1>3, <1>4, <1>5, <1>6, FlightStep

(* finally(): the request is pending no more.                              *)
LEMMA ClearInv ==
  ASSUME IInv, NEW c \in Calls, Clear(c)
  PROVE  IInv'
<1> DEFINE f == [flight[c] EXCEPT !.cleared = TRUE]
           key == flight[c].key
<1>1. flight[c] \in Flight /\ flight \in [Calls -> Flight] /\ pending \in [Keys -> Calls \cup {NoRequest}]
  BY DEF IInv, TokenTypeOK
<1>2. flight[c].stage \in {"ok", "failed"} /\ ~flight[c].cleared
  BY <1>1 DEF Clear, Clears, Flight
<1>3. key \in Keys /\ pending[key] = c
  BY <1>2 DEF IInv, Links, FlightInv
<1>4. f \in Flight /\ f.cleared /\ f.stage = flight[c].stage /\ f.key = key
      /\ f.sent = flight[c].sent /\ f.refreshAt = flight[c].refreshAt /\ f.expires = flight[c].expires
  BY <1>1 DEF Flight
<1>5. flight' = [flight EXCEPT ![c] = f]
  BY <1>1 DEF Clear, Flight
<1>6. pending' = [pending EXCEPT ![key] = NoRequest] /\ UNCHANGED <<now, tokens, endpoint, discovery, caller>>
  BY DEF Clear
<1> HIDE DEF f
<1>7. \A x \in Calls : flight'[x] = IF x = c THEN f ELSE flight[x]
  BY <1>1, <1>5
<1>8. \A k \in Keys : pending'[k] = IF k = key THEN NoRequest ELSE pending[k]
  BY <1>1, <1>6
<1>9. TokenTypeOK'
  <2>1. flight' \in [Calls -> Flight] /\ pending' \in [Keys -> Calls \cup {NoRequest}]
    BY <1>1, <1>4, <1>5, <1>6
  <2>2. \A x \in Calls : flight'[x].key = flight[x].key
    BY <1>4, <1>7
  <2> QED  BY <1>6, <2>1, <2>2 DEF IInv, TokenTypeOK, Links, CallerInv
<1>10. FlightInv'
  <2> SUFFICES ASSUME NEW x \in Calls  PROVE FlightInv!(x)'
    BY DEF FlightInv
  <2>1. CASE x = c
    BY <1>2, <1>3, <1>4, <1>6, <1>7, <2>1 DEF IInv, Links, FlightInv
  <2>2. CASE x # c
    BY <1>3, <1>6, <1>7, <1>8, <2>2 DEF IInv, Links, FlightInv
  <2> QED  BY <2>1, <2>2
<1>11. PendingInv'
  BY <1>3, <1>7, <1>8 DEF IInv, TokenTypeOK, Links, PendingInv
<1>12. TokensInv' /\ CallerInv'
  BY <1>4, <1>6, <1>7 DEF IInv, TokenTypeOK, Links, TokensInv, CallerInv
<1>13. EndpointInv'
  BY <1>6 DEF IInv, EndpointInv
<1>14. ClockInv'
  BY <1>4, <1>6, <1>7 DEF IInv, Links, CallerInv, ClockInv
<1> QED  BY <1>9, <1>10, <1>11, <1>12, <1>13, <1>14 DEF IInv, Links

--------------------------------------------------------------------------------
(* Steps of a call.                                                        *)

(* A call that goes on, or ends, on a request of its key.                  *)
LEMMA CallerStep ==
  ASSUME IInv, NEW c \in Calls, NEW k \in Keys, NEW r \in Calls, NEW stage \in {"waiting", "done", "failed"},
         caller' = [caller EXCEPT ![c] = [stage |-> stage, key |-> k, on |-> r]],
         flight[r].stage # "none", flight[r].key = k,
         tokens' \in [Keys -> Calls \cup {NoRequest}], TokensInv',
         UNCHANGED <<now, pending, endpoint, discovery, flight>>,
         stage = "waiting" /\ flight[r].stage = "ok" => now < flight[r].expires
  PROVE  IInv'
<1>1. \A x \in Calls : caller'[x] = IF x = c THEN [stage |-> stage, key |-> k, on |-> r] ELSE caller[x]
  BY DEF IInv, TokenTypeOK
<1>2. TokenTypeOK'
  BY <1>1 DEF IInv, TokenTypeOK
<1>3. FlightInv' /\ PendingInv' /\ CallerInv'
  BY <1>1 DEF IInv, Links, FlightInv, PendingInv, CallerInv
<1>4. EndpointInv' /\ ClockInv'
  BY <1>1 DEF IInv, EndpointInv, ClockInv
<1> QED  BY <1>2, <1>3, <1>4 DEF IInv, Links

LEMMA CachedInv ==
  ASSUME IInv, NEW c \in Calls, NEW k \in Keys, Cached(c, k)
  PROVE  IInv'
<1>1. tokens[k] \in Calls /\ flight[tokens[k]].stage = "ok" /\ flight[tokens[k]].key = k
  BY DEF Cached, Fresh, IInv, TokenTypeOK, Links, TokensInv
<1>2. caller' = [caller EXCEPT ![c] = [stage |-> "done", key |-> k, on |-> tokens[k]]]
      /\ UNCHANGED <<now, tokens, pending, endpoint, discovery, flight>>
  BY DEF Cached
<1>3. tokens' \in [Keys -> Calls \cup {NoRequest}] /\ TokensInv'
  BY <1>2 DEF IInv, TokenTypeOK, Links, TokensInv
<1> QED  BY <1>1, <1>2, <1>3, CallerStep

LEMMA ResumeInv ==
  ASSUME IInv, NEW c \in Calls, Resume(c)
  PROVE  IInv'
<1> DEFINE k == caller[c].key
           r == caller[c].on
           won == flight[r].stage = "ok"
           stage == IF won THEN "done" ELSE "failed"
<1>1. caller[c].stage = "waiting" /\ flight[r].cleared
  BY DEF Resume, Resumes
<1>2. k \in Keys /\ r \in Calls /\ flight[r].stage # "none" /\ flight[r].key = k
  BY <1>1 DEF IInv, Links, CallerInv
<1>3. tokens' = IF won THEN [tokens EXCEPT ![k] = r] ELSE tokens
  BY DEF Resume
<1>4. caller' = [caller EXCEPT ![c] = [stage |-> stage, key |-> k, on |-> r]]
      /\ UNCHANGED <<now, pending, endpoint, discovery, flight>>
  <2>1. caller[c] \in [stage : {"new", "waiting", "done", "failed"}, key : Keys \cup {NoRequest},
                       on : Calls \cup {NoRequest}]
    BY DEF IInv, TokenTypeOK
  <2>2. [caller[c] EXCEPT !.stage = stage] = [stage |-> stage, key |-> k, on |-> r]
    BY <2>1
  <2>3. caller' = [caller EXCEPT ![c] = [caller[c] EXCEPT !.stage = stage]]
    BY DEF Resume
  <2> QED  BY <2>2, <2>3 DEF Resume
<1>5. tokens' \in [Keys -> Calls \cup {NoRequest}] /\ TokensInv'
  BY <1>2, <1>3, <1>4 DEF IInv, TokenTypeOK, Links, TokensInv
<1> QED  BY <1>2, <1>4, <1>5, CallerStep

LEMMA JoinInv ==
  ASSUME IInv, NEW c \in Calls, NEW k \in Keys, Join(c, k)
  PROVE  IInv'
<1> DEFINE r == pending[k]
<1>1. r \in Calls /\ flight[r].stage # "none" /\ ~flight[r].cleared /\ flight[r].key = k
  BY DEF Join, Joins, IInv, TokenTypeOK, Links, PendingInv
<1>2. caller' = [caller EXCEPT ![c] = [stage |-> "waiting", key |-> k, on |-> r]]
      /\ UNCHANGED <<now, tokens, pending, endpoint, discovery, flight>>
  BY DEF Join, Joins
<1>3. tokens' \in [Keys -> Calls \cup {NoRequest}] /\ TokensInv'
  BY <1>2 DEF IInv, TokenTypeOK, Links, TokensInv
<1>4. flight[r].stage = "ok" => now < flight[r].expires
  BY <1>1 DEF IInv, ClockInv
<1> QED  BY <1>1, <1>2, <1>3, <1>4, CallerStep

(* A call that starts a request: none of its key is pending.               *)
LEMMA AskInv ==
  ASSUME IInv, NEW c \in Calls, NEW k \in Keys, Ask(c, k)
  PROVE  IInv'
<1> DEFINE f == [flight[c] EXCEPT !.stage = "endpoint", !.key = k, !.from = endpoint']
<1>1. flight[c] \in Flight /\ flight \in [Calls -> Flight] /\ pending \in [Keys -> Calls \cup {NoRequest}]
  BY DEF IInv, TokenTypeOK
<1>2. caller[c].stage = "new" /\ pending[k] = NoRequest /\ UNCHANGED <<now, tokens>>
  BY DEF Ask, Joins
<1>3. flight[c].stage = "none" /\ ~flight[c].cleared
  BY <1>1, <1>2 DEF IInv, Links, FlightInv
<1>4. \A j \in Keys : pending[j] # c /\ tokens[j] # c
  BY <1>3 DEF IInv, Links, PendingInv, TokensInv
<1>5. \A x \in Calls : caller[x].stage # "new" => caller[x].on # c
  BY <1>3 DEF IInv, Links, CallerInv
<1>6. endpoint' \in Calls /\ discovery' \in [Calls -> {"none", "pending", "known", "rejected", "forgotten"}]
      /\ EndpointInv'
  BY DEF Ask, IInv, TokenTypeOK, EndpointInv
<1>7. f \in Flight /\ f.stage = "endpoint" /\ f.key = k /\ ~f.cleared
  BY <1>1, <1>3, <1>6 DEF Flight
<1>8. flight' = [flight EXCEPT ![c] = f]
  BY <1>1 DEF Ask, Flight
<1> HIDE DEF f
<1>9. \A x \in Calls : flight'[x] = IF x = c THEN f ELSE flight[x]
  BY <1>1, <1>8
<1>10. \A j \in Keys : pending'[j] = IF j = k THEN c ELSE pending[j]
  BY <1>1 DEF Ask
<1>11. \A x \in Calls : caller'[x] = IF x = c THEN [stage |-> "waiting", key |-> k, on |-> c] ELSE caller[x]
  BY DEF Ask, IInv, TokenTypeOK
<1>12. TokenTypeOK'
  <2>1. flight' \in [Calls -> Flight]
    BY <1>1, <1>7, <1>8
  <2>4. pending' \in [Keys -> Calls \cup {NoRequest}]
    BY <1>1 DEF Ask
  <2>2. caller' \in [Calls -> [stage : {"new", "waiting", "done", "failed"}, key : Keys \cup {NoRequest},
                               on : Calls \cup {NoRequest}]]
    BY DEF Ask, IInv, TokenTypeOK
  <2>3. \A x \in Calls : caller'[x].stage # "new" => flight'[caller'[x].on].key = caller'[x].key
    BY <1>5, <1>7, <1>9, <1>11 DEF IInv, Links, CallerInv
  <2> QED  BY <1>2, <1>6, <2>1, <2>2, <2>3, <2>4 DEF IInv, TokenTypeOK
<1>13. FlightInv'
  BY <1>2, <1>7, <1>9, <1>10, <1>11 DEF IInv, Links, FlightInv
<1>14. PendingInv'
  BY <1>4, <1>7, <1>9, <1>10 DEF IInv, TokenTypeOK, Links, PendingInv
<1>15. TokensInv' /\ CallerInv'
  BY <1>2, <1>4, <1>5, <1>7, <1>9, <1>11 DEF IInv, TokenTypeOK, Links, TokensInv, CallerInv
<1>16. ClockInv'
  BY <1>2, <1>5, <1>7, <1>9, <1>11 DEF IInv, Links, CallerInv, ClockInv
<1> QED  BY <1>6, <1>12, <1>13, <1>14, <1>15, <1>16 DEF IInv, Links

--------------------------------------------------------------------------------

LEMMA NextInv == IInv /\ [TokenNext]_tokenVars => IInv'
<1> SUFFICES ASSUME IInv, [TokenNext]_tokenVars  PROVE IInv'
  OBVIOUS
<1>1. CASE TokenNext
  BY <1>1, TickInv, DiscoveryInv, ContinueInv, GrantedInv, DeniedInv, ClearInv, ResumeInv, CachedInv, JoinInv, AskInv
     DEF TokenNext
<1>2. CASE UNCHANGED tokenVars
  BY <1>2 DEF tokenVars, IInv, TokenTypeOK, Links, FlightInv, PendingInv, TokensInv, CallerInv, EndpointInv, ClockInv
<1> QED  BY <1>1, <1>2

LEMMA Invariance == TokenSpec => []IInv
<1> QED  BY InitInv, NextInv, PTL DEF TokenSpec

(* Parallel calls share one request per key and one discovery, every call  *)
(* waits for a request of its own key, and a failure is forgotten once its *)
(* reactions ran.                                                          *)
THEOREM RequestsShared == TokenSpec => []RequestsAreShared
<1>1. IInv => TokenTypeOK
  BY DEF IInv
<1>2. ASSUME IInv  PROVE OneRequest
  <2> SUFFICES ASSUME NEW k \in Keys
               PROVE  Cardinality({c \in Calls : flight[c].key = k /\ flight[c].stage \in {"endpoint", "sent"}}) <= 1
    BY DEF OneRequest
  <2> DEFINE asking == {c \in Calls : flight[c].key = k /\ flight[c].stage \in {"endpoint", "sent"}}
  <2>1. \A c \in asking : c = pending[k]
    BY <1>2 DEF IInv, Links, FlightInv
  <2>2. Cardinality({}) = 0 /\ Cardinality({pending[k]}) = 1
    BY FS_EmptySet, FS_Singleton
  <2>3. asking = {} \/ asking = {pending[k]}
    BY <2>1
  <2> HIDE DEF asking
  <2>4. Cardinality(asking) <= 1
    BY <2>2, <2>3
  <2> QED  BY <2>4 DEF asking
<1>3. ASSUME IInv, Quiet  PROVE NoFailureRemembered
  <2>1. endpoint # NoRequest => discovery[endpoint] \in {"pending", "known"}
    BY <1>3 DEF IInv, TokenTypeOK, EndpointInv, Quiet, Rejected
  <2>2. ASSUME NEW k \in Keys, pending[k] # NoRequest  PROVE flight[pending[k]].stage \in {"endpoint", "sent"}
    <3>1. pending[k] \in Calls /\ flight[pending[k]].stage # "none" /\ ~flight[pending[k]].cleared
      BY <1>3, <2>2 DEF IInv, TokenTypeOK, Links, PendingInv
    <3> QED  BY <1>3, <3>1 DEF Quiet, Clears, IInv, TokenTypeOK, Flight
  <2> QED  BY <2>1, <2>2 DEF NoFailureRemembered
<1>4. IInv => RequestsAreShared
  BY <1>1, <1>2, <1>3 DEF RequestsAreShared, NoFailureRemembered
<1> QED  BY <1>4, Invariance, PTL

GivenFresh == \A c \in Calls : caller[c].stage # "done" /\ caller'[c].stage = "done" =>
                now < flight[caller'[c].on].expires

(* A call ends with a token at a time when the token is still valid.       *)
LEMMA StepFresh == IInv /\ [TokenNext]_tokenVars => [GivenFresh]_tokenVars
<1> SUFFICES ASSUME IInv, TokenNext, NEW c \in Calls, caller[c].stage # "done", caller'[c].stage = "done"
             PROVE  now < flight[caller'[c].on].expires
  BY DEF GivenFresh
<1>1. caller \in [Calls -> [stage : {"new", "waiting", "done", "failed"}, key : Keys \cup {NoRequest},
                           on : Calls \cup {NoRequest}]]
  BY DEF IInv, TokenTypeOK
<1>2. ASSUME NEW k \in Keys, Cached(c, k)  PROVE now < flight[caller'[c].on].expires
  <2>1. caller'[c].on = tokens[k]
    BY <1>1, <1>2 DEF Cached
  <2>2. tokens[k] \in Calls /\ flight[tokens[k]].stage = "ok" /\ now < flight[tokens[k]].refreshAt
    BY <1>2 DEF Cached, Fresh, IInv, TokenTypeOK, Links, TokensInv
  <2>3. flight[tokens[k]].refreshAt <= flight[tokens[k]].expires
    BY <2>2 DEF IInv, ClockInv
  <2>4. flight[tokens[k]] \in Flight /\ now \in 0 .. MaxTime
    BY <2>2 DEF IInv, TokenTypeOK
  <2>5. now \in Nat /\ flight[tokens[k]].refreshAt \in Nat /\ flight[tokens[k]].expires \in Nat
    BY <2>4 DEF Flight
  <2> QED  BY <2>1, <2>2, <2>3, <2>5
<1>3. ASSUME Resume(c)  PROVE now < flight[caller'[c].on].expires
  <2>1. caller'[c].on = caller[c].on /\ caller'[c].stage = IF flight[caller[c].on].stage = "ok" THEN "done" ELSE "failed"
    BY <1>1, <1>3 DEF Resume
  <2>2. caller[c].stage = "waiting" /\ flight[caller[c].on].stage = "ok"
    BY <1>3, <2>1 DEF Resume, Resumes
  <2> QED  BY <2>1, <2>2 DEF IInv, ClockInv
<1>4. (\E k \in Keys : Cached(c, k)) \/ Resume(c)
  <2>1. PICK d \in Calls : Resume(d) \/ \E k \in Keys : Cached(d, k) \/ Join(d, k) \/ Ask(d, k)
    BY DEF TokenNext, Tick, Discovered, DiscoveryFails, Forget, Continue, Granted, Denied, Clear
  <2>2. d = c
    BY <1>1, <2>1 DEF Resume, Cached, Join, Ask
  <2>3. ASSUME NEW k \in Keys, Join(c, k) \/ Ask(c, k)  PROVE FALSE
    BY <1>1, <2>3 DEF Join, Ask
  <2> QED  BY <2>1, <2>2, <2>3
<1> QED  BY <1>2, <1>3, <1>4

(* No call is given a token that has expired, for any lifetimes that       *)
(* outlive twice the timeout of a request.                                 *)
THEOREM NeverExpiredSafe == TokenSpec => NeverExpired
<1>1. TokenSpec => [][GivenFresh]_tokenVars
  BY StepFresh, Invariance, PTL DEF TokenSpec
<1>2. [GivenFresh]_tokenVars =>
        [\A c \in Calls : caller[c].stage # "done" /\ caller'[c].stage = "done" =>
           now < flight[caller'[c].on].expires]_tokenVars
  BY DEF GivenFresh
<1> QED  BY <1>1, <1>2, PTL DEF NeverExpired
================================================================================
