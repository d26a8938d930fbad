------------------------------- MODULE RelayCall -------------------------------
(***************************************************************************)
(* One call of a remote agent through the relay (packages/ts-host/src/     *)
(* relay/execute.ts): executeRemoteA2a (blocking) and                      *)
(* executeRemoteA2aStreaming, the retry without the task to resume when    *)
(* that task is stale, and RelayWatchdog, which aborts the call by the     *)
(* signal of the turn, by a deadline or after too long a silence.          *)
(*                                                                         *)
(* External: the agent and the transport.  The message resumes task "old"  *)
(* or opens task "fresh"; an agent accepts it once, or refuses it when the *)
(* task is stale; the connection delivers in order and may break.  An      *)
(* orchestrator still on the protocol 0.3 knows a stale task by its code   *)
(* alone, and the agent on this host answers it so (request-handler.ts,    *)
(* legacy-stream-errors.ts).  Replies by a bare message instead of a task  *)
(* are left out.                                                           *)
(***************************************************************************)
EXTENDS Naturals, Sequences

CONSTANTS NoTask, MaxEvents    \* a bound: what the agent sends before it finishes

VARIABLES
  req,     (* the request: streaming or not, resuming or not, what limits it         *)
  call,    (* the execute function: where it is, what it holds, what it has learned   *)
  watch,   (* RelayWatchdog: why it aborted, and what is armed                        *)
  wire,    (* what the transport has for the relay                                    *)
  agent    (* the agent: its tasks, how often it ran the message, what it was asked   *)

relayVars == <<req, call, watch, wire, agent>>

Ids == {"old", "fresh"}
Active == {"waiting", "got"}
Ended == {"returned", "threw"}
Stale == {"missing", "terminal"}
Failures == {"not found", "unsupported", "unreadable", "broken"}
Items == {"none", "task", "progress", "end"} \cup Failures

ASSUME NoTaskAssumption == NoTask \notin Ids

RelayRequest == [protocol : {"0.3", "1.0"}, streaming : BOOLEAN, resume : BOOLEAN, idle : BOOLEAN, deadline : BOOLEAN]
Execution == [pc : {"new"} \cup Active \cup Ended, item : Items, dropped : BOOLEAN, task : Ids \cup {NoTask}]
Watchdog == [aborted : BOOLEAN, idle : BOOLEAN, deadline : BOOLEAN, listening : BOOLEAN]
AgentTask == {"none", "paused", "running", "ended", "canceled"} \cup Stale
RemoteAgent == [inbox : Ids \cup {NoTask}, task : [Ids -> AgentTask], executions : Nat, sent : Nat, cancels : SUBSET Ids]

RelayTypeOK ==
  /\ req \in RelayRequest /\ call \in Execution /\ watch \in Watchdog
  /\ wire \in Seq(Items) /\ agent \in RemoteAgent
  /\ call.pc \in Ended => ~(watch.idle \/ watch.deadline \/ watch.listening)

RelayInit ==
  /\ req \in RelayRequest
  /\ call = [pc |-> "new", item |-> "none", dropped |-> FALSE, task |-> NoTask]
  /\ watch = [aborted |-> FALSE, idle |-> FALSE, deadline |-> FALSE, listening |-> FALSE]
  /\ wire = <<>>
  /\ \E old \in {"paused"} \cup Stale :
       agent = [inbox |-> NoTask, task |-> [i \in Ids |-> IF i = "old" THEN old ELSE "none"],
                executions |-> 0, sent |-> 0, cancels |-> {}]

--------------------------------------------------------------------------------
(* RelayWatchdog.                                                          *)

(* Mutant: an event clears the idle timer and does not arm it again.       *)
Cleared == FALSE

Touched == req.idle /\ ~watch.aborted

Disposed == [watch EXCEPT !.idle = FALSE, !.deadline = FALSE, !.listening = FALSE]

(* The signal of the turn, the deadline or the idle timer.                 *)
Abort ==
  /\ call.pc # "new" /\ ~watch.aborted
  /\ \/ watch.listening /\ watch' = [watch EXCEPT !.aborted = TRUE]
     \/ watch.deadline /\ watch' = [watch EXCEPT !.aborted = TRUE, !.deadline = FALSE]
     \/ watch.idle /\ watch' = [watch EXCEPT !.aborted = TRUE, !.idle = FALSE]
  /\ UNCHANGED <<req, call, wire, agent>>

--------------------------------------------------------------------------------
(* The relay.                                                              *)

Call ==
  /\ call.pc = "new"
  /\ call' = [call EXCEPT !.pc = "waiting"]
  /\ watch' = [aborted |-> FALSE, idle |-> req.idle /\ req.streaming, deadline |-> req.deadline, listening |-> TRUE]
  /\ agent' = [agent EXCEPT !.inbox = IF req.resume THEN "old" ELSE "fresh"]
  /\ UNCHANGED <<req, wire>>

(* Mutant: only the task to resume is ever cancelled.                      *)
OnlyResumed == IF req.resume /\ ~call.dropped THEN {"old"} ELSE {}

(* The task to cancel when the call is aborted: the one the stream named, or *)
(* the one that was resumed, unless it proved stale.                       *)
ToCancel ==
  IF req.streaming /\ call.task # NoTask THEN {call.task}
  ELSE IF req.resume /\ ~call.dropped THEN {"old"} ELSE {}

Cancelled == IF watch.aborted THEN ToCancel ELSE {}

End(how, cancels) ==
  /\ call' = [call EXCEPT !.pc = how]
  /\ watch' = Disposed
  /\ agent' = [agent EXCEPT !.cancels = @ \cup cancels]

(* The signal wins the race of abortable().                                *)
ThrowAborted ==
  /\ call.pc = "waiting" /\ watch.aborted
  /\ End("threw", Cancelled)
  /\ UNCHANGED <<req, wire>>

(* The transport wins the race; the signal may fire before the continuation. *)
Receive ==
  /\ call.pc = "waiting" /\ ~watch.aborted /\ wire # <<>>
  /\ call' = [call EXCEPT !.pc = "got", !.item = Head(wire)]
  /\ wire' = Tail(wire)
  /\ UNCHANGED <<req, watch, agent>>

(* Mutant: any failure is taken for a stale task.                          *)
AnyFailure == TRUE

(* A client of 0.3 loses the text of the second.                           *)
IsStale == call.item = "not found" \/ (call.item = "unsupported" /\ req.protocol = "1.0")

MayRetry == IsStale /\ req.resume /\ ~call.dropped /\ ~watch.aborted

(* A stale task: the same message without it.                              *)
Retry ==
  /\ call.pc = "got" /\ call.item \in Failures /\ MayRetry
  /\ call' = [call EXCEPT !.pc = "waiting", !.dropped = TRUE]
  /\ watch' = [watch EXCEPT !.idle = req.streaming /\ Touched]
  /\ agent' = [agent EXCEPT !.inbox = "fresh"]
  /\ wire' = <<>>
  /\ UNCHANGED req

Fail ==
  /\ call.pc = "got" /\ call.item \in Failures /\ ~MayRetry
  /\ End("threw", Cancelled)
  /\ UNCHANGED <<req, wire>>

(* drainStream(): one event of the stream; TaskExchange has its content.   *)
Drain ==
  /\ call.pc = "got" /\ call.item \in {"task", "progress"}
  /\ call' = [call EXCEPT
       !.pc = "waiting",
       !.task = IF call.item = "task" THEN IF call.dropped \/ ~req.resume THEN "fresh" ELSE "old" ELSE @]
  /\ watch' = [watch EXCEPT !.idle = Touched]
  /\ UNCHANGED <<req, wire, agent>>

(* The end of the stream, or the blocking response.                        *)
Finish ==
  /\ call.pc = "got" /\ call.item = "end"
  /\ End(IF req.streaming /\ call.task = NoTask THEN "threw" ELSE "returned", {})
  /\ UNCHANGED <<req, wire>>

--------------------------------------------------------------------------------
(* The agent and the transport.                                            *)

(* HostRequestHandler of the agent.                                        *)
ForLegacyClient(error) == IF req.protocol = "0.3" /\ error = "unsupported" THEN "not found" ELSE error

(* A refusal before the first event of a stream leaves as JSON, but for a  *)
(* client of 0.3 as an event of the stream; it could not read the other.   *)
LegacyStreamErrorsAsSse == IF req.streaming /\ req.protocol = "1.0" THEN "json" ELSE "event"

Refusal(error) ==
  IF req.streaming /\ req.protocol = "0.3" /\ LegacyStreamErrorsAsSse # "event" THEN "unreadable" ELSE ForLegacyClient(error)

Accept ==
  LET i == agent.inbox IN
    /\ i # NoTask
    /\ IF agent.task[i] \in Stale
       THEN /\ wire' = Append(wire, Refusal(IF agent.task[i] = "missing" THEN "not found" ELSE "unsupported"))
            /\ agent' = [agent EXCEPT !.inbox = NoTask]
       ELSE /\ wire' = IF req.streaming THEN Append(wire, "task") ELSE wire
            /\ agent' = [agent EXCEPT !.inbox = NoTask, !.task[i] = "running", !.executions = @ + 1]
    /\ UNCHANGED <<req, call, watch>>

Report(i) ==
  /\ agent.task[i] = "running" /\ req.streaming /\ agent.sent < MaxEvents
  /\ wire' = Append(wire, "progress")
  /\ agent' = [agent EXCEPT !.sent = @ + 1]
  /\ UNCHANGED <<req, call, watch>>

Answer(i) ==
  /\ agent.task[i] = "running"
  /\ wire' = Append(wire, "end")
  /\ agent' = [agent EXCEPT !.task[i] = IF i \in agent.cancels THEN "canceled" ELSE "ended"]
  /\ UNCHANGED <<req, call, watch>>

(* The connection breaks: what was under way is lost, the agent runs on.   *)
Break ==
  /\ call.pc \in Active /\ "broken" \notin {wire[i] : i \in DOMAIN wire}
  /\ wire' = <<"broken">>
  /\ agent' \in {agent, [agent EXCEPT !.inbox = NoTask]}
  /\ UNCHANGED <<req, call, watch>>

Relay == Call \/ Abort \/ ThrowAborted \/ Receive \/ Retry \/ Fail \/ Drain \/ Finish
Agent == Accept \/ Break \/ \E i \in Ids : Report(i) \/ Answer(i)
RelayNext == Relay \/ Agent

RelaySafety == RelayInit /\ [][RelayNext]_relayVars

(* The event loop runs the relay; a timer fires, unless it is cleared or   *)
(* moved first.  Neither the agent nor the transport is trusted.           *)
RelayFairness ==
  /\ WF_relayVars(ThrowAborted) /\ WF_relayVars(Receive) /\ WF_relayVars(Retry \/ Fail \/ Drain \/ Finish)
  /\ WF_relayVars(Abort /\ (watch.deadline \/ watch.idle) /\ (watch'.deadline # watch.deadline \/ watch'.idle # watch.idle))

RelaySpec == RelaySafety /\ RelayFairness

--------------------------------------------------------------------------------
(* The agent runs a message at most once, although it may be sent twice, and *)
(* a stale task never is what makes a call fail.  Once the call is over    *)
(* nothing of its watchdog is armed (RelayTypeOK).                         *)
ExecutedOnce ==
  /\ RelayTypeOK /\ agent.executions <= 1
  /\ call.pc = "threw" => watch.aborted \/ call.item \in {"broken", "end"}

(* An aborted call tells the agent to stop the task it runs, when the relay *)
(* knows which one: breaking the connection alone would not stop it.  A call *)
(* that was not aborted cancels nothing: its task may wait for input.      *)
Known(i) == call.task = i \/ (req.resume /\ ~call.dropped /\ i = "old")
CancelsWhenAborted ==
  /\ agent.cancels # {} => watch.aborted
  /\ call.pc = "threw" /\ watch.aborted =>
       \A i \in Ids : agent.task[i] = "running" /\ Known(i) => i \in agent.cancels

(* A call with a limit ends, whatever becomes of the agent, and so does a  *)
(* call that was aborted, whatever the transport makes of the signal.      *)
Limited == req.deadline \/ (req.streaming /\ req.idle) \/ watch.aborted
LimitedCallsEnd == call.pc \in Active /\ Limited ~> call.pc \in Ended
================================================================================
