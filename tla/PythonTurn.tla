------------------------------ MODULE PythonTurn ------------------------------
(***************************************************************************)
(* The turns of one task on the Python host (packages/python-host/src/     *)
(* ai37_agent_host): HostExecutor (a2a_executor.py), A2aProgress           *)
(* (a2a_progress.py), which brings what a handler emits into the stream of *)
(* the turn, and the state that a turn leaves to the next.  An AG-UI client *)
(* may name the task as its thread; agui.py then loads and saves that state. *)
(*                                                                         *)
(* External: a2a-sdk, whose producer runs the turns of a task one by one in *)
(* the context of the request that created the task, merges what they      *)
(* publish into the stored task, artifacts by their id, and takes nothing  *)
(* more once the task has ended.  The client sends one turn at a time.     *)
(*                                                                         *)
(* Turns are numbered, and a state bears the number of its turn.  Artifacts *)
(* without a state, as the answer, have no bearing on the rest.            *)
(***************************************************************************)
EXTENDS Naturals, Sequences, SequencesExt

CONSTANTS None, MaxTurns, MaxEmitted   \* bounds of the turns, and of the events of one

VARIABLES
  task,      (* the stored task: its status, its artifacts with their ids         *)
  turn,      (* the turn under way, or the last: its number, where it is, the     *)
             (* state it was given, what its handler returned                     *)
  scope,     (* the request whose HostScope is in the context of the producer     *)
  creator,   (* the request that created the task                                 *)
  queue,     (* A2aProgress._queue                                                *)
  drain,     (* its task, and what it has published: working, the answer          *)
  events,    (* what the turn published                                           *)
  emitted,   (* (history) what its handler emitted                                *)
  latest     (* (history) the turn whose state was saved last; the one at the     *)
             (* start of the turn                                                 *)

turnVars == <<task, turn, scope, creator, queue, drain, events, emitted, latest>>

Terminal == {"completed", "failed", "canceled"}
Idle == turn.stage = "none" /\ ~turn.cancel

Init ==
  /\ task = [status |-> "none", artifacts |-> <<>>]
  /\ turn = [n |-> 0, stage |-> "none", prior |-> None, status |-> "none", saves |-> FALSE, cancel |-> FALSE]
  /\ scope = None /\ creator = None
  /\ queue = <<>> /\ drain = [on |-> FALSE, working |-> FALSE, text |-> FALSE]
  /\ events = <<>> /\ emitted = <<>>
  /\ latest = [saved |-> None, atStart |-> None]

--------------------------------------------------------------------------------
(* HostExecutor.execute: the turn begins.                                  *)

Bearing(artifacts) == {i \in DOMAIN artifacts : artifacts[i].state # None}
FirstState(artifacts) == IF Bearing(artifacts) = {} THEN None ELSE artifacts[Min(Bearing(artifacts))].state
LastState(artifacts) == IF Bearing(artifacts) = {} THEN None ELSE artifacts[Max(Bearing(artifacts))].state

(* Mutants: the oldest state is read; the scope of the request stays away. *)
Oldest(artifacts) == FirstState(artifacts)
Inherited(n) == IF creator = None THEN n ELSE creator

ReadPriorState(artifacts) == LastState(artifacts)
RequestScope(n) == n

Starts(stage, prior) ==
  /\ Idle /\ turn.n < MaxTurns
  /\ turn' = [n |-> turn.n + 1, stage |-> stage, prior |-> prior, status |-> "none", saves |-> FALSE, cancel |-> FALSE]
  /\ emitted' = <<>> /\ queue' = <<>>
  /\ latest' = [latest EXCEPT !.atStart = latest.saved]

(* The first event is a task: the new one, or a bare image of the stored one, *)
(* which the SDK passes on and does not store.                             *)
Execute ==
  /\ task.status \notin Terminal /\ Starts("running", ReadPriorState(task.artifacts))
  /\ task' = IF task.status = "none" THEN [task EXCEPT !.status = "submitted"] ELSE task
  /\ creator' = IF creator = None THEN turn'.n ELSE creator
  /\ scope' = RequestScope(turn'.n)
  /\ events' = << <<"task", 0>> >>
  /\ drain' = [on |-> TRUE, working |-> FALSE, text |-> FALSE]

Leaves == scope' = creator

--------------------------------------------------------------------------------
(* A2aProgress.  Events of other kinds and empty texts are not taken.      *)

(* External: what comes after the end of the task is lost.                 *)
Publish(sequence) == events' = IF task.status \in Terminal THEN events ELSE events \o sequence

Emit ==
  /\ turn.stage = "running" /\ Len(emitted) < MaxEmitted
  /\ \E kind \in {"node", "text"} :
       LET event == <<kind, Len(emitted) + 1>> IN
         queue' = Append(queue, event) /\ emitted' = Append(emitted, event)
  /\ UNCHANGED <<task, turn, scope, creator, drain, events, latest>>

Stop == <<"stop", 0>>
Working == IF drain.working THEN <<>> ELSE << <<"working", 0>> >>
Opening == IF drain.text THEN <<>> ELSE << <<"open", 0>> >>

Drain ==
  /\ drain.on /\ queue # <<>> /\ Head(queue) # Stop
  /\ LET event == Head(queue) IN
       /\ Publish(Working \o (IF event[1] = "text" THEN Opening ELSE <<>>) \o <<event>>)
       /\ drain' = [drain EXCEPT !.working = TRUE, !.text = @ \/ event[1] = "text"]
  /\ queue' = Tail(queue)
  /\ UNCHANGED <<task, turn, scope, creator, emitted, latest>>

(* The turn has been silent; keepalives in a row are one.                  *)
Keepalive ==
  /\ drain.on /\ queue = <<>> /\ Last(events)[1] # "working"
  /\ Publish(<< <<"working", 0>> >>)
  /\ drain' = [drain EXCEPT !.working = TRUE]
  /\ UNCHANGED <<task, turn, scope, creator, queue, emitted, latest>>

DrainEnds ==
  /\ drain.on /\ queue # <<>> /\ Head(queue) = Stop
  /\ Publish(IF drain.text THEN << <<"close", 0>> >> ELSE <<>>)
  /\ drain' = [drain EXCEPT !.on = FALSE]
  /\ queue' = <<>>
  /\ UNCHANGED <<task, turn, scope, creator, emitted, latest>>

--------------------------------------------------------------------------------
(* The handler returns, or raises, which is a failure; finish().           *)
HandlerReturns ==
  /\ turn.stage = "running"
  /\ \E status \in {"completed", "input-required", "working", "failed"}, saves \in BOOLEAN :
       turn' = [turn EXCEPT !.stage = "finishing", !.status = status, !.saves = saves]
  /\ queue' = Append(queue, Stop)
  /\ UNCHANGED <<task, scope, creator, drain, events, emitted, latest>>

(* Mutants: finish() does not wait for the drain; every kind of artifact   *)
(* has an id of its own.                                                   *)
AtOnce == TRUE
Pinned(status) == <<IF status = "completed" THEN "result" ELSE status, 0>>

Drained == ~drain.on
ArtifactId(status) == IF status = "completed" THEN <<"result", 0>> ELSE <<status, turn.n>>

(* External: TaskManager.                                                  *)
Merged(artifacts, artifact) ==
  IF \E i \in DOMAIN artifacts : artifacts[i].id = artifact.id
  THEN [i \in DOMAIN artifacts |-> IF artifacts[i].id = artifact.id THEN artifact ELSE artifacts[i]]
  ELSE Append(artifacts, artifact)

(* _finalize: the artifact, with the state if there is one ...             *)
AddArtifact ==
  /\ turn.stage = "finishing" /\ Drained /\ turn.status # "failed"
  /\ turn' = [turn EXCEPT !.stage = "closing"]
  /\ Publish(<< <<"artifact", 0>> >>)
  /\ IF task.status \in Terminal THEN UNCHANGED <<task, latest>>
     ELSE /\ task' = [task EXCEPT !.artifacts =
               Merged(@, [id |-> ArtifactId(turn.status), state |-> IF turn.saves THEN turn.n ELSE None])]
          /\ latest' = IF turn.saves THEN [latest EXCEPT !.saved = turn.n] ELSE latest
  /\ UNCHANGED <<scope, creator, queue, drain, emitted>>

(* ... and the status, which is all there is of a failure.                 *)
Finalize ==
  /\ turn.stage = "closing" \/ (turn.stage = "finishing" /\ Drained /\ turn.status = "failed")
  /\ turn' = [turn EXCEPT !.stage = "none"] /\ Leaves
  /\ Publish(<< <<"outcome", 0>> >>)
  /\ task' = IF task.status \in Terminal THEN task ELSE [task EXCEPT !.status = turn.status]
  /\ UNCHANGED <<creator, queue, drain, emitted, latest>>

--------------------------------------------------------------------------------
(* External: tasks/cancel cancels the producer.  The handler is interrupted *)
(* and finish() still waits for the drain; a drain that was waited for is  *)
(* cancelled with the turn.                                                *)
CancelProducer ==
  /\ turn.stage \in {"running", "finishing", "closing"} /\ ~turn.cancel
  /\ IF turn.stage = "running"
     THEN queue' = Append(queue, Stop) /\ UNCHANGED drain
     ELSE queue' = <<>> /\ drain' = [drain EXCEPT !.on = FALSE]
  /\ turn' = [turn EXCEPT !.stage = "unwinding", !.cancel = TRUE]
  /\ UNCHANGED <<task, scope, creator, events, emitted, latest>>

Unwound ==
  /\ turn.stage = "unwinding" /\ ~drain.on
  /\ turn' = [turn EXCEPT !.stage = "none"] /\ Leaves
  /\ UNCHANGED <<task, creator, queue, drain, events, emitted, latest>>

(* HostExecutor.cancel, as the turn unwinds or later.                      *)
Cancel ==
  /\ turn.cancel /\ task.status \notin Terminal
  /\ task' = [task EXCEPT !.status = "canceled"]
  /\ Publish(<< <<"canceled", 0>> >>)
  /\ turn' = [turn EXCEPT !.cancel = FALSE]
  /\ UNCHANGED <<scope, creator, queue, drain, emitted, latest>>

--------------------------------------------------------------------------------
(* agui.py: _load_prior_state, where a failure of the store is as no task, *)
(* and _save_state, which puts a new task in the place of the stored one; a *)
(* failure of it goes unnoticed, as does a store that keeps an ended task. *)
(* The producer of an ended task is gone.                                  *)
ReadPriorStateFromTask(artifacts) == FirstState(artifacts)

AguiLoad ==
  /\ Starts("agui", None) \/ Starts("agui", ReadPriorStateFromTask(task.artifacts))
  /\ events' = <<>>
  /\ UNCHANGED <<task, scope, creator, drain>>

AguiSave ==
  /\ turn.stage = "agui"
  /\ turn' = [turn EXCEPT !.stage = "none"]
  /\ \/ /\ task' = [status |-> "unspecified", artifacts |-> << [id |-> <<"result", 0>>, state |-> turn.n] >>]
        /\ latest' = [latest EXCEPT !.saved = turn.n]
        /\ creator' = IF task.status \in Terminal THEN None ELSE creator
     \/ UNCHANGED <<task, latest, creator>>
  /\ scope' = creator'
  /\ UNCHANGED <<queue, drain, events, emitted>>

A2aTurn ==
  \/ Execute \/ Emit \/ Drain \/ Keepalive \/ DrainEnds \/ HandlerReturns
  \/ AddArtifact \/ Finalize \/ CancelProducer \/ Unwound \/ Cancel

Next == A2aTurn \/ AguiLoad \/ AguiSave

Spec == Init /\ [][Next]_turnVars

--------------------------------------------------------------------------------
(* Whatever turns a task has seen, and on which protocol, an A2A turn is    *)
(* given the state that was saved last, and its handler acts for the request *)
(* of the turn, not for the one that once created the task.                *)
EachTurnItsOwn ==
  turn.stage \in {"running", "finishing", "closing"} =>
    turn.prior = latest.atStart /\ scope = turn.n

(* What a handler emitted is in the stream before the outcome, all of it, once *)
(* and in order; its texts are between the opening of the answer and its end. *)
At(kind) == {i \in DOMAIN events : events[i][1] = kind}
Handled == {i \in DOMAIN events : events[i][1] \in {"node", "text"}}
Before(i) == {events[j][2] : j \in {k \in Handled : k < i}}
AnswerIsWhole ==
  /\ \A i \in Handled : LET n == events[i][2] IN n <= Len(emitted) /\ events[i] = emitted[n] /\ Before(i) = 1 .. n - 1
  /\ \A i \in At("outcome") \cup At("artifact") : Before(i) = 1 .. Len(emitted)
  /\ \A i \in At("text") : (\E j \in At("open") : j < i) /\ \A j \in At("close") : i < j
  /\ At("outcome") # {} /\ At("open") # {} => \E j \in At("close") : \A i \in At("outcome") : j < i
  /\ \A kind \in {"open", "close", "outcome"} : \A i, j \in At(kind) : i = j

(* An AG-UI turn is given the state of the turn before it, on either        *)
(* protocol (agui.py:209, 251, 274), never that of an older one.           *)
AguiStateIsLatest == turn.stage = "agui" => turn.prior \in {None, latest.atStart}
================================================================================
