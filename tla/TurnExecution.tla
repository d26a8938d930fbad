----------------------------- MODULE TurnExecution -----------------------------
(***************************************************************************)
(* HostExecutor (packages/ts-host/src/a2a-executor.ts), A2aProgress        *)
(* (a2a-progress.ts) and the final events of build-task.ts: one turn of an *)
(* agent, the events it publishes on the bus of its task, and the          *)
(* cancellation that may come at any point of it.                          *)
(*                                                                         *)
(* External, modelled from how this code uses it: the request handler of   *)
(* the SDK, which starts a turn on a task that is not terminal, merges the *)
(* published events into the stored task (artifacts by id, metadata by     *)
(* key) until the bus is finished, and cancels by itself a task that has   *)
(* no bus in this process.  Nothing keeps it from starting a second turn   *)
(* on a task whose turn still runs.  The copy of the form in an artifact   *)
(* is on (legacyFormArtifact), the default.                                *)
(***************************************************************************)
EXTENDS Naturals, Sequences, SequencesExt

CONSTANTS Tasks, Turns, None,
          MaxEvents   \* a bound: progress stops once a turn published this many

ASSUME ConstantsAssumption ==
  /\ MaxEvents \in Nat /\ None \notin Turns /\ "empty" \notin Turns

VARIABLES
  running,    (* HostExecutor.running: task -> the turn that cancel finds, or None  *)
  turn,       (* turn[x]: its task, its stage, its signal, its result, rc.task, and *)
              (* (history) whether no other turn of its task ran meanwhile          *)
  progress,   (* progress[x]: the A2aProgress of the turn                           *)
  events,     (* events[x]: what the turn published, in order                       *)
  bus,        (* the turns whose bus is open; the turns of a task share an open bus *)
  stored      (* stored[t]: the task in the store; contents are named by their turn *)

vars == <<running, turn, progress, events, bus, stored>>

Terminal == {"completed", "failed", "canceled"}
Results == [status : {"completed", "failed", "input-required"}, state : BOOLEAN]
Content == Turns \cup {None, "empty"}
Task == [status : {"none", "working", "input-required"} \cup Terminal,
         form : Content, answer : Content, state : Content]

Outcome == {"final-status", "final-task", "canceled"}
Event == {"task", "working", "open", "append", "last", "artifact", "finished"} \cup Outcome

Of(x) == turn[x].task

TypeOK ==
  /\ running \in [Tasks -> Turns \cup {None}]
  /\ turn \in [Turns -> [task : Tasks, prior : Task, signal : BOOLEAN, alone : BOOLEAN,
                         stage : {"new", "running", "settled", "left", "done", "down"},
                         result : Results \cup {None}]]
  /\ progress \in [Turns -> [working : BOOLEAN, text : BOOLEAN, keepalive : BOOLEAN, timer : BOOLEAN]]
  /\ events \in [Turns -> Seq(Event)]
  /\ bus \subseteq Turns
  /\ stored \in [Tasks -> Task]
  /\ \A x \in Turns : turn[x].stage \in {"settled", "left", "done"} => turn[x].result \in Results
  /\ \A t \in Tasks, x \in Turns :
       running[t] = x => Of(x) = t /\ turn[x].stage \in {"running", "settled"}

NoTask == [status |-> "none", form |-> None, answer |-> None, state |-> None]

Init ==
  /\ running = [t \in Tasks |-> None]
  /\ turn \in [Turns -> [task : Tasks, prior : {NoTask}, signal : {FALSE}, alone : {TRUE},
                        stage : {"new"}, result : {None}]]
  /\ progress = [x \in Turns |-> [working |-> FALSE, text |-> FALSE, keepalive |-> FALSE, timer |-> FALSE]]
  /\ events = [x \in Turns |-> <<>>]
  /\ bus = {}
  /\ stored = [t \in Tasks |-> NoTask]

--------------------------------------------------------------------------------
(* The store and the bus, as the SDK keeps them.                           *)

Publish(x, published) == events' = [events EXCEPT ![x] = @ \o published]

Merge(x, task) == stored' = [stored EXCEPT ![Of(x)] = IF x \in bus THEN task ELSE @]

BusOf(t) == {x \in bus : Of(x) = t}

(* Mutant: the bus is left open.                                           *)
StillOpen(t) == bus

Finished(t) == bus \ BusOf(t)

(* The turns of a task that are under way.                                 *)
UnderWay(t) == {x \in Turns : Of(x) = t /\ turn[x].stage \in {"running", "settled", "left"}}

--------------------------------------------------------------------------------
(* A2aProgress.                                                            *)

Armed(x) == progress[x].keepalive

(* startWorking(): the first publication is preceded by the task itself.   *)
Started(x) == IF progress[x].working THEN <<>> ELSE <<"task">>

(* Mutant: the artifact is not established before the first delta.         *)
NotOpened(x) == <<"append">>

Chunk(x) == IF progress[x].text THEN <<"append">> ELSE <<"open", "append">>

(* A nonempty text delta of the handler: also one that comes after the end. *)
EmitText(x) ==
  /\ turn[x].stage \in {"running", "settled", "left", "done"} /\ Len(events[x]) < MaxEvents
  /\ progress' = [progress EXCEPT ![x].working = TRUE, ![x].text = TRUE, ![x].timer = Armed(x)]
  /\ Publish(x, Started(x) \o Chunk(x))
  /\ Merge(x, [stored[Of(x)] EXCEPT
       !.status = IF progress[x].working THEN @ ELSE "working", !.answer = x])
  /\ UNCHANGED <<running, turn, bus>>

Working(x) ==
  /\ Publish(x, Started(x) \o <<"working">>)
  /\ Merge(x, [stored[Of(x)] EXCEPT !.status = "working"])
  /\ UNCHANGED <<running, turn, bus>>

(* A node or a reasoning delta.                                            *)
EmitProgress(x) ==
  /\ turn[x].stage \in {"running", "settled", "left", "done"} /\ Len(events[x]) < MaxEvents
  /\ progress' = [progress EXCEPT ![x].working = TRUE, ![x].timer = Armed(x)]
  /\ Working(x)

KeepaliveFires(x) ==
  /\ progress[x].timer /\ Len(events[x]) < MaxEvents
  /\ progress' = [progress EXCEPT ![x].working = TRUE, ![x].timer = Armed(x)]
  /\ Working(x)

KeepaliveStopped(x) == [progress[x] EXCEPT !.keepalive = FALSE, !.timer = FALSE]

--------------------------------------------------------------------------------
(* HostExecutor.                                                           *)

Begin(x) ==
  LET t == Of(x) IN
    /\ turn[x].stage = "new" /\ stored[t].status \notin Terminal
    /\ turn' = [y \in Turns |->
         IF y = x THEN [turn[x] EXCEPT !.stage = "running", !.prior = stored[t], !.alone = UnderWay(t) = {}]
         ELSE IF y \in UnderWay(t) THEN [turn[y] EXCEPT !.alone = FALSE] ELSE turn[y]]
    /\ running' = [running EXCEPT ![t] = x]
    /\ progress' = [progress EXCEPT ![x].keepalive = TRUE, ![x].timer = TRUE]
    /\ bus' = bus \cup {x}
    /\ UNCHANGED <<events, stored>>

(* handler.run settles; an error is folded into a failed result.           *)
HandlerEnds(x, r) ==
  /\ turn[x].stage = "running"
  /\ turn' = [turn EXCEPT ![x].stage = "settled", ![x].result = r]
  /\ UNCHANGED <<running, progress, events, bus, stored>>

WithoutTurn(x) == [running EXCEPT ![Of(x)] = None]

(* The finally clause, when the observability wrapper has flushed.         *)
Finally(x) ==
  /\ turn[x].stage = "settled"
  /\ progress' = [progress EXCEPT ![x] = KeepaliveStopped(x)]
  /\ running' = WithoutTurn(x)
  /\ turn' = [turn EXCEPT ![x].stage = "left"]
  /\ UNCHANGED <<events, bus, stored>>

(* Mutant: what the task holds stays when the turn gives nothing.          *)
Kept(given, x, prior, held) == IF given THEN x ELSE held

(* What the final events leave under a key of the stored task: what the turn *)
(* gives, or nothing where a former turn had left something.               *)
Left(given, x, prior, held) ==
  IF given THEN x ELSE IF prior \in Turns THEN "empty" ELSE held

FinalTask(x) ==
  LET r == turn[x].result  p == turn[x].prior  s == stored[Of(x)] IN
    [status |-> r.status,
     form   |-> Left(r.status = "input-required", x, p.form, s.form),
     answer |-> IF progress[x].text THEN s.answer ELSE Left(FALSE, x, p.answer, s.answer),
     state  |-> Left(r.state /\ r.status # "failed", x, p.state, s.state)]

(* finish() closes the answer, then finalTaskEvents().                     *)
FinalEvents(x) ==
  (IF progress[x].text THEN <<"last">> ELSE <<>>)
    \o (IF progress[x].working THEN <<"artifact", "final-status">> ELSE <<"final-task">>)

(* Mutant: the signal is not looked at.                                    *)
Unaware(x) == FALSE

WasCancelled(x) == turn[x].signal

Conclude(x) ==
  /\ turn[x].stage = "left"
  /\ turn' = [turn EXCEPT ![x].stage = "done"]
  /\ bus' = IF x \in bus THEN Finished(Of(x)) ELSE bus
  /\ \/ WasCancelled(x) /\ Publish(x, <<"finished">>) /\ UNCHANGED stored
     \/ /\ ~WasCancelled(x)
        /\ Publish(x, FinalEvents(x) \o <<"finished">>)
        /\ Merge(x, FinalTask(x))
  /\ UNCHANGED <<running, progress>>

(* tasks/cancel of a stored task whose turn is found.  Without an entry    *)
(* cancelTask returns at once and the SDK waits for what the turn publishes. *)
Cancel(t) ==
  LET x == running[t] IN
    /\ BusOf(t) # {} /\ stored[t].status \notin Terminal \cup {"none"} /\ x # None
    /\ progress' = [progress EXCEPT ![x] = KeepaliveStopped(x)]
    /\ turn' = [turn EXCEPT ![x].signal = TRUE]
    /\ Publish(x, <<"canceled", "finished">>)
    /\ Merge(x, [stored[t] EXCEPT !.status = "canceled"])
    /\ bus' = Finished(t)
    /\ UNCHANGED running

(* tasks/cancel of a task without a bus here: the SDK writes the store.    *)
CancelIdle(t) ==
  /\ BusOf(t) = {} /\ stored[t].status \notin Terminal \cup {"none"}
  /\ stored' = [stored EXCEPT ![t].status = "canceled"]
  /\ UNCHANGED <<running, turn, progress, events, bus>>

(* The process goes down with its turns; the store stays.                  *)
Crash ==
  /\ \E x \in Turns : turn[x].stage \in {"running", "settled", "left"}
  /\ turn' = [x \in Turns |-> IF turn[x].stage = "new" THEN turn[x] ELSE [turn[x] EXCEPT !.stage = "down"]]
  /\ progress' = [x \in Turns |-> KeepaliveStopped(x)]
  /\ running' = [t \in Tasks |-> None] /\ bus' = {}
  /\ UNCHANGED <<events, stored>>

Next ==
  \/ \E x \in Turns : \/ Begin(x) \/ EmitText(x) \/ EmitProgress(x) \/ KeepaliveFires(x)
                      \/ Finally(x) \/ Conclude(x)
                      \/ \E r \in Results : HandlerEnds(x, r)
  \/ \E t \in Tasks : Cancel(t) \/ CancelIdle(t)
  \/ Crash

Safety == Init /\ [][Next]_vars

(* A handler settles, if only because its model call has a time limit; what *)
(* follows is run by the event loop.                                       *)
Fairness ==
  \A x \in Turns : /\ WF_vars(\E r \in Results : HandlerEnds(x, r))
                   /\ WF_vars(Finally(x)) /\ WF_vars(Conclude(x))

Spec == Safety /\ Fairness

--------------------------------------------------------------------------------
Under(x) == turn[x].stage \in {"running", "settled"} /\ ~turn[x].signal

(* A silent turn is never taken for dead, and one that ended or was        *)
(* cancelled does not go on reporting, even if its handler does.           *)
KeepaliveWhileRunning ==
  \A x \in Turns : progress[x].keepalive = Under(x) /\ progress[x].timer = Under(x)

(* What subscribers of the turn receive.                                   *)
Delivered(x) ==
  LET F == {i \in DOMAIN events[x] : events[x][i] = "finished"} IN
    IF F = {} THEN events[x] ELSE SubSeq(events[x], 1, (CHOOSE i \in F : \A j \in F : i <= j) - 1)

Before(s, a, b) == \A j \in DOMAIN s : s[j] = b => \E i \in 1 .. j - 1 : s[i] = a
AtMostOnce(s, S) == \A i, j \in DOMAIN s : s[i] \in S /\ s[j] \in S => i = j

(* The stream of a turn: the task at most once and before all progress, one *)
(* outcome with nothing after it, and an answer that is established, then  *)
(* appended to, then closed, once.                                         *)
StreamWellFormed ==
  \A x \in Turns : LET s == Delivered(x) IN
    /\ AtMostOnce(s, {"task", "final-task"}) /\ Before(s, "task", "working") /\ Before(s, "task", "open")
    /\ \A i \in DOMAIN s : s[i] \in Outcome => i = Len(s)
    /\ AtMostOnce(s, {"open"}) /\ Before(s, "open", "append") /\ Before(s, "append", "last")
    /\ \A i, j \in DOMAIN s : s[i] = "last" /\ s[j] = "append" => j < i
    /\ Contains(s, "append") /\ Contains(s, "final-status") => Contains(s, "last")

(* A turn is reported as long as it runs and no longer, and its stream is  *)
(* well formed.                                                            *)
TurnWellFormed == TypeOK /\ KeepaliveWhileRunning /\ StreamWellFormed

(* A cancelled turn publishes no result, whatever its handler returns.     *)
CancelOrResult == \A x \in Turns : AtMostOnce(events[x], Outcome)

(* A task shows the form, the answer and the state of the turn that ended  *)
(* last, never those of an earlier one, although events are only merged and *)
(* an earlier turn may have been cut.                                      *)
OnlyLastTurnShown ==
  [][\A x \in Turns : turn[x].stage = "left" /\ turn'[x].stage = "done" /\ ~turn[x].signal /\ turn[x].alone =>
       LET s == stored'[Of(x)] IN
         /\ s.status = turn[x].result.status
         /\ \A c \in {s.form, s.answer, s.state} : c \in {x, None, "empty"}
         /\ (s.form = x) = (s.status = "input-required")
         /\ (s.answer = x) = progress[x].text]_vars

(* The first event of an execution is its task (a2a-progress.ts:107), also *)
(* when the task was left by an earlier turn.                              *)
FirstEventIsTask ==
  \A x \in Turns : turn[x].alone /\ Delivered(x) # <<>> => Head(Delivered(x)) \in {"task", "final-task"}

(* Every open stream ends.                                                 *)
StreamsEnd == \A x \in Turns : x \in bus ~> x \notin bus
================================================================================
