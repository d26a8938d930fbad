-------------------------------- MODULE AguiTurn --------------------------------
(***************************************************************************)
(* The AG-UI route (packages/ts-host/src/agui.ts): turns of one thread,    *)
(* each an HTTP request that is answered with a stream of events.  A turn  *)
(* loads the state of the thread, runs the agent, saves the new state and  *)
(* ends its stream.  Nothing keeps the turns of a thread apart, and the    *)
(* client may leave at any moment.                                         *)
(*                                                                         *)
(* The state of a thread is the set of the turns whose effect is in it.    *)
(* The agent emits while run() is pending.  Tool and A2UI events have no   *)
(* bearing on the rest and are left out, and so is the ping of a silent    *)
(* stream.                                                                 *)
(***************************************************************************)
EXTENDS Integers, Sequences, FiniteSets, FiniteSetsExt

CONSTANTS
  Turns,
  MaxEmits    (* bound of the events that the agents emit in all turns        *)

ASSUME ConstantsAssumption == IsFiniteSet(Turns) /\ MaxEmits \in Nat

VARIABLES
  state,      (* the state of the thread in the task store                    *)
  turn,       (* turn[t]: stage, what the agent was given and what it returned *)
  stream,     (* stream[t]: the events written                                *)
  closed,     (* closed[t]: the client closed the stream before its end       *)
  aborted,    (* aborted[t]: the signal given to the agent fired              *)
  after       (* after[t]: history, the turns whose stream had ended at the   *)
              (* time of the request of t, and those that were still under way *)

vars == <<state, turn, stream, closed, aborted, after>>

Event == {"RUN_STARTED", "TEXT_START", "TEXT", "TEXT_END", "REASONING_START", "REASONING",
          "REASONING_END", "RUN_FINISHED", "RUN_ERROR"}

Turn == [stage : {"new", "loading", "running", "saving", "ended", "lost"}, prior : SUBSET Turns,
         status : {"none", "completed", "input-required", "failed"}, message : BOOLEAN,
         text : BOOLEAN, reasoning : BOOLEAN]

Init ==
  /\ state = {}
  /\ turn = [t \in Turns |-> [stage |-> "new", prior |-> {}, status |-> "none", message |-> FALSE,
                              text |-> FALSE, reasoning |-> FALSE]]
  /\ stream = [t \in Turns |-> << >>]
  /\ closed = [t \in Turns |-> FALSE] /\ aborted = [t \in Turns |-> FALSE]
  /\ after = [t \in Turns |-> [ended |-> {}, busy |-> {}]]

Busy(t) == turn[t].stage \in {"loading", "running", "saving"}
Occurrences(s, e) == Cardinality({i \in DOMAIN s : s[i] = e})
Count(t, e) == Occurrences(stream[t], e)
Finished(t) == Count(t, "RUN_FINISHED") > 0

Write(t, events) == stream' = [stream EXCEPT ![t] = @ \o events]

--------------------------------------------------------------------------------
Request(t) ==
  /\ turn[t].stage = "new"
  /\ turn' = [turn EXCEPT ![t].stage = "loading"]
  /\ after' = [after EXCEPT ![t] = [ended |-> {u \in Turns : Finished(u)}, busy |-> {u \in Turns : Busy(u)}]]
  /\ UNCHANGED <<state, stream, closed, aborted>>

(* Mutants: nothing is found under the owner of the turn; the reasoning is *)
(* left open; a failed save goes unnoticed.                                *)
NothingLoaded == {}
LeaveOpen(t) == << >>
Unnoticed == "RUN_FINISHED"

Loaded == state
KeepsReasoning(t) == turn[t].reasoning
EndReasoning(t) == IF turn[t].reasoning THEN <<"REASONING_END">> ELSE << >>
AfterFailedSave == "RUN_ERROR"
AfterCatch == "ended"

(* The store answers.  Only now does the route listen for the close of the *)
(* stream, and start it.                                                   *)
Load(t) ==
  /\ turn[t].stage = "loading"
  /\ turn' = [turn EXCEPT ![t].stage = "running", ![t].prior = Loaded]
  /\ Write(t, <<"RUN_STARTED">>)
  /\ UNCHANGED <<state, closed, aborted, after>>

(* The store fails outside the try block: the route never answers.         *)
LoadFails(t) ==
  /\ turn[t].stage = "loading"
  /\ turn' = [turn EXCEPT ![t].stage = "lost"]
  /\ UNCHANGED <<state, stream, closed, aborted, after>>

Close(t) ==
  /\ Busy(t) /\ ~closed[t]
  /\ closed' = [closed EXCEPT ![t] = TRUE]
  /\ aborted' = [aborted EXCEPT ![t] = turn[t].stage # "loading"]
  /\ UNCHANGED <<state, turn, stream, after>>

(* emit() opens a text message, or a block of reasoning, when it has to.   *)
Emitted(t) == Count(t, "TEXT") + Count(t, "REASONING")
MayEmit(t) == turn[t].stage = "running" /\ MapThenSumSet(Emitted, Turns) < MaxEmits

Text(t) ==
  /\ MayEmit(t)
  /\ Write(t, IF turn[t].text THEN <<"TEXT">> ELSE <<"TEXT_START", "TEXT">>)
  /\ turn' = [turn EXCEPT ![t].text = TRUE, ![t].reasoning = KeepsReasoning(t)]
  /\ UNCHANGED <<state, closed, aborted, after>>

Reasoning(t) ==
  /\ MayEmit(t)
  /\ Write(t, IF turn[t].reasoning THEN <<"REASONING">> ELSE <<"REASONING_START", "REASONING">>)
  /\ turn' = [turn EXCEPT ![t].reasoning = TRUE]
  /\ UNCHANGED <<state, closed, aborted, after>>

(* run() returns, aborted or not, and the save starts.                     *)
RunReturns(t, status, message) ==
  /\ turn[t].stage = "running"
  /\ turn' = [turn EXCEPT ![t].stage = "saving", ![t].status = status, ![t].message = message,
                          ![t].reasoning = FALSE]
  /\ Write(t, EndReasoning(t))
  /\ UNCHANGED <<state, closed, aborted, after>>

RunThrows(t) ==
  /\ turn[t].stage = "running"
  /\ turn' = [turn EXCEPT ![t].stage = AfterCatch, ![t].reasoning = FALSE]
  /\ Write(t, EndReasoning(t) \o <<"RUN_ERROR">>)
  /\ UNCHANGED <<state, closed, aborted, after>>

LastText(t) ==
  IF turn[t].text THEN <<"TEXT_END">>
  ELSE IF turn[t].message THEN <<"TEXT_START", "TEXT", "TEXT_END">> ELSE << >>

(* The snapshot replaces the one in the store; then the stream ends.       *)
Save(t) ==
  /\ turn[t].stage = "saving"
  /\ state' = turn[t].prior \cup {t}
  /\ turn' = [turn EXCEPT ![t].stage = "ended"]
  /\ Write(t, LastText(t) \o <<IF turn[t].status = "failed" THEN "RUN_ERROR" ELSE "RUN_FINISHED">>)
  /\ UNCHANGED <<closed, aborted, after>>

SaveFails(t) ==
  /\ turn[t].stage = "saving"
  /\ turn' = [turn EXCEPT ![t].stage = AfterCatch]
  /\ Write(t, <<AfterFailedSave>>)
  /\ UNCHANGED <<state, closed, aborted, after>>

Settles(t) ==
  RunThrows(t) \/ \E s \in {"completed", "input-required", "failed"}, m \in BOOLEAN : RunReturns(t, s, m)

Next ==
  \E t \in Turns : Request(t) \/ Load(t) \/ LoadFails(t) \/ Close(t) \/ Text(t) \/ Reasoning(t)
                   \/ Settles(t) \/ Save(t) \/ SaveFails(t)

Spec == Init /\ [][Next]_vars

--------------------------------------------------------------------------------
TypeOK ==
  /\ state \subseteq Turns /\ turn \in [Turns -> Turn]
  /\ stream \in [Turns -> Seq(Event)]
  /\ closed \in [Turns -> BOOLEAN] /\ aborted \in [Turns -> BOOLEAN]
  /\ \A t \in Turns : turn[t].reasoning <=> Count(t, "REASONING_START") > Count(t, "REASONING_END")

(* A stream is one run: it starts with RUN_STARTED and ends, exactly when  *)
(* the turn does, with one RUN_FINISHED or RUN_ERROR.                      *)
Final(e) == e \in {"RUN_FINISHED", "RUN_ERROR"}
OneRun ==
  \A t \in Turns :
    /\ stream[t] # << >> => Head(stream[t]) = "RUN_STARTED"
    /\ turn[t].stage = "ended" <=> \E i \in DOMAIN stream[t] : Final(stream[t][i])
    /\ \A i \in DOMAIN stream[t] : Final(stream[t][i]) => i = Len(stream[t])

(* Text and reasoning may alternate, and yet a run shows one message and one *)
(* block of reasoning; a finished run leaves neither open, and a failed one *)
(* no reasoning.                                                           *)
Balanced(t, start, end) == Count(t, start) = Count(t, end)
OneCardEach ==
  \A t \in Turns :
    /\ Count(t, "TEXT_START") <= 1 /\ Count(t, "REASONING_START") <= 1
    /\ turn[t].stage = "ended" => Balanced(t, "REASONING_START", "REASONING_END")
    /\ Finished(t) => Balanced(t, "TEXT_START", "TEXT_END")

(* Streams are well-formed, whatever the turn does (with TypeOK).          *)
StreamsWellFormed == TypeOK /\ OneRun /\ OneCardEach

(* A client that waited for RUN_FINISHED finds the state of that turn in the *)
(* next one: in a thread whose turns do not overlap nothing is lost.       *)
Overlap(t) == \E u \in Turns : after[u].busy # {} /\ turn[u].stage # "new"
TurnsBuildOnEachOther ==
  \A t \in Turns : turn[t].stage \in {"running", "saving", "ended"} /\ ~Overlap(t) =>
    after[t].ended \subseteq turn[t].prior

(* A turn that reports success has stored its state.                       *)
FinishedMeansSaved ==
  [][\A t \in Turns : ~Finished(t) /\ Finished(t)' => state' = turn[t].prior \cup {t}]_vars

(* The changelog and a comment: the signal fires when the client closes the *)
(* stream, and the agent does not go on in vain.                           *)
ClosedTurnsAreAborted == \A t \in Turns : closed[t] /\ turn[t].stage = "running" => aborted[t]
================================================================================
