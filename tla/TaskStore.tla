------------------------------- MODULE TaskStore -------------------------------
(***************************************************************************)
(* Ai37TaskStore (packages/ts-host/src/task-store/store.ts) and            *)
(* saveTaskState (task-state.ts): the rows of the task table, the writers  *)
(* of several replicas (results of turns, AG-UI snapshots, REST handlers   *)
(* that replace the state of a task) and the retention job.                *)
(*                                                                         *)
(* A row is keyed by (tenant, owner, id): Keys stands for those triples,   *)
(* so the same id under two owners is two keys.  Of a task only its state  *)
(* and its timestamp are kept.  Statements of the database are atomic;     *)
(* save is two of them.  Ids that are too long are refused before anything *)
(* is read; the trimming of history and progress keys is left out.         *)
(***************************************************************************)
EXTENDS Naturals, FiniteSets

CONSTANTS Keys, Writers, None,
          Batch, TerminalDays, StaleDays,
          MaxNow                \* a bound: the last day

ASSUME ConstantsAssumption ==
  /\ IsFiniteSet(Keys)
  /\ Batch \in Nat \ {0} /\ MaxNow \in Nat \ {0}
  /\ TerminalDays \in Nat \ {0} /\ StaleDays \in Nat /\ StaleDays >= TerminalDays

VARIABLES
  rows,       (* rows[k]: the row, or None                                        *)
  writer,     (* writer[w]: one call of save, or (state) of saveTaskState         *)
  cleaner,    (* the retention job: its phase, the cutoff of it, whether it goes  *)
              (* on to the stale tasks (they are kept without staleDays)          *)
  now,
  inFlight    (* history: the writers past their check when row k became terminal *)

vars == <<rows, writer, cleaner, now, inFlight>>

Terminal == {"completed", "canceled"}
States == {"paused"} \cup Terminal
Row == [state : States, stamp : 0 .. MaxNow]     \* stamp 0: no timestamp

ASSUME NoneAssumption == None \notin Row

Call == [pc : {"idle", "save", "write", "done"}, key : Keys, state : BOOLEAN,
         task : Row \cup {None}, result : {"none", "written", "skipped", "false"}]

TypeOK ==
  /\ rows \in [Keys -> Row \cup {None}]
  /\ writer \in [Writers -> Call]
  /\ cleaner \in [phase : {"off", "terminal", "stale", "failed"}, cutoff : 0 .. MaxNow, stale : BOOLEAN]
  /\ now \in 1 .. MaxNow
  /\ inFlight \in [Keys -> SUBSET Writers]
  /\ \A w \in Writers : writer[w].state /\ writer[w].task # None => writer[w].task.state \notin Terminal

Rest(phase) == [phase |-> phase, cutoff |-> 0, stale |-> FALSE]

Init ==
  /\ rows = [k \in Keys |-> None]
  /\ writer \in [Writers -> [pc : {"idle"}, key : Keys, state : BOOLEAN, task : {None}, result : {"none"}]]
  /\ cleaner = Rest("off")
  /\ now = 1
  /\ inFlight = [k \in Keys |-> {}]

Ended(k) == rows[k] # None /\ rows[k].state \in Terminal

Tick == now < MaxNow /\ now' = now + 1 /\ UNCHANGED <<rows, writer, cleaner, inFlight>>

--------------------------------------------------------------------------------
(* save() of a task that a turn built.                                     *)
Save(w, state, stamp) ==
  /\ writer[w].pc = "idle" /\ ~writer[w].state
  /\ writer' = [writer EXCEPT ![w].pc = "save", ![w].task = [state |-> state, stamp |-> stamp]]
  /\ UNCHANGED <<rows, cleaner, now, inFlight>>

HasOpenTask(k) == rows[k] # None /\ ~Ended(k)

(* saveTaskState(): the task is loaded and its state replaced; what is saved *)
(* keeps the status and the timestamp that were loaded.                    *)
SaveState(w) ==
  LET k == writer[w].key IN
    /\ writer[w].pc = "idle" /\ writer[w].state
    /\ writer' = [writer EXCEPT ![w] =
         IF HasOpenTask(k) THEN [@ EXCEPT !.pc = "save", !.task = rows[k]]
                           ELSE [@ EXCEPT !.pc = "done", !.result = "false"]]
    /\ UNCHANGED <<rows, cleaner, now, inFlight>>

(* Mutant: only the same terminal state stops the write.                   *)
SkipSame(w) == Ended(writer[w].key) /\ rows[writer[w].key].state = writer[w].task.state

MustSkip(w) == Ended(writer[w].key)

(* The select of storedState.                                              *)
CheckStored(w) ==
  /\ writer[w].pc = "save"
  /\ writer' = [writer EXCEPT ![w] =
       IF MustSkip(w) THEN [@ EXCEPT !.pc = "done", !.result = "skipped"] ELSE [@ EXCEPT !.pc = "write"]]
  /\ UNCHANGED <<rows, cleaner, now, inFlight>>

Overtaken(k) == {v \in Writers : writer[v].pc = "write" /\ writer[v].key = k}

(* The upsert of the SDK.                                                  *)
Write(w) ==
  LET k == writer[w].key IN
    /\ writer[w].pc = "write"
    /\ rows' = [rows EXCEPT ![k] = writer[w].task]
    /\ writer' = [writer EXCEPT ![w].pc = "done", ![w].result = "written"]
    /\ inFlight' = [inFlight EXCEPT ![k] =
         IF writer[w].task.state \notin Terminal THEN {} ELSE IF Ended(k) THEN @ ELSE Overtaken(k) \ {w}]
    /\ UNCHANGED <<cleaner, now>>

--------------------------------------------------------------------------------
(* cleanup(): terminal rows first, then stale ones, each in batches.       *)

Running == cleaner.phase \in {"terminal", "stale"}

Cutoff(days) == IF now > days THEN now - days ELSE 0

StartCleanup ==
  /\ ~Running
  /\ \E stale \in BOOLEAN : cleaner' = [phase |-> "terminal", cutoff |-> Cutoff(TerminalDays), stale |-> stale]
  /\ UNCHANGED <<rows, writer, now, inFlight>>

(* Mutants: a row without a timestamp is the oldest; no batch is the last. *)
ZeroIsOld(k) == rows[k] # None /\ Ended(k) = (cleaner.phase = "terminal") /\ rows[k].stamp < cleaner.cutoff
NeverLast(n) == FALSE

Old(k) ==
  /\ rows[k] # None /\ Ended(k) = (cleaner.phase = "terminal")
  /\ rows[k].stamp > 0 /\ rows[k].stamp < cleaner.cutoff

LastBatch(n) == n < Batch

PhaseAfter ==
  IF cleaner.phase = "terminal" /\ cleaner.stale
  THEN [phase |-> "stale", cutoff |-> Cutoff(StaleDays), stale |-> TRUE] ELSE Rest("off")

DeleteBatch ==
  /\ Running
  /\ LET old == {k \in Keys : Old(k)} IN
       \E D \in SUBSET old :
         /\ Cardinality(D) = IF Cardinality(old) > Batch THEN Batch ELSE Cardinality(old)
         /\ rows' = [k \in Keys |-> IF k \in D THEN None ELSE rows[k]]
         /\ cleaner' = IF LastBatch(Cardinality(D)) THEN PhaseAfter ELSE cleaner
  /\ UNCHANGED <<writer, now, inFlight>>

(* The database refuses: the batches before this one stay deleted.         *)
CleanupFails == Running /\ cleaner' = Rest("failed") /\ UNCHANGED <<rows, writer, now, inFlight>>

Next ==
  \/ Tick \/ StartCleanup \/ DeleteBatch \/ CleanupFails
  \/ \E w \in Writers : SaveState(w) \/ CheckStored(w) \/ Write(w)
       \/ \E state \in States, stamp \in {0, now} : Save(w, state, stamp)

Safety == Init /\ [][Next]_vars

(* The retention job, once started, is given the database's answers.       *)
Fairness == WF_vars(DeleteBatch)
Spec == Safety /\ Fairness

--------------------------------------------------------------------------------
(* A task that has ended is not overwritten by a replica that comes late:  *)
(* only a save whose check came before the end of the task may still write, *)
(* and no save of a state carries an ended task (TypeOK).                  *)
EndedTaskKept ==
  /\ TypeOK
  /\ \A k \in Keys : Ended(k) => Overtaken(k) \subseteq inFlight[k]

(* The retention removes only tasks that ended more than TerminalDays ago, *)
(* or that nobody touched for StaleDays, and never one without a timestamp; *)
(* and a phase that does not fail ends with none of them left.             *)
RetentionExact ==
  [][/\ \A k \in Keys : rows[k] # None /\ rows'[k] = None =>
          /\ rows[k].stamp > 0
          /\ now - rows[k].stamp > IF Ended(k) THEN TerminalDays ELSE StaleDays
     /\ Running /\ cleaner'.phase \notin {cleaner.phase, "failed"} =>
          \A k \in Keys : ~(Old(k) /\ rows'[k] = rows[k])]_vars

(* The inductive invariant: what is about to be saved is a row; the cutoff *)
(* of a phase is never later than its days allow.                          *)
CutoffInv ==
  /\ cleaner.phase = "terminal" => cleaner.cutoff = 0 \/ cleaner.cutoff + TerminalDays <= now
  /\ cleaner.phase = "stale" => cleaner.cutoff = 0 \/ cleaner.cutoff + StaleDays <= now

IInv ==
  /\ EndedTaskKept /\ CutoffInv
  /\ \A w \in Writers : writer[w].pc \in {"save", "write"} => writer[w].task # None

(* The retention ends.                                                     *)
CleanupEnds == Running ~> ~Running

(* saveTaskState answers false for a task that has ended (task-state.ts:34): *)
(* when it answers true its write was made.                                *)
TrueMeansWritten == \A w \in Writers : writer[w].state => writer[w].result # "skipped"
================================================================================
