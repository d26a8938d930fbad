---------------------------- MODULE TaskStoreProofs ----------------------------
(***************************************************************************)
(* The task stores for any rows, calls, commands and databases: the types  *)
(* of the rows, that the end of a task is kept and what the retention      *)
(* removes; that commands declare a schema ready only when it is; the      *)
(* owners and the table of the store of the Python host; and the pages of  *)
(* its lists in Redis, of any length.                                      *)
(***************************************************************************)
EXTENDS MCTaskStore, FiniteSetTheorems, SequenceTheorems, TLAPS

USE ConstantsAssumption, NoneAssumption

--------------------------------------------------------------------------------

LEMMA InitInv == Init => IInv
  BY DEF Init, IInv, EndedTaskKept, TypeOK, CutoffInv, Rest, Ended, Overtaken, Call, Row, States, Terminal

(* One call changes, and the rest stays: the types of the calls.           *)
LEMMA CallType ==
  ASSUME TypeOK, NEW w \in Writers, NEW call \in Call, writer' = [writer EXCEPT ![w] = call],
         rows' \in [Keys -> Row \cup {None}], UNCHANGED <<cleaner, now>>, inFlight' \in [Keys -> SUBSET Writers],
         call.state /\ call.task # None => call.task.state \notin Terminal
  PROVE  TypeOK'
<1>1. writer' \in [Writers -> Call]
  BY DEF TypeOK
<1>2. \A v \in Writers : writer'[v] = IF v = w THEN call ELSE writer[v]
  BY DEF TypeOK
<1> QED  BY <1>1, <1>2 DEF TypeOK

(* A step that leaves the writers and the rows alone, and the cleaner well. *)
LEMMA TickInv == IInv /\ Tick => IInv'
  BY DEF Tick, IInv, EndedTaskKept, TypeOK, CutoffInv, Ended, Overtaken

LEMMA SaveInv ==
  ASSUME IInv, NEW w \in Writers, NEW state \in States, NEW stamp \in {0, now}, Save(w, state, stamp)
  PROVE  IInv'
<1>1. [state |-> state, stamp |-> stamp] \in Row
  BY DEF IInv, EndedTaskKept, TypeOK, Row
<1>2. TypeOK'
  <2> DEFINE call == [writer[w] EXCEPT !.pc = "save", !.task = [state |-> state, stamp |-> stamp]]
  <2>1. writer[w] \in Call
    BY DEF IInv, EndedTaskKept, TypeOK
  <2>2. call \in Call /\ call.state = writer[w].state
    BY <1>1, <2>1 DEF Call
  <2>3. writer' = [writer EXCEPT ![w] = call]
    BY <2>1 DEF Save, IInv, EndedTaskKept, TypeOK, Call
  <2>4. ~writer[w].state /\ UNCHANGED <<rows, cleaner, now, inFlight>>
    BY DEF Save
  <2> HIDE DEF call
  <2> QED  BY <2>2, <2>3, <2>4, CallType DEF IInv, EndedTaskKept, TypeOK
<1>3. \A k \in Keys : Overtaken(k)' = Overtaken(k) /\ Ended(k)' = Ended(k)
  BY DEF Save, IInv, EndedTaskKept, TypeOK, Overtaken, Ended
<1>4. \A v \in Writers : writer'[v].pc \in {"save", "write"} => writer'[v].task # None
  BY <1>1 DEF Save, IInv, EndedTaskKept, TypeOK
<1>5. CutoffInv'
  BY DEF Save, IInv, CutoffInv
<1> QED  BY <1>2, <1>3, <1>4, <1>5 DEF IInv, EndedTaskKept, Save

LEMMA SaveStateInv ==
  ASSUME IInv, NEW w \in Writers, SaveState(w)
  PROVE  IInv'
<1>1. writer[w].key \in Keys
  BY DEF IInv, EndedTaskKept, TypeOK, Call
<1>2. HasOpenTask(writer[w].key) => rows[writer[w].key] \in Row /\ rows[writer[w].key].state \notin Terminal
  BY <1>1 DEF IInv, EndedTaskKept, TypeOK, HasOpenTask, Ended
<1>3. TypeOK'
  <2> DEFINE key  == writer[w].key
             call == IF HasOpenTask(key) THEN [writer[w] EXCEPT !.pc = "save", !.task = rows[key]]
                                         ELSE [writer[w] EXCEPT !.pc = "done", !.result = "false"]
  <2>1. writer[w] \in Call
    BY DEF IInv, EndedTaskKept, TypeOK
  <2>2. call \in Call
    BY <1>2, <2>1 DEF Call
  <2>3. call.task # None => call.task.state \notin Terminal
    BY <1>2, <2>1 DEF IInv, EndedTaskKept, TypeOK, Call, SaveState
  <2>4. writer' = [writer EXCEPT ![w] = call] /\ UNCHANGED <<rows, cleaner, now, inFlight>>
    BY DEF SaveState
  <2> HIDE DEF call
  <2> QED  BY <2>2, <2>3, <2>4, CallType DEF IInv, EndedTaskKept, TypeOK
<1>4. \A k \in Keys : Overtaken(k)' = Overtaken(k) /\ Ended(k)' = Ended(k)
  BY DEF SaveState, IInv, EndedTaskKept, TypeOK, Overtaken, Ended
<1>5. \A v \in Writers : writer'[v].pc \in {"save", "write"} => writer'[v].task # None
  BY <1>1, <1>2 DEF SaveState, IInv, EndedTaskKept, TypeOK
<1>6. CutoffInv'
  BY DEF SaveState, IInv, CutoffInv
<1> QED  BY <1>3, <1>4, <1>5, <1>6 DEF IInv, EndedTaskKept, SaveState

(* A writer passes its check only while its task has not ended.            *)
LEMMA CheckStoredInv ==
  ASSUME IInv, NEW w \in Writers, CheckStored(w)
  PROVE  IInv'
<1>1. TypeOK'
  <2> DEFINE call == IF MustSkip(w) THEN [writer[w] EXCEPT !.pc = "done", !.result = "skipped"]
                                    ELSE [writer[w] EXCEPT !.pc = "write"]
  <2>1. writer[w] \in Call
    BY DEF IInv, EndedTaskKept, TypeOK
  <2>2. call \in Call /\ call.state = writer[w].state /\ call.task = writer[w].task
    BY <2>1 DEF Call
  <2>3. writer' = [writer EXCEPT ![w] = call] /\ UNCHANGED <<rows, cleaner, now, inFlight>>
    BY DEF CheckStored
  <2> HIDE DEF call
  <2> QED  BY <2>2, <2>3, CallType DEF IInv, EndedTaskKept, TypeOK
<1>2. ASSUME NEW k \in Keys, Ended(k)'  PROVE Overtaken(k)' \subseteq inFlight'[k]
  <2>1. Ended(k) /\ Overtaken(k) \subseteq inFlight[k]
    BY <1>2 DEF CheckStored, IInv, EndedTaskKept, Ended
  <2>2. ASSUME NEW v \in Overtaken(k)', v # w  PROVE v \in Overtaken(k)
    BY <2>2 DEF CheckStored, Overtaken, IInv, EndedTaskKept, TypeOK
  <2>3. w \notin Overtaken(k)'
    BY <2>1 DEF CheckStored, Overtaken, IInv, EndedTaskKept, TypeOK, MustSkip
  <2> QED  BY <2>1, <2>2, <2>3 DEF CheckStored
<1>3. \A v \in Writers : writer'[v].pc \in {"save", "write"} => writer'[v].task # None
  BY DEF CheckStored, IInv, EndedTaskKept, TypeOK
<1>4. CutoffInv'
  BY DEF CheckStored, IInv, CutoffInv
<1> QED  BY <1>1, <1>2, <1>3, <1>4 DEF IInv, EndedTaskKept

(* The writers that are past their check when a task ends are remembered.  *)
LEMMA WriteInv ==
  ASSUME IInv, NEW w \in Writers, Write(w)
  PROVE  IInv'
<1> DEFINE key == writer[w].key
<1>1. key \in Keys /\ writer[w].task \in Row
  BY DEF Write, IInv, EndedTaskKept, TypeOK, Call
<1>2. TypeOK'
  <2> DEFINE call == [writer[w] EXCEPT !.pc = "done", !.result = "written"]
  <2>1. writer[w] \in Call
    BY DEF IInv, EndedTaskKept, TypeOK
  <2>2. call \in Call /\ call.state = writer[w].state /\ call.task = writer[w].task
    BY <2>1 DEF Call
  <2>3. writer' = [writer EXCEPT ![w] = call] /\ UNCHANGED <<cleaner, now>>
    BY <2>1 DEF Write, IInv, EndedTaskKept, TypeOK, Call
  <2>4. rows' \in [Keys -> Row \cup {None}] /\ inFlight' \in [Keys -> SUBSET Writers]
    BY <1>1 DEF Write, IInv, EndedTaskKept, TypeOK, Overtaken
  <2> HIDE DEF call
  <2> QED  BY <2>2, <2>3, <2>4, CallType DEF IInv, EndedTaskKept, TypeOK
<1>3. \A k \in Keys : Overtaken(k)' = Overtaken(k) \ {w}
  BY DEF Write, IInv, EndedTaskKept, TypeOK, Overtaken
<1>4. ASSUME NEW k \in Keys, Ended(k)'  PROVE Overtaken(k)' \subseteq inFlight'[k]
  <2>1. CASE k # key
    <3>1. Ended(k) /\ inFlight'[k] = inFlight[k]
      BY <1>1, <1>4, <2>1 DEF Write, Ended, IInv, EndedTaskKept, TypeOK
    <3> QED  BY <3>1, <1>3 DEF IInv, EndedTaskKept
  <2>2. CASE k = key
    <3>1. writer[w].task.state \in Terminal
      BY <1>1, <1>4, <2>2 DEF Write, Ended, IInv, EndedTaskKept, TypeOK
    <3>2. inFlight'[k] = IF Ended(k) THEN inFlight[k] ELSE Overtaken(k) \ {w}
      BY <1>1, <2>2, <3>1 DEF Write, IInv, EndedTaskKept, TypeOK
    <3> QED  BY <3>2, <1>3 DEF IInv, EndedTaskKept
  <2> QED  BY <2>1, <2>2
<1>5. \A v \in Writers : writer'[v].pc \in {"save", "write"} => writer'[v].task # None
  BY DEF Write, IInv, EndedTaskKept, TypeOK
<1>6. CutoffInv'
  BY DEF Write, IInv, CutoffInv
<1> QED  BY <1>2, <1>4, <1>5, <1>6 DEF IInv, EndedTaskKept

--------------------------------------------------------------------------------
(* The retention.                                                          *)

LEMMA CutoffFact ==
  ASSUME TypeOK, NEW days \in Nat
  PROVE  Cutoff(days) \in 0 .. MaxNow /\ (Cutoff(days) = 0 \/ Cutoff(days) + days <= now)
  BY DEF Cutoff, TypeOK

LEMMA StartCleanupInv ==
  ASSUME IInv, StartCleanup
  PROVE  IInv'
<1>1. Cutoff(TerminalDays) \in 0 .. MaxNow /\ (Cutoff(TerminalDays) = 0 \/ Cutoff(TerminalDays) + TerminalDays <= now)
  BY CutoffFact DEF IInv, EndedTaskKept
<1>2. PICK stale \in BOOLEAN :
        cleaner' = [phase |-> "terminal", cutoff |-> Cutoff(TerminalDays), stale |-> stale]
  BY DEF StartCleanup
<1>3. UNCHANGED <<rows, writer, now, inFlight>>
  BY DEF StartCleanup
<1> QED  BY <1>1, <1>2, <1>3 DEF IInv, EndedTaskKept, TypeOK, CutoffInv, Ended, Overtaken

LEMMA CleanupFailsInv ==
  ASSUME IInv, CleanupFails
  PROVE  IInv'
  BY DEF CleanupFails, Rest, IInv, EndedTaskKept, TypeOK, CutoffInv, Ended, Overtaken

LEMMA DeleteBatchInv ==
  ASSUME IInv, DeleteBatch
  PROVE  IInv'
<1>1. PICK D \in SUBSET {k \in Keys : Old(k)} :
        /\ rows' = [k \in Keys |-> IF k \in D THEN None ELSE rows[k]]
        /\ cleaner' = IF LastBatch(Cardinality(D)) THEN PhaseAfter ELSE cleaner
  BY DEF DeleteBatch
<1>2. UNCHANGED <<writer, now, inFlight>>
  BY DEF DeleteBatch
<1>3. rows' \in [Keys -> Row \cup {None}] /\ \A k \in Keys : Ended(k)' => Ended(k)
  BY <1>1 DEF IInv, EndedTaskKept, TypeOK, Ended
<1>4. Cutoff(StaleDays) \in 0 .. MaxNow /\ (Cutoff(StaleDays) = 0 \/ Cutoff(StaleDays) + StaleDays <= now)
  BY CutoffFact DEF IInv, EndedTaskKept
<1>5. cleaner' \in [phase : {"off", "terminal", "stale", "failed"}, cutoff : 0 .. MaxNow, stale : BOOLEAN]
  BY <1>1, <1>4 DEF PhaseAfter, Rest, IInv, EndedTaskKept, TypeOK
<1>6. CutoffInv'
  BY <1>1, <1>2, <1>4 DEF PhaseAfter, Rest, IInv, EndedTaskKept, TypeOK, CutoffInv
<1> QED  BY <1>2, <1>3, <1>5, <1>6 DEF IInv, EndedTaskKept, TypeOK, Overtaken

LEMMA NextInv == IInv /\ [Next]_vars => IInv'
<1> SUFFICES ASSUME IInv, [Next]_vars  PROVE IInv'
  OBVIOUS
<1>1. CASE Next
  BY <1>1, TickInv, StartCleanupInv, DeleteBatchInv, CleanupFailsInv, SaveInv, SaveStateInv, CheckStoredInv,
     WriteInv DEF Next
<1>2. CASE UNCHANGED vars
  BY <1>2 DEF vars, IInv, EndedTaskKept, TypeOK, CutoffInv, Ended, Overtaken
<1> QED  BY <1>1, <1>2

LEMMA Invariance == Spec => []IInv
<1> QED  BY InitInv, NextInv, PTL DEF Spec, Safety

(* Every reachable state of the store is of its types: the rows, the calls *)
(* and the retention.                                                      *)
THEOREM TypeCorrect == Spec => []TypeOK
<1>1. IInv => TypeOK
  BY DEF IInv, EndedTaskKept
<1> QED  BY <1>1, Invariance, PTL

(* However many replicas save, a task that has ended is overwritten only by *)
(* a save that had passed its check when the task ended.                   *)
THEOREM EndedTaskSafe == Spec => []EndedTaskKept
<1>1. IInv => EndedTaskKept
  BY DEF IInv
<1> QED  BY <1>1, Invariance, PTL

--------------------------------------------------------------------------------
(* What the retention removes and leaves.                                  *)

Removed == \A k \in Keys : rows[k] # None /\ rows'[k] = None =>
             /\ rows[k].stamp > 0
             /\ now - rows[k].stamp > IF Ended(k) THEN TerminalDays ELSE StaleDays

NoneLeft == Running /\ cleaner'.phase \notin {cleaner.phase, "failed"} =>
              \A k \in Keys : ~(Old(k) /\ rows'[k] = rows[k])

(* A batch smaller than the limit held every row that was old.             *)
LEMMA DeleteBatchExact ==
  ASSUME IInv, DeleteBatch
  PROVE  Removed /\ NoneLeft
<1> DEFINE old == {k \in Keys : Old(k)}
<1>1. PICK D \in SUBSET old :
        /\ Cardinality(D) = IF Cardinality(old) > Batch THEN Batch ELSE Cardinality(old)
        /\ rows' = [k \in Keys |-> IF k \in D THEN None ELSE rows[k]]
        /\ cleaner' = IF LastBatch(Cardinality(D)) THEN PhaseAfter ELSE cleaner
  BY DEF DeleteBatch
<1>2. ASSUME NEW k \in Keys, rows[k] # None, rows'[k] = None
      PROVE  rows[k].stamp > 0 /\ now - rows[k].stamp > IF Ended(k) THEN TerminalDays ELSE StaleDays
  <2>1. Old(k)
    BY <1>1, <1>2
  <2>2. rows[k] \in Row
    BY <1>2 DEF IInv, EndedTaskKept, TypeOK
  <2>3. rows[k].stamp \in 0 .. MaxNow /\ now \in 1 .. MaxNow /\ cleaner.cutoff \in 0 .. MaxNow
    BY <2>2 DEF Row, IInv, EndedTaskKept, TypeOK
  <2>4. rows[k].stamp > 0 /\ rows[k].stamp < cleaner.cutoff /\ Ended(k) = (cleaner.phase = "terminal")
    BY <2>1 DEF Old
  <2>5. CASE Ended(k)
    <3>1. cleaner.phase = "terminal"
      BY <2>4, <2>5
    <3>2. cleaner.cutoff = 0 \/ cleaner.cutoff + TerminalDays <= now
      BY <3>1 DEF IInv, CutoffInv
    <3> QED  BY <2>3, <2>4, <2>5, <3>2
  <2>6. CASE ~Ended(k)
    <3>1. cleaner.phase = "stale"
      BY <2>4, <2>6 DEF DeleteBatch, Running
    <3>2. cleaner.cutoff = 0 \/ cleaner.cutoff + StaleDays <= now
      BY <3>1 DEF IInv, CutoffInv
    <3> QED  BY <2>3, <2>4, <2>6, <3>2
  <2> QED  BY <2>5, <2>6
<1>3. ASSUME Running, cleaner'.phase \notin {cleaner.phase, "failed"}, NEW k \in Keys, Old(k)
      PROVE  rows'[k] # rows[k]
  <2>1. LastBatch(Cardinality(D))
    BY <1>1, <1>3
  <2>2. IsFiniteSet(old) /\ Cardinality(old) \in Nat
    BY FS_Subset, FS_CardinalityType
  <2>3. Cardinality(D) = Cardinality(old)
    BY <1>1, <2>1, <2>2 DEF LastBatch
  <2>4. D = old
    BY <2>2, <2>3, FS_Subset
  <2> QED  BY <1>1, <1>3, <2>4 DEF Old
<1> QED  BY <1>2, <1>3 DEF Removed, NoneLeft

(* Every other step removes nothing and starts no phase of the retention.  *)
LEMMA OthersExact ==
  ASSUME IInv, [Next]_vars, ~DeleteBatch
  PROVE  Removed /\ NoneLeft
<1>1. CASE UNCHANGED rows /\ (Running => cleaner'.phase \in {cleaner.phase, "failed"})
  BY <1>1 DEF Removed, NoneLeft
<1>2. CASE \E w \in Writers : Write(w)
  <2>1. PICK w \in Writers : Write(w)
    BY <1>2
  <2>2. writer[w].key \in Keys /\ writer[w].task # None /\ UNCHANGED cleaner
    BY <2>1 DEF Write, IInv, EndedTaskKept, TypeOK, Call
  <2>3. \A k \in Keys : rows[k] # None => rows'[k] # None
    BY <2>1, <2>2 DEF Write, IInv, EndedTaskKept, TypeOK
  <2> QED  BY <2>2, <2>3 DEF Removed, NoneLeft
<1>3. Tick => UNCHANGED rows /\ (Running => cleaner'.phase \in {cleaner.phase, "failed"})
  BY DEF Tick
<1>4. StartCleanup \/ CleanupFails => UNCHANGED rows /\ (Running => cleaner'.phase \in {cleaner.phase, "failed"})
  BY DEF StartCleanup, CleanupFails, Rest
<1>5. (\E w \in Writers : SaveState(w) \/ CheckStored(w) \/ \E state \in States, stamp \in {0, now} : Save(w, state, stamp))
        => UNCHANGED rows /\ (Running => cleaner'.phase \in {cleaner.phase, "failed"})
  BY DEF SaveState, CheckStored, Save
<1>6. UNCHANGED vars => UNCHANGED rows /\ (Running => cleaner'.phase \in {cleaner.phase, "failed"})
  BY DEF vars
<1> QED  BY <1>1, <1>2, <1>3, <1>4, <1>5, <1>6 DEF Next

(* The retention removes exactly what its days allow, whatever is saved    *)
(* while it runs.                                                          *)
THEOREM RetentionSafe == Spec => RetentionExact
<1>1. IInv /\ [Next]_vars => [Removed /\ NoneLeft]_vars
  BY DeleteBatchExact, OthersExact
<1>2. Spec => [][Removed /\ NoneLeft]_vars
  BY <1>1, Invariance, PTL DEF Spec, Safety
<1>3. [Removed /\ NoneLeft]_vars =>
        [/\ \A k \in Keys : rows[k] # None /\ rows'[k] = None =>
              /\ rows[k].stamp > 0
              /\ now - rows[k].stamp > IF Ended(k) THEN TerminalDays ELSE StaleDays
         /\ Running /\ cleaner'.phase \notin {cleaner.phase, "failed"} =>
              \A k \in Keys : ~(Old(k) /\ rows'[k] = rows[k])]_vars
  BY DEF Removed, NoneLeft
<1> QED  BY <1>2, <1>3, PTL DEF RetentionExact

--------------------------------------------------------------------------------
(* The schema.                                                             *)
CommandPcs == {"new", "look", "upgrade", "widths", "widen", "check table", "check ledger", "check widths", "ready", "failed"}
Command == [kind : {"none", "migrate", "check", "cleanup", "start", "misspelt"}, pc : CommandPcs]

(* The table and what it was at first: one that is foreign stays what it was, *)
(* and no other becomes foreign; what the service keeps gets no journal.   *)
TableInv ==
  /\ table \in Schema!Tables /\ ledger \in BOOLEAN /\ external \in BOOLEAN
  /\ origin[1].is = "foreign" <=> table.is = "foreign"
  /\ origin[1].is = "foreign" => <<table, ledger>> = origin
  /\ external => ledger = origin[2]

(* How far a command is tells what the table is like.                      *)
Fits(pc, t, journal, kept) ==
  /\ pc \in {"look", "upgrade", "widths", "widen"} => ~kept
  /\ pc = "upgrade" => t.is # "foreign"
  /\ pc \in {"widths", "widen", "check ledger", "check widths", "ready"} => t.is = "ours"
  /\ pc \in {"check widths", "ready"} => kept \/ journal
  /\ pc = "ready" => t.wide

SchemaInv ==
  /\ TableInv /\ command \in [Commands -> Command]
  /\ \A c \in Commands : Fits(command[c].pc, table, ledger, external)

LEMMA TableFacts ==
  ASSUME NEW t \in Schema!Tables
  PROVE  /\ t.is \in {"absent", "foreign", "ours"} /\ t.wide \in BOOLEAN /\ (t.is = "absent" => ~t.wide)
         /\ t = [is |-> t.is, wide |-> t.wide]
         /\ t.is # "absent" => [t EXCEPT !.wide = TRUE] \in Schema!Tables
                               /\ [t EXCEPT !.wide = TRUE].is = t.is /\ [t EXCEPT !.wide = TRUE].wide
BY DEF Schema!Tables

LEMMA OursFacts ==
  ASSUME NEW wide \in BOOLEAN
  PROVE  /\ [is |-> "ours", wide |-> wide] \in Schema!Tables
         /\ [is |-> "ours", wide |-> wide].is = "ours" /\ [is |-> "ours", wide |-> wide].wide = wide
BY DEF Schema!Tables

(* The table gains the form that is asked for and never loses it.          *)
LEMMA Grows ==
  ASSUME TableInv, TableInv', UNCHANGED external, NEW pc, Fits(pc, table, ledger, external),
         table.is = "ours" => table'.is = "ours" /\ (table.wide => table'.wide),
         table'.is = "foreign" => table.is = "foreign", ledger => ledger'
  PROVE  Fits(pc, table', ledger', external')
BY DEF Fits, TableInv

(* A command goes on where the table is as it must be.                     *)
LEMMA GoesFacts ==
  ASSUME command \in [Commands -> Command], NEW c \in Commands, NEW pc \in CommandPcs, Schema!Goes(c, pc)
  PROVE  /\ command' \in [Commands -> Command] /\ command'[c].pc = pc
         /\ \A d \in Commands \ {c} : command'[d] = command[d]
<1> DEFINE next == [command[c] EXCEPT !.pc = pc]
<1>1. next \in Command /\ next.pc = pc
  BY DEF Command
<1>2. command' = [command EXCEPT ![c] = next]
  BY DEF Schema!Goes
<1> HIDE DEF next
<1> QED  BY <1>1, <1>2

LEMMA GoesOn ==
  ASSUME SchemaInv, NEW c \in Commands, NEW pc \in CommandPcs, Schema!Goes(c, pc), UNCHANGED <<table, ledger, origin, external>>,
         Fits(pc, table, ledger, external)
  PROVE  SchemaInv'
BY GoesFacts DEF SchemaInv, TableInv, Fits

LEMMA SchemaStep == SchemaInv /\ [Schema!Next]_schemaVars => SchemaInv'
<1> SUFFICES ASSUME SchemaInv, [Schema!Next]_schemaVars  PROVE SchemaInv'
  OBVIOUS
<1>0. /\ TableInv /\ command \in [Commands -> Command] /\ \A c \in Commands : command[c] \in Command /\ Fits(command[c].pc, table, ledger, external)
      /\ table \in Schema!Tables /\ ledger \in BOOLEAN /\ external \in BOOLEAN
  BY DEF SchemaInv, TableInv
<1>1. CASE UNCHANGED schemaVars
  BY <1>1 DEF schemaVars, SchemaInv, TableInv, Fits
<1>2. CASE Schema!ServiceMigrates
  <2>1. external /\ table.is # "foreign" /\ UNCHANGED <<ledger, origin, external, command>>
    BY <1>2 DEF Schema!ServiceMigrates, Schema!Foreign
  <2>2. PICK wide \in BOOLEAN : (table.wide => wide) /\ table' = [is |-> "ours", wide |-> wide]
    BY <1>2 DEF Schema!ServiceMigrates
  <2>3. table' \in Schema!Tables /\ table'.is = "ours" /\ table'.wide = wide
    BY <2>2, OursFacts
  <2>4. TableInv'
    BY <1>0, <2>1, <2>3 DEF TableInv
  <2>5. \A c \in Commands : Fits(command[c].pc, table', ledger', external')
    BY <1>0, <2>1, <2>2, <2>3, <2>4, Grows
  <2> QED  BY <1>0, <2>1, <2>4, <2>5 DEF SchemaInv
<1>3. ASSUME NEW c \in Commands, Schema!Invoke(c)  PROVE SchemaInv'
  <2>1. UNCHANGED <<table, ledger, origin, external>>
    BY <1>3 DEF Schema!Invoke, Schema!Schema
  <2>2. \E next \in Command : Fits(next.pc, table, ledger, external) /\ command' = [command EXCEPT ![c] = next]
    <3>1. PICK kind \in {"migrate", "check", "cleanup", "start", "misspelt"} :
             \/ kind = "migrate" /\ ~external /\ command' = [command EXCEPT ![c] = [kind |-> kind, pc |-> "look"]]
             \/ kind \in {"check", "cleanup", "start"} /\ command' = [command EXCEPT ![c] = [kind |-> kind, pc |-> "check table"]]
             \/ /\ kind = "misspelt" \/ (kind = "migrate" /\ external)
                /\ command' = [command EXCEPT ![c] = [kind |-> kind, pc |-> "failed"]]
      BY <1>3 DEF Schema!Invoke
    <3>2. \A pc \in {"look", "check table", "failed"} :
            [kind |-> kind, pc |-> pc] \in Command /\ [kind |-> kind, pc |-> pc].pc = pc
      BY DEF Command, CommandPcs
    <3>3. (~external => Fits("look", table, ledger, external)) /\ Fits("check table", table, ledger, external) /\ Fits("failed", table, ledger, external)
      BY DEF Fits
    <3> QED  BY <3>1, <3>2, <3>3
  <2> QED  BY <1>0, <2>1, <2>2 DEF SchemaInv, TableInv
<1>4. \A pc \in {"new", "upgrade", "widths", "widen", "check table", "check ledger", "check widths", "ready", "failed"} : pc \in CommandPcs
  BY DEF CommandPcs
<1>6. ASSUME NEW c \in Commands, Schema!Look(c)  PROVE SchemaInv'
  <2>1. Fits("failed", table, ledger, external) /\ (table.is # "foreign" => Fits("upgrade", table, ledger, external))
    BY <1>0, <1>6 DEF Fits, Schema!Look
  <2> QED  BY <1>4, GoesOn, <1>6, <2>1 DEF Schema!Look, Schema!AfterLook, Schema!Foreign, Schema!Schema
<1>7. ASSUME NEW c \in Commands, Schema!Upgrade(c)  PROVE SchemaInv'
  <2>1. ~external /\ table.is # "foreign" /\ UNCHANGED <<origin, external>>
    BY <1>0, <1>7 DEF Fits, Schema!Upgrade
  <2>2. PICK pc \in {"widths", "failed"} :
          /\ Schema!Goes(c, pc) /\ ledger' \in BOOLEAN /\ (ledger => ledger')
          /\ \/ table' = IF Schema!Exists THEN table ELSE [is |-> "ours", wide |-> FALSE]
             \/ table' = table /\ pc = "failed"
    BY <1>0, <1>7 DEF Schema!Upgrade, Schema!Schema
  <2>3. /\ table' \in Schema!Tables /\ table'.is # "foreign" /\ (pc = "widths" => table'.is = "ours")
        /\ table.is = "ours" => table' = table
    <3>1. CASE table' = table /\ pc = "failed"
      BY <1>0, <2>1, <3>1
    <3>2. CASE table' = IF Schema!Exists THEN table ELSE [is |-> "ours", wide |-> FALSE]
      <4>1. CASE table.is = "absent"
        BY <3>2, <4>1, OursFacts DEF Schema!Exists
      <4>2. CASE table.is # "absent"
        BY <1>0, <2>1, <3>2, <4>2, TableFacts DEF Schema!Exists
      <4> QED  BY <4>1, <4>2
    <3> QED  BY <2>2, <3>1, <3>2
  <2>4. TableInv'
    BY <1>0, <2>1, <2>2, <2>3 DEF TableInv
  <2>5. \A d \in Commands : Fits(command'[d].pc, table', ledger', external')
    <3>1. \A p : Fits(p, table, ledger, external) => Fits(p, table', ledger', external')
      BY <1>0, <2>1, <2>2, <2>3, <2>4, Grows
    <3>2. Fits(pc, table', ledger', external')
      BY <2>1, <2>2, <2>3 DEF Fits
    <3>3. \A d \in Commands \ {c} : command'[d] = command[d]
      BY <1>0, <1>4, <2>2, GoesFacts
    <3>4. command'[c].pc = pc
      BY <1>0, <1>4, <2>2, GoesFacts
    <3> QED  BY <1>0, <3>1, <3>2, <3>3, <3>4
  <2>6. command' \in [Commands -> Command]
    BY <1>0, <1>4, <2>2, GoesFacts
  <2> QED  BY <1>0, <2>4, <2>5, <2>6 DEF SchemaInv
<1>8. ASSUME NEW c \in Commands, Schema!Widths(c)  PROVE SchemaInv'
  <2>1. Fits("widen", table, ledger, external) /\ Fits("check table", table, ledger, external)
    BY <1>0, <1>8 DEF Fits, Schema!Widths
  <2> QED  BY <1>4, GoesOn, <1>8, <2>1 DEF Schema!Widths, Schema!Schema
<1>9. ASSUME NEW c \in Commands, Schema!Widen(c)  PROVE SchemaInv'
  <2>1. /\ table.is = "ours" /\ ~external /\ UNCHANGED <<ledger, origin, external>> /\ Schema!Goes(c, "check table")
        /\ table' = [table EXCEPT !.wide = TRUE]
    BY <1>0, <1>9 DEF Fits, Schema!Widen
  <2>2. table' \in Schema!Tables /\ table'.is = "ours" /\ table'.wide
    BY <1>0, <2>1, TableFacts
  <2>3. TableInv'
    BY <1>0, <2>1, <2>2 DEF TableInv
  <2>4. \A d \in Commands : Fits(command'[d].pc, table', ledger', external')
    <3>1. \A p : Fits(p, table, ledger, external) => Fits(p, table', ledger', external')
      BY <1>0, <2>1, <2>2, <2>3, Grows
    <3>2. Fits("check table", table', ledger', external')
      BY DEF Fits
    <3>3. \A d \in Commands \ {c} : command'[d] = command[d]
      BY <1>0, <1>4, <2>1, GoesFacts
    <3>4. command'[c].pc = "check table"
      BY <1>0, <1>4, <2>1, GoesFacts
    <3> QED  BY <1>0, <3>1, <3>2, <3>3, <3>4
  <2>5. command' \in [Commands -> Command]
    BY <1>0, <1>4, <2>1, GoesFacts
  <2> QED  BY <1>0, <2>3, <2>4, <2>5 DEF SchemaInv
<1>10. ASSUME NEW c \in Commands, Schema!CheckTable(c)  PROVE SchemaInv'
  <2>1. Fits("failed", table, ledger, external) /\ (table.is = "ours" => Fits("check ledger", table, ledger, external) /\ (external => Fits("check widths", table, ledger, external)))
    BY DEF Fits
  <2> QED  BY <1>4, GoesOn, <1>10, <2>1 DEF Schema!CheckTable, Schema!Schema
<1>11. ASSUME NEW c \in Commands, Schema!CheckLedger(c)  PROVE SchemaInv'
  <2>1. Fits("failed", table, ledger, external) /\ (ledger => Fits("check widths", table, ledger, external))
    BY <1>0, <1>11 DEF Fits, Schema!CheckLedger
  <2> QED  BY <1>4, GoesOn, <1>11, <2>1 DEF Schema!CheckLedger, Schema!Schema
<1>12. ASSUME NEW c \in Commands, Schema!CheckWidths(c)  PROVE SchemaInv'
  <2>1. Fits("failed", table, ledger, external) /\ (table.wide => Fits("ready", table, ledger, external))
    BY <1>0, <1>12 DEF Fits, Schema!CheckWidths
  <2>2. table.is = "ours"
    BY <1>0, <1>12 DEF Fits, Schema!CheckWidths
  <2> QED  BY <1>4, GoesOn, <1>12, <2>1, <2>2 DEF Schema!CheckWidths, Schema!Schema, Schema!Narrow, Schema!Exists
<1>13. ASSUME NEW c \in Commands, Schema!Stop(c)  PROVE SchemaInv'
  <2>1. Fits("new", table, ledger, external)
    BY DEF Fits
  <2> QED  BY <1>4, GoesOn, <1>13, <2>1 DEF Schema!Stop, Schema!Schema
<1> QED  BY <1>1, <1>2, <1>3, <1>6, <1>7, <1>8, <1>9, <1>10, <1>11, <1>12, <1>13 DEF Schema!Next

LEMMA SchemaInit == Schema!Init => SchemaInv
<1> SUFFICES ASSUME Schema!Init  PROVE SchemaInv
  OBVIOUS
<1>1. /\ table \in Schema!Tables /\ ledger \in BOOLEAN /\ external \in BOOLEAN /\ origin = <<table, ledger>>
      /\ command = [c \in Commands |-> [kind |-> "none", pc |-> "new"]]
  BY DEF Schema!Init
<1>2. origin[1] = table /\ origin[2] = ledger
  BY <1>1
<1> QED  BY <1>1, <1>2 DEF SchemaInv, TableInv, Fits, Command, CommandPcs

(* For any commands, pods and moments at which they stop: whoever is told  *)
(* that the schema is ready finds it ready, and a foreign table is not     *)
(* touched: migrateTaskStore, checkTaskStoreSchema.                        *)
THEOREM SchemaSafe == MCSpec => []SchemaIsReady
<1>1. MCInit => SchemaInv
  BY SchemaInit DEF MCInit
<1>2. SchemaInv /\ [MCNext]_allVars => SchemaInv'
  <2>1. [MCNext]_allVars => [Schema!Next]_schemaVars
    BY DEF MCNext, allVars, schemaVars
  <2> QED  BY <2>1, SchemaStep
<1>3. SchemaInv => SchemaIsReady
  <2>1. SUFFICES ASSUME SchemaInv  PROVE SchemaIsReady
    OBVIOUS
  <2>2. ASSUME NEW c \in Commands, command[c].pc = "ready"  PROVE table = [is |-> "ours", wide |-> TRUE] /\ (external \/ ledger)
    BY <2>1, <2>2, TableFacts DEF SchemaInv, TableInv, Fits
  <2> QED  BY <2>1, <2>2 DEF SchemaInv, TableInv, SchemaIsReady, Schema!SchemaIsReady
<1> QED  BY <1>1, <1>2, <1>3, PTL DEF MCSpec

--------------------------------------------------------------------------------
(* The Postgres store of the Python host.                                  *)
TaskRow == [owner : Owners, ended : BOOLEAN, old : BOOLEAN]
Saver == [pc : {"new", "write", "refused", "ignored"}, id : Ids, owner : Owners, ended : BOOLEAN]
JobPcs == {"new", "create", "exists", "columns", "widen", "widths", "terminal", "stale", "ready", "failed"}
Job == [kind : {"none", "migrate", "cleanup", "pod"}, stale : BOOLEAN, pc : JobPcs]

OwnersInv ==
  /\ task \in [Ids -> TaskRow \cup {None}] /\ saver \in [Savers -> Saver] /\ passed \in [Ids -> SUBSET Savers]
  /\ Postgres!OwnersKept

(* A job that is past its look at the columns has found a table of tasks.  *)
Found(pc, r, d) ==
  /\ pc \in {"widen", "widths", "terminal", "stale", "ready"} => r.is = "ours"
  /\ pc \in {"terminal", "stale", "ready"} => (d = "postgresql" => r.wide)

RelationInv ==
  /\ relation \in Postgres!Relations
  /\ found.is = "foreign" => relation = found
  /\ job \in [Jobs -> Job] /\ \A j \in Jobs : Found(job[j].pc, relation, dialect)

(* What keeps the rows of an owner: the save changes one, or none.         *)
LEMMA SaverPc ==
  ASSUME saver \in [Savers -> Saver], NEW s \in Savers, NEW pc \in {"new", "write", "refused", "ignored"},
         saver' = [saver EXCEPT ![s].pc = pc]
  PROVE  /\ saver' \in [Savers -> Saver] /\ saver'[s].pc = pc
         /\ saver'[s].id = saver[s].id /\ saver'[s].owner = saver[s].owner /\ saver'[s].ended = saver[s].ended
         /\ \A v \in Savers \ {s} : saver'[v] = saver[v]
<1> DEFINE q == [saver[s] EXCEPT !.pc = pc]
<1>1. q \in Saver /\ q.pc = pc /\ q.id = saver[s].id /\ q.owner = saver[s].owner /\ q.ended = saver[s].ended
  BY DEF Saver
<1>2. saver' = [saver EXCEPT ![s] = q]
  OBVIOUS
<1> HIDE DEF q
<1> QED  BY <1>1, <1>2

LEMMA CheckOwners ==
  ASSUME OwnersInv, NEW s \in Savers, Postgres!Check(s)
  PROVE  OwnersInv'
<1>1. /\ saver' = [saver EXCEPT ![s].pc = Postgres!AfterCheck(s, task[saver[s].id])] /\ UNCHANGED <<task, passed>>
      /\ saver[s] \in Saver /\ saver[s].id \in Ids
  BY DEF Postgres!Check, OwnersInv, Saver
<1>2. Postgres!AfterCheck(s, task[saver[s].id]) \in {"new", "write", "refused", "ignored"}
  BY DEF Postgres!AfterCheck
<1>3. /\ saver' \in [Savers -> Saver] /\ saver'[s].pc = Postgres!AfterCheck(s, task[saver[s].id])
      /\ saver'[s].id = saver[s].id /\ saver'[s].owner = saver[s].owner
      /\ \A v \in Savers \ {s} : saver'[v] = saver[v]
  BY <1>1, <1>2, SaverPc DEF OwnersInv
<1>4. Postgres!OwnersKept'
  <2>1. SUFFICES ASSUME NEW i \in Ids, task[i] # None, NEW v \in Savers, saver'[v].pc = "write", saver'[v].id = i,
                        task[i].ended \/ task[i].owner # saver'[v].owner
                 PROVE  v \in passed[i]
    BY <1>1 DEF Postgres!OwnersKept, Postgres!Past
  <2>2. CASE v = s
    BY <1>1, <1>3, <2>1, <2>2 DEF Postgres!AfterCheck
  <2>3. CASE v # s
    BY <1>3, <2>1, <2>3 DEF OwnersInv, Postgres!OwnersKept, Postgres!Past
  <2> QED  BY <2>2, <2>3
<1> QED  BY <1>1, <1>3, <1>4 DEF OwnersInv

LEMMA MergeOwners ==
  ASSUME OwnersInv, NEW s \in Savers, Postgres!Merge(s)
  PROVE  OwnersInv'
<1> DEFINE i == saver[s].id
           row == [owner |-> saver[s].owner, ended |-> saver[s].ended, old |-> FALSE]
           late == IF task[i] # None /\ task[i].owner = row.owner /\ task[i].ended = row.ended
                   THEN passed[i] \ {s} ELSE Postgres!Past(i) \ {s}
<1>1. saver[s] \in Saver /\ i \in Ids /\ row \in TaskRow /\ saver' = [saver EXCEPT ![s].pc = "new"]
  BY DEF OwnersInv, Saver, TaskRow, Postgres!Merge
<1>2. task' = [task EXCEPT ![i] = row] /\ passed' = [passed EXCEPT ![i] = late]
  BY DEF Postgres!Merge, OwnersInv
<1>3. late \subseteq Savers
  BY <1>1 DEF OwnersInv, Postgres!Past
<1>4. saver' \in [Savers -> Saver] /\ saver'[s].pc = "new" /\ \A v \in Savers \ {s} : saver'[v] = saver[v]
  BY <1>1, SaverPc DEF OwnersInv
<1>5. ASSUME NEW v \in Savers, v # s, saver[v].pc = "write", saver[v].id = i, row.ended \/ row.owner # saver[v].owner
      PROVE  v \in late
  BY <1>1, <1>5 DEF OwnersInv, Postgres!OwnersKept, Postgres!Past
<1> HIDE DEF row, late
<1>6. Postgres!OwnersKept'
  <2>1. SUFFICES ASSUME NEW k \in Ids, task'[k] # None, NEW v \in Savers, saver'[v].pc = "write", saver'[v].id = k,
                        task'[k].ended \/ task'[k].owner # saver'[v].owner
                 PROVE  v \in passed'[k]
    BY DEF Postgres!OwnersKept, Postgres!Past
  <2>2. v # s /\ saver'[v] = saver[v]
    BY <1>4, <2>1
  <2>3. CASE k = i
    BY <1>1, <1>2, <1>5, <2>1, <2>2, <2>3 DEF OwnersInv
  <2>4. CASE k # i
    BY <1>1, <1>2, <2>1, <2>2, <2>4 DEF OwnersInv, Postgres!OwnersKept, Postgres!Past
  <2> QED  BY <2>3, <2>4
<1>7. task' \in [Ids -> TaskRow \cup {None}] /\ passed' \in [Ids -> SUBSET Savers]
  BY <1>1, <1>2, <1>3 DEF OwnersInv
<1> QED  BY <1>4, <1>6, <1>7 DEF OwnersInv

LEMMA OtherOwners ==
  ASSUME OwnersInv,
         \/ \E s \in Savers : Postgres!Again(s)
         \/ \E i \in Ids : Postgres!Age(i)
         \/ \E j \in Jobs : Postgres!DeleteBatch(j)
         \/ UNCHANGED Postgres!rowVars
  PROVE  OwnersInv'
<1>1. ASSUME NEW s \in Savers, Postgres!Again(s)  PROVE OwnersInv'
  <2>1. saver' = [saver EXCEPT ![s].pc = "new"] /\ UNCHANGED <<task, passed>>
    BY <1>1 DEF Postgres!Again
  <2>2. saver' \in [Savers -> Saver] /\ saver'[s].pc = "new" /\ \A v \in Savers \ {s} : saver'[v] = saver[v]
    BY <2>1, SaverPc DEF OwnersInv
  <2> QED  BY <2>1, <2>2 DEF OwnersInv, Postgres!OwnersKept, Postgres!Past
<1>2. ASSUME NEW i \in Ids, Postgres!Age(i)  PROVE OwnersInv'
  <2> DEFINE row == [task[i] EXCEPT !.old = TRUE]
  <2>1. task[i] \in TaskRow /\ task' = [task EXCEPT ![i] = row] /\ UNCHANGED <<saver, passed>>
    BY <1>2 DEF Postgres!Age, OwnersInv
  <2>2. row \in TaskRow /\ row.owner = task[i].owner /\ row.ended = task[i].ended /\ task[i] # None
    BY <1>2, <2>1 DEF TaskRow, Postgres!Age
  <2> HIDE DEF row
  <2> QED  BY <2>1, <2>2 DEF OwnersInv, Postgres!OwnersKept, Postgres!Past
<1>3. ASSUME NEW j \in Jobs, Postgres!DeleteBatch(j)  PROVE OwnersInv'
  <2>1. PICK D \in SUBSET Postgres!Old(j) :
          /\ task' = [i \in Ids |-> IF i \in D THEN None ELSE task[i]]
          /\ passed' = [i \in Ids |-> IF i \in D THEN {} ELSE passed[i]]
    BY <1>3 DEF Postgres!DeleteBatch
  <2>2. UNCHANGED saver
    BY <1>3 DEF Postgres!DeleteBatch
  <2>3. task' \in [Ids -> TaskRow \cup {None}] /\ passed' \in [Ids -> SUBSET Savers]
    BY <2>1 DEF OwnersInv
  <2> QED  BY <2>1, <2>2, <2>3 DEF OwnersInv, Postgres!OwnersKept, Postgres!Past
<1>4. CASE UNCHANGED Postgres!rowVars
  BY <1>4 DEF Postgres!rowVars, OwnersInv, Postgres!OwnersKept, Postgres!Past
<1> QED  BY <1>1, <1>2, <1>3, <1>4

LEMMA OwnersStep == OwnersInv /\ [Postgres!PostgresNext]_postgresVars => OwnersInv'
<1> SUFFICES ASSUME OwnersInv, [Postgres!PostgresNext]_postgresVars  PROVE OwnersInv'
  OBVIOUS
<1>1. CASE UNCHANGED postgresVars
  BY <1>1, OtherOwners DEF postgresVars, Postgres!rowVars
<1>2. ASSUME NEW j \in Jobs,
             \/ Postgres!Run(j) \/ Postgres!Create(j) \/ Postgres!HasTable(j) \/ Postgres!AssertTaskTable(j)
             \/ Postgres!Widen(j) \/ Postgres!Widths(j) \/ Postgres!Stop(j)
      PROVE  OwnersInv'
  <2>1. UNCHANGED Postgres!rowVars
    BY <1>2 DEF Postgres!Run, Postgres!Create, Postgres!HasTable, Postgres!AssertTaskTable, Postgres!Widen,
                Postgres!Widths, Postgres!Stop
  <2> QED  BY <2>1, OtherOwners
<1>3. ASSUME NEW j \in Jobs, Postgres!DeleteBatch(j)  PROVE OwnersInv'
  BY <1>3, OtherOwners
<1>4. CASE Postgres!RowNext
  BY <1>4, CheckOwners, MergeOwners, OtherOwners DEF Postgres!RowNext
<1> QED  BY <1>1, <1>2, <1>3, <1>4, OtherOwners DEF Postgres!PostgresNext, Postgres!TableNext

--------------------------------------------------------------------------------
(* A job goes on where the table is as it must be; the table only grows.   *)
LEMMA RelationFacts ==
  ASSUME NEW r \in Postgres!Relations
  PROVE  /\ r.is \in {"absent", "foreign", "ours"} /\ r.wide \in BOOLEAN
         /\ r.is = "ours" => [r EXCEPT !.wide = TRUE] \in Postgres!Relations
                             /\ [r EXCEPT !.wide = TRUE].is = "ours" /\ [r EXCEPT !.wide = TRUE].wide
         /\ [is |-> "ours", wide |-> FALSE] \in Postgres!Relations
         /\ [is |-> "ours", wide |-> FALSE].is = "ours"
BY DEF Postgres!Relations

LEMMA JobTakes ==
  ASSUME RelationInv, NEW j \in Jobs, NEW n \in Job, job' = [job EXCEPT ![j] = n],
         relation' \in Postgres!Relations, found.is = "foreign" => relation' = relation, UNCHANGED <<found, dialect>>,
         relation.is = "ours" => relation'.is = "ours" /\ (relation.wide => relation'.wide),
         Found(n.pc, relation', dialect)
  PROVE  RelationInv'
<1>1. job' \in [Jobs -> Job] /\ job'[j] = n /\ \A k \in Jobs \ {j} : job'[k] = job[k]
  BY DEF RelationInv
<1>2. \A k \in Jobs : Found(job[k].pc, relation', dialect)
  BY DEF RelationInv, Found
<1>3. \A k \in Jobs : Found(job'[k].pc, relation', dialect')
  BY <1>1, <1>2
<1> QED  BY <1>1, <1>3 DEF RelationInv

LEMMA JobGoes ==
  ASSUME RelationInv, NEW j \in Jobs, NEW pc \in JobPcs, Postgres!Goes(j, pc),
         relation' \in Postgres!Relations, found.is = "foreign" => relation' = relation, UNCHANGED <<found, dialect>>,
         relation.is = "ours" => relation'.is = "ours" /\ (relation.wide => relation'.wide),
         Found(pc, relation', dialect)
  PROVE  RelationInv'
<1> DEFINE n == [job[j] EXCEPT !.pc = pc]
<1>1. n \in Job /\ n.pc = pc /\ job' = [job EXCEPT ![j] = n]
  BY DEF RelationInv, Job, Postgres!Goes
<1> HIDE DEF n
<1> QED  BY <1>1, JobTakes

LEMMA JobStays ==
  ASSUME RelationInv, NEW j \in Jobs, NEW pc \in JobPcs, Postgres!Goes(j, pc), UNCHANGED <<relation, found, dialect>>,
         Found(pc, relation, dialect)
  PROVE  RelationInv'
BY JobGoes DEF RelationInv

LEMMA RunRelation ==
  ASSUME RelationInv, NEW j \in Jobs, Postgres!Run(j) \/ Postgres!Stop(j)
  PROVE  RelationInv'
<1>1. UNCHANGED <<relation, found, dialect>> /\ relation \in Postgres!Relations
  BY DEF Postgres!Run, Postgres!Stop, RelationInv
<1>2. PICK n \in Job : job' = [job EXCEPT ![j] = n] /\ n.pc \in {"new", "create", "exists"}
  <2>1. CASE Postgres!Stop(j)
    <3>1. job' = [job EXCEPT ![j] = Postgres!NoJob]
      BY <2>1 DEF Postgres!Stop
    <3>2. Postgres!NoJob \in Job /\ Postgres!NoJob.pc = "new"
      BY DEF Postgres!NoJob, Job, JobPcs
    <3> QED  BY <3>1, <3>2
  <2>2. CASE Postgres!Run(j)
    <3>1. PICK kind \in {"migrate", "cleanup", "pod"} : \E stale \in BOOLEAN :
            job' = [job EXCEPT ![j] = [kind |-> kind, stale |-> stale,
                                       pc |-> IF kind = "migrate" THEN "create" ELSE "exists"]]
      BY <2>2 DEF Postgres!Run
    <3>2. PICK stale \in BOOLEAN :
            job' = [job EXCEPT ![j] = [kind |-> kind, stale |-> stale,
                                       pc |-> IF kind = "migrate" THEN "create" ELSE "exists"]]
      BY <3>1
    <3> DEFINE pc == IF kind = "migrate" THEN "create" ELSE "exists"
               n == [kind |-> kind, stale |-> stale, pc |-> pc]
    <3>3. n \in Job /\ n.pc \in {"create", "exists"}
      BY DEF Job, JobPcs
    <3>4. job' = [job EXCEPT ![j] = n]
      BY <3>2
    <3> HIDE DEF n
    <3> QED  BY <3>3, <3>4
  <2> QED  BY <2>1, <2>2
<1>3. Found(n.pc, relation', dialect)
  BY <1>2 DEF Found
<1> QED  BY <1>1, <1>2, <1>3, JobTakes

LEMMA CreateRelation ==
  ASSUME RelationInv, NEW j \in Jobs, Postgres!Create(j)
  PROVE  RelationInv'
<1>1. /\ Postgres!Goes(j, "columns") /\ UNCHANGED <<dialect, found>> /\ relation \in Postgres!Relations
      /\ relation' = IF relation.is = "absent" THEN [is |-> "ours", wide |-> FALSE] ELSE relation
      /\ found.is = "foreign" => relation = found
  BY DEF Postgres!Create, RelationInv
<1>2. Found("columns", relation', dialect) /\ "columns" \in JobPcs
  BY DEF Found, JobPcs
<1>3. relation' \in Postgres!Relations
  BY <1>1, RelationFacts
<1> QED  BY <1>1, <1>2, <1>3, RelationFacts, JobGoes

LEMMA WidenRelation ==
  ASSUME RelationInv, NEW j \in Jobs, Postgres!Widen(j)
  PROVE  RelationInv'
<1>1. /\ Postgres!Goes(j, "ready") /\ UNCHANGED <<dialect, found>> /\ relation \in Postgres!Relations
      /\ relation' = IF dialect = "postgresql" THEN [relation EXCEPT !.wide = TRUE] ELSE relation
      /\ found.is = "foreign" => relation = found
      /\ relation.is = "ours"
  BY DEF Postgres!Widen, RelationInv, Found
<1>2. /\ relation' \in Postgres!Relations /\ relation'.is = "ours" /\ found.is # "foreign"
      /\ dialect = "postgresql" \/ relation.wide => relation'.wide
  BY <1>1, RelationFacts
<1>3. Found("ready", relation', dialect) /\ "ready" \in JobPcs
  BY <1>2 DEF Found, JobPcs
<1> QED  BY <1>1, <1>2, <1>3, JobGoes

(* The looks at the table, and the batches, change nothing of it.          *)
LEMMA LookRelation ==
  ASSUME RelationInv, NEW j \in Jobs,
         \/ Postgres!HasTable(j) \/ Postgres!AssertTaskTable(j) \/ Postgres!Widths(j) \/ Postgres!DeleteBatch(j)
  PROVE  RelationInv'
<1>1. Found(job[j].pc, relation, dialect)
  BY DEF RelationInv
<1>2. CASE Postgres!HasTable(j)
  <2> DEFINE pc == IF relation.is = "absent" THEN "failed" ELSE "columns"
  <2>1. Postgres!Goes(j, pc) /\ UNCHANGED <<relation, found, dialect>>
    BY <1>2 DEF Postgres!HasTable
  <2>2. pc \in JobPcs /\ Found(pc, relation, dialect)
    BY DEF JobPcs, Found
  <2> QED  BY <2>1, <2>2, JobStays
<1>3. CASE Postgres!AssertTaskTable(j)
  <2> DEFINE pc == Postgres!AfterColumns(job[j].kind)
  <2>1. Postgres!Goes(j, pc) /\ UNCHANGED <<relation, found, dialect>>
    BY <1>3 DEF Postgres!AssertTaskTable
  <2>2. pc \in JobPcs /\ Found(pc, relation, dialect)
    BY DEF JobPcs, Found, Postgres!AfterColumns
  <2> QED  BY <2>1, <2>2, JobStays
<1>4. CASE Postgres!Widths(j)
  <2> DEFINE pc == IF dialect = "postgresql" /\ ~relation.wide THEN "failed"
                   ELSE IF job[j].kind = "cleanup" THEN "terminal" ELSE "ready"
  <2>1. Postgres!Goes(j, pc) /\ UNCHANGED <<relation, found, dialect>> /\ job[j].pc = "widths"
    BY <1>4 DEF Postgres!Widths
  <2>2. pc \in JobPcs /\ Found(pc, relation, dialect)
    BY <1>1, <2>1 DEF JobPcs, Found
  <2> QED  BY <2>1, <2>2, JobStays
<1>5. CASE Postgres!DeleteBatch(j)
  <2>1. PICK pc \in {job[j].pc, "stale", "ready"} : Postgres!Goes(j, pc)
    BY <1>5 DEF Postgres!DeleteBatch, Postgres!Goes
  <2>2. job[j].pc \in {"terminal", "stale"} /\ UNCHANGED <<relation, found, dialect>>
    BY <1>5 DEF Postgres!DeleteBatch
  <2>3. pc \in JobPcs /\ Found(pc, relation, dialect)
    BY <1>1, <2>2 DEF JobPcs, Found
  <2> QED  BY <2>1, <2>2, <2>3, JobStays
<1> QED  BY <1>2, <1>3, <1>4, <1>5

LEMMA RelationStep == RelationInv /\ [Postgres!PostgresNext]_postgresVars => RelationInv'
<1> SUFFICES ASSUME RelationInv, [Postgres!PostgresNext]_postgresVars  PROVE RelationInv'
  OBVIOUS
<1>1. CASE UNCHANGED Postgres!tableVars
  BY <1>1 DEF Postgres!tableVars, RelationInv
<1>2. CASE UNCHANGED postgresVars
  BY <1>1, <1>2 DEF postgresVars, Postgres!tableVars
<1>3. CASE Postgres!RowNext \/ \E i \in Ids : Postgres!Age(i)
  BY <1>1, <1>3 DEF Postgres!RowNext, Postgres!Check, Postgres!Merge, Postgres!Again, Postgres!Age
<1>4. CASE Postgres!TableNext
  BY <1>4, RunRelation, CreateRelation, WidenRelation, LookRelation DEF Postgres!TableNext
<1> QED  BY <1>2, <1>3, <1>4 DEF Postgres!PostgresNext

LEMMA OwnedInit == Postgres!PostgresInit => OwnersInv /\ RelationInv
<1> SUFFICES ASSUME Postgres!PostgresInit  PROVE OwnersInv /\ RelationInv
  OBVIOUS
<1>1. OwnersInv
  <2>1. saver \in [Savers -> Saver]
    BY DEF Postgres!PostgresInit, Saver
  <2>2. task = [i \in Ids |-> None] /\ passed = [i \in Ids |-> {}]
    BY DEF Postgres!PostgresInit
  <2> QED  BY <2>1, <2>2 DEF OwnersInv, Postgres!OwnersKept
<1>2. RelationInv
  <2>1. Postgres!NoJob \in Job /\ Postgres!NoJob.pc = "new"
    BY DEF Postgres!NoJob, Job, JobPcs
  <2>2. job \in [Jobs -> Job] /\ \A j \in Jobs : job[j].pc = "new"
    BY <2>1 DEF Postgres!PostgresInit
  <2> QED  BY <2>2 DEF Postgres!PostgresInit, RelationInv, Found
<1> QED  BY <1>1, <1>2

(* Among the saves of several replicas, a task leaves its owner, or opens  *)
(* again, only by a save whose check came before; and a table is declared  *)
(* ready, or emptied, only when it is one of tasks (postgres_task_store).  *)
THEOREM OwnedSafe == MCSpec => []OwnedTasksKept
<1>1. MCInit => OwnersInv /\ RelationInv
  BY OwnedInit DEF MCInit
<1>2. OwnersInv /\ RelationInv /\ [MCNext]_allVars => (OwnersInv /\ RelationInv)'
  <2>1. [MCNext]_allVars => [Postgres!PostgresNext]_postgresVars
    BY DEF MCNext, allVars, postgresVars
  <2> QED  BY <2>1, OwnersStep, RelationStep
<1>3. OwnersInv /\ RelationInv => OwnedTasksKept
  BY DEF OwnersInv, RelationInv, Found, OwnedTasksKept, Postgres!OwnedTasksKept, Postgres!TableReady
<1> QED  BY <1>1, <1>2, <1>3, PTL DEF MCSpec

--------------------------------------------------------------------------------
(* The tasks of an owner in Redis: the order of a list.                    *)
Ahead(x, a, y, b) == Redis!Written(x) > Redis!Written(y) \/ (Redis!Written(x) = Redis!Written(y) /\ a > b)
Stamps == [TaskIds -> Nat]
InOrder(tasks, s) == \A i, j \in DOMAIN s : i < j => Ahead(tasks[s[i]], s[i], tasks[s[j]], s[j])

LEMMA BeforeIsAhead == \A tasks, a, b : Redis!Before(tasks, a, b) <=> Ahead(tasks[a], a, tasks[b], b)
BY DEF Redis!Before, Ahead

LEMMA AheadOrders ==
  ASSUME NEW tasks \in Stamps
  PROVE  /\ \A a \in TaskIds : ~Ahead(tasks[a], a, tasks[a], a)
         /\ \A a, b \in TaskIds : a # b => Ahead(tasks[a], a, tasks[b], b) \/ Ahead(tasks[b], b, tasks[a], a)
         /\ \A a, b, c \in TaskIds :
              Ahead(tasks[a], a, tasks[b], b) /\ Ahead(tasks[b], b, tasks[c], c) => Ahead(tasks[a], a, tasks[c], c)
<1>1. \A a \in TaskIds : Redis!Written(tasks[a]) \in Int /\ a \in Nat
  BY TasksAssumption DEF Redis!Written, Stamps
<1> QED  BY <1>1 DEF Ahead

LEMMA SameCardinality == \A S : Redis!Cardinality(S) = Cardinality(S)
BY DEF Redis!Cardinality, Cardinality

(* The place of a task is the number of those that are not behind it.      *)
LEMMA SortedExists ==
  ASSUME NEW tasks \in Stamps, NEW S \in SUBSET TaskIds
  PROVE  \E s \in [1 .. Cardinality(S) -> S] : InOrder(tasks, s)
<1> DEFINE n == Cardinality(S)
           Upto(a) == {b \in S : b = a \/ Ahead(tasks[b], b, tasks[a], a)}
           place == [a \in S |-> Cardinality(Upto(a))]
<1>1. IsFiniteSet(S) /\ n \in Nat
  BY TasksAssumption, FS_Subset, FS_CardinalityType
<1>2. ASSUME NEW a \in S  PROVE IsFiniteSet(Upto(a)) /\ place[a] \in 1 .. n /\ place[a] = Cardinality(Upto(a))
  <2>1. Upto(a) \in SUBSET S
    OBVIOUS
  <2>2. IsFiniteSet(Upto(a)) /\ Cardinality(Upto(a)) <= n
    BY <1>1, <2>1, FS_Subset
  <2>3. Cardinality(Upto(a)) \in Nat /\ Cardinality(Upto(a)) # 0
    <3>1. a \in Upto(a)
      OBVIOUS
    <3> HIDE DEF Upto
    <3> QED  BY <2>2, <3>1, FS_CardinalityType, FS_EmptySet
  <2> HIDE DEF Upto
  <2> QED  BY <1>1, <2>2, <2>3
<1>3. ASSUME NEW a \in S, NEW b \in S, Ahead(tasks[a], a, tasks[b], b)  PROVE place[a] < place[b]
  <2>1. Upto(a) \in SUBSET Upto(b) /\ b \in Upto(b) /\ b \notin Upto(a)
    BY <1>3, AheadOrders
  <2> HIDE DEF Upto
  <2>2. Cardinality(Upto(a)) <= Cardinality(Upto(b)) /\ Cardinality(Upto(a)) # Cardinality(Upto(b))
    BY <1>2, <2>1, FS_Subset
  <2>3. place[a] \in Nat /\ place[b] \in Nat
    BY <1>2
  <2> HIDE DEF place
  <2> QED  BY <1>2, <2>2, <2>3
<1> HIDE DEF Upto
<1>4. place \in [S -> 1 .. n]
  BY <1>2
<1> HIDE DEF place
<1>5. \A a, b \in S : place[a] = place[b] => a = b
  <2>1. SUFFICES ASSUME NEW a \in S, NEW b \in S, place[a] = place[b], a # b  PROVE FALSE
    OBVIOUS
  <2>2. place[a] < place[b] \/ place[b] < place[a]
    BY <1>3, <2>1, AheadOrders
  <2> QED  BY <1>4, <2>1, <2>2
<1>6. Cardinality(1 .. n) = n /\ IsFiniteSet(1 .. n)
  BY <1>1, FS_Interval
<1>7. \A i \in 1 .. n : \E a \in S : place[a] = i
  <2>1. SUFFICES ASSUME NEW i \in 1 .. n, \A a \in S : place[a] # i  PROVE FALSE
    OBVIOUS
  <2>2. place \in [S -> (1 .. n) \ {i}]
    BY <1>4, <2>1
  <2>3. IsFiniteSet((1 .. n) \ {i}) /\ Cardinality((1 .. n) \ {i}) = n - 1
    <3> DEFINE D == 1 .. n
    <3>1. Cardinality(D) = n /\ IsFiniteSet(D) /\ i \in D
      BY <1>6
    <3> HIDE DEF D
    <3>2. IsFiniteSet(D \ {i}) /\ Cardinality(D \ {i}) = n - 1
      BY <3>1, FS_RemoveElement
    <3> QED  BY <3>2 DEF D
  <2>4. Cardinality((1 .. n) \ {i}) < Cardinality(S)
    BY <1>1, <2>3
  <2>5. \E a, b \in S : a # b /\ place[a] = place[b]
    BY <1>1, <2>2, <2>3, <2>4, FS_PigeonHole
  <2> QED  BY <1>5, <2>5
<1> DEFINE s == [i \in 1 .. n |-> CHOOSE a \in S : place[a] = i]
<1>8. \A i \in 1 .. n : s[i] \in S /\ place[s[i]] = i
  BY <1>7
<1>9. s \in [1 .. n -> S] /\ DOMAIN s = 1 .. n
  BY <1>8
<1> HIDE DEF s
<1>10. InOrder(tasks, s)
  <2>1. SUFFICES ASSUME NEW i \in 1 .. n, NEW j \in 1 .. n, i < j  PROVE Ahead(tasks[s[i]], s[i], tasks[s[j]], s[j])
    BY <1>9 DEF InOrder
  <2>2. s[i] \in TaskIds /\ s[j] \in TaskIds /\ s[i] # s[j]
    BY <1>8, <1>9, <2>1
  <2>3. ~Ahead(tasks[s[j]], s[j], tasks[s[i]], s[i])
    <3>1. SUFFICES ASSUME Ahead(tasks[s[j]], s[j], tasks[s[i]], s[i])  PROVE FALSE
      OBVIOUS
    <3>2. place[s[j]] < place[s[i]]
      BY <1>3, <1>9, <2>1, <3>1
    <3> QED  BY <1>8, <2>1, <3>2
  <2> QED  BY <2>2, <2>3, AheadOrders
<1> QED  BY <1>9, <1>10

LEMMA SortedFacts ==
  ASSUME NEW tasks \in Stamps, NEW S \in SUBSET TaskIds, NEW s \in [1 .. Cardinality(S) -> S], InOrder(tasks, s)
  PROVE  s \in Seq(TaskIds) /\ Len(s) = Cardinality(S) /\ (\A a \in S : \E i \in 1 .. Len(s) : s[i] = a)
<1> DEFINE n == Cardinality(S)
<1>1. IsFiniteSet(S) /\ n \in Nat
  BY TasksAssumption, FS_Subset, FS_CardinalityType
<1> HIDE DEF n
<1>2. s \in Seq(TaskIds) /\ Len(s) = n
  BY <1>1 DEF n
<1>3. \A i, j \in 1 .. n : s[i] = s[j] => i = j
  <2>1. SUFFICES ASSUME NEW i \in 1 .. n, NEW j \in 1 .. n, i < j, s[i] = s[j]  PROVE FALSE
    BY <1>1
  <2>2. Ahead(tasks[s[i]], s[i], tasks[s[j]], s[j]) /\ s[i] \in TaskIds
    BY <2>1 DEF InOrder, n
  <2> QED  BY <2>1, <2>2, AheadOrders
<1>4. ASSUME NEW a \in S, \A i \in 1 .. n : s[i] # a  PROVE FALSE
  <2>1. s \in [1 .. n -> S \ {a}]
    BY <1>4 DEF n
  <2>2. IsFiniteSet(S \ {a}) /\ Cardinality(S \ {a}) = n - 1
    BY <1>1, FS_RemoveElement DEF n
  <2>3. IsFiniteSet(1 .. n) /\ Cardinality(1 .. n) = n
    BY <1>1, FS_Interval
  <2>4. Cardinality(S \ {a}) < Cardinality(1 .. n)
    BY <1>1, <2>2, <2>3
  <2>5. \E x, y \in 1 .. n : x # y /\ s[x] = s[y]
    BY <2>1, <2>2, <2>3, <2>4, FS_PigeonHole
  <2> QED  BY <1>3, <2>5
<1> QED  BY <1>2, <1>4 DEF n

LEMMA OrderedFacts ==
  ASSUME lister.found \in Stamps
  PROVE  LET o == Redis!Ordered IN
         /\ o \in Seq(TaskIds) /\ DOMAIN o = 1 .. Len(o) /\ Len(o) \in Nat /\ InOrder(lister.found, o)
         /\ \A i \in 1 .. Len(o) : lister.found[o[i]] # 0
         /\ \A a \in TaskIds : lister.found[a] # 0 => \E i \in 1 .. Len(o) : o[i] = a
<1> DEFINE S == {t \in TaskIds : lister.found[t] # 0}
           Sorted(s) == s \in [1 .. Cardinality(S) -> S] /\ InOrder(lister.found, s)
<1>1. S \in SUBSET TaskIds /\ Redis!Found = S
  BY DEF Redis!Found, Redis!Gone
<1>2. Redis!Ordered = CHOOSE s \in [1 .. Cardinality(S) -> S] : InOrder(lister.found, s)
  <2>1. Redis!Cardinality(S) = Cardinality(S)
    BY SameCardinality
  <2> HIDE DEF S
  <2>2. \A s : InOrder(lister.found, s) <=> \A i, j \in DOMAIN s : i < j => Redis!Before(lister.found, s[i], s[j])
    BY BeforeIsAhead DEF InOrder
  <2> QED  BY <1>1, <2>1, <2>2 DEF Redis!Ordered
<1> DEFINE o == Redis!Ordered
<1>3. Sorted(o)
  BY <1>1, <1>2, SortedExists
<1> HIDE DEF o, S
<1>4. o \in Seq(TaskIds) /\ Len(o) = Cardinality(S) /\ (\A a \in S : \E i \in 1 .. Len(o) : o[i] = a)
  BY <1>1, <1>3, SortedFacts
<1>5. DOMAIN o = 1 .. Len(o) /\ Len(o) \in Nat
  BY <1>4, LenProperties
<1>6. \A i \in 1 .. Len(o) : o[i] \in S
  BY <1>3, <1>5
<1> QED  BY <1>3, <1>4, <1>5, <1>6 DEF o, S

(* A page that is added to what was given.                                 *)
LEMMA PageFacts ==
  ASSUME NEW a \in Seq(TaskIds), NEW o \in Seq(TaskIds), NEW s \in Nat, NEW e \in Nat, 1 <= s, s <= e + 1, e <= Len(o)
  PROVE  LET b == a \o SubSeq(o, s, e) IN
         /\ b \in Seq(TaskIds) /\ Len(b) = Len(a) + (e + 1 - s) /\ DOMAIN b = 1 .. Len(b) /\ Len(a) \in Nat
         /\ \A i \in 1 .. Len(a) : b[i] = a[i]
         /\ \A i \in 1 .. e + 1 - s : b[Len(a) + i] = o[s + i - 1]
<1> DEFINE u == SubSeq(o, s, e)
           b == a \o u
<1>1. \A i \in s .. e : o[i] \in TaskIds
  BY ElementOfSeq
<1>2. u \in Seq(TaskIds) /\ Len(u) = (IF s <= e THEN e - s + 1 ELSE 0) /\ \A i \in 1 .. e - s + 1 : u[i] = o[s + i - 1]
  BY <1>1, SubSeqProperties
<1>3. Len(u) = e + 1 - s /\ Len(a) \in Nat
  BY <1>2, LenProperties
<1> HIDE DEF u
<1>4. /\ b \in Seq(TaskIds) /\ Len(b) = Len(a) + Len(u)
      /\ \A i \in 1 .. Len(a) + Len(u) : b[i] = IF i <= Len(a) THEN a[i] ELSE u[i - Len(a)]
  BY <1>2, ConcatProperties
<1>5. DOMAIN b = 1 .. Len(b)
  BY <1>4, LenProperties
<1> HIDE DEF b
<1>6. \A i \in 1 .. Len(a) : b[i] = a[i]
  BY <1>3, <1>4
<1>7. ASSUME NEW i \in 1 .. e + 1 - s  PROVE b[Len(a) + i] = o[s + i - 1]
  <2>1. Len(a) + i \in 1 .. Len(a) + Len(u) /\ ~(Len(a) + i <= Len(a)) /\ Len(a) + i - Len(a) = i
    BY <1>3
  <2>2. b[Len(a) + i] = u[i]
    BY <1>4, <2>1
  <2> QED  BY <1>2, <2>2
<1> QED  BY <1>3, <1>4, <1>5, <1>6, <1>7 DEF b, u

(* A list of the tasks of an owner.                                        *)
ListPcs == {"new", "reading", "paged", "done", "refused"}
Lister == [pc : ListPcs, todo : SUBSET TaskIds, found : Stamps, stale : SUBSET TaskIds, token : TaskIds \cup {0},
           seen : Seq(TaskIds)]
Steady == [tasks : SUBSET TaskIds, quiet : BOOLEAN, moved : BOOLEAN]
ListTyped == keys \in Stamps /\ index \subseteq TaskIds /\ tick \in Nat \ {0} /\ lister \in Lister /\ steady \in Steady

(* A task that is stored is in the index.                                  *)
IndexedInv(ks, in, l, late) ==
  /\ \A t \in TaskIds : ks[t] # 0 /\ t \notin in => t \in late
  /\ \A t \in l.stale : ks[t] # 0 => t \in late

(* What stayed as it was is read.                                          *)
SteadyInv(ks, in, l, st) ==
  /\ \A t \in st.tasks : ks[t] # 0 /\ t \in in /\ t \notin l.stale
  /\ l.pc = "reading" => \A t \in st.tasks : t \in l.todo \/ l.found[t] = ks[t]

(* A page starts with its token, wherever that is now; it has only moved up. *)
Passed(l, t) == \E i \in DOMAIN l.seen : l.seen[i] = t
Reached(ks, l, t) ==
  \/ Passed(l, t) \/ t = l.token
  \/ /\ ks[l.token] # 0 => Ahead(ks[l.token], l.token, ks[t], t)
     /\ l.pc = "reading" /\ l.found[l.token] # 0 => Ahead(l.found[l.token], l.token, ks[t], t)
MovedInv(ks, l, st) ==
  ~st.moved =>
    /\ \A t \in TaskIds : ks[t] # 0 /\ l.found[t] # 0 => Redis!Written(ks[t]) >= Redis!Written(l.found[t])
    /\ l.pc \in {"reading", "paged"} /\ l.token # 0 => \A t \in st.tasks : Reached(ks, l, t)
    /\ l.pc = "done" => \A t \in st.tasks : Passed(l, t)

(* While nothing changes, the pages are the list.                          *)
QuietInv(ks, in, l, st) ==
  st.quiet =>
    /\ ~st.moved
    /\ l.pc # "new" =>
         /\ \A t \in in : ks[t] # 0 => t \in st.tasks
         /\ InOrder(ks, l.seen) /\ \A i \in DOMAIN l.seen : l.seen[i] \in st.tasks
    /\ l.pc = "reading" => l.todo \subseteq in /\ \A t \in TaskIds : l.found[t] # 0 => t \in st.tasks /\ l.found[t] = ks[t]
    /\ l.pc \in {"reading", "paged"} =>
         /\ l.token = 0 => l.seen = <<>>
         /\ l.token # 0 => l.token \in st.tasks
         /\ l.token # 0 => \A i \in DOMAIN l.seen : Ahead(ks[l.seen[i]], l.seen[i], ks[l.token], l.token)

NewInv(l) == l.pc = "new" => l.seen = <<>> /\ l.token = 0 /\ l.stale = {}

ListInv ==
  /\ ListTyped /\ IndexedInv(keys, index, lister, overtaken) /\ SteadyInv(keys, index, lister, steady)
  /\ MovedInv(keys, lister, steady) /\ QuietInv(keys, index, lister, steady) /\ NewInv(lister)

(* A task is saved or goes.                                                *)
LEMMA ChangesFacts ==
  ASSUME ListTyped, NEW t \in TaskIds, NEW v \in Nat, keys' = [keys EXCEPT ![t] = v], Redis!Changes(t)
  PROVE  /\ keys' \in Stamps /\ keys'[t] = v /\ \A a \in TaskIds : a # t => keys'[a] = keys[a]
         /\ steady' \in Steady /\ steady'.tasks = steady.tasks \ {t} /\ steady'.quiet = FALSE
         /\ ~steady'.moved => ~steady.moved
         /\ ~steady'.moved /\ v # 0 /\ t = lister.token => keys[t] # 0
         /\ ~steady'.moved /\ v # 0 /\ keys[t] # 0 => Redis!Written(v) >= Redis!Written(keys[t])
         /\ ~steady'.moved /\ v # 0 /\ lister.found[t] # 0 => Redis!Written(v) >= Redis!Written(lister.found[t])
<1>1. keys' \in Stamps /\ keys'[t] = v /\ \A a \in TaskIds : a # t => keys'[a] = keys[a]
  BY DEF ListTyped, Stamps
<1> DEFINE low == Redis!Lower(t) \/ (t = lister.token /\ ~Redis!Stored(t))
           m == steady.moved \/ (v # 0 /\ low)
<1>2. steady' = [tasks |-> steady.tasks \ {t}, quiet |-> FALSE, moved |-> m]
  BY <1>1, Zenon DEF Redis!Changes, Redis!Gone
<1>3. m \in BOOLEAN
  OBVIOUS
<1>4. ~m => ~steady.moved /\ (v # 0 => ~low)
  OBVIOUS
<1> HIDE DEF m
<1>5. steady' \in Steady /\ steady'.tasks = steady.tasks \ {t} /\ steady'.quiet = FALSE /\ steady'.moved = m
  BY <1>2, <1>3 DEF ListTyped, Steady
<1>6. ASSUME ~low, v # 0
      PROVE  /\ t = lister.token => keys[t] # 0
             /\ keys[t] # 0 => Redis!Written(v) >= Redis!Written(keys[t])
             /\ lister.found[t] # 0 => Redis!Written(v) >= Redis!Written(lister.found[t])
  <2>1. \A n \in Nat : Redis!Written(n) \in Int
    BY DEF Redis!Written
  <2>2. keys[t] \in Nat /\ lister.found[t] \in Nat
    BY DEF ListTyped, Lister, Stamps
  <2> QED  BY <1>1, <1>6, <2>1, <2>2 DEF Redis!Lower, Redis!Stored, Redis!Gone
<1> HIDE DEF low
<1> QED  BY <1>1, <1>4, <1>5, <1>6

LEMMA ChangesList ==
  ASSUME ListInv, NEW t \in TaskIds, NEW v \in Nat, keys' = [keys EXCEPT ![t] = v], Redis!Changes(t),
         lister' = lister, Redis!Listing, index' \subseteq TaskIds, tick' \in Nat \ {0},
         \A a \in index : a = t \/ a \in index', IndexedInv(keys', index', lister, overtaken')
  PROVE  ListInv'
<1>0. ListTyped /\ lister \in Lister /\ lister.found \in Stamps /\ lister.pc # "done" /\ keys \in Stamps
      /\ steady.tasks \subseteq TaskIds
  BY DEF ListInv, ListTyped, Lister, Steady, Redis!Listing
<1>1. /\ keys' \in Stamps /\ keys'[t] = v /\ \A a \in TaskIds : a # t => keys'[a] = keys[a]
      /\ steady' \in Steady /\ steady'.tasks = steady.tasks \ {t} /\ steady'.quiet = FALSE
      /\ ~steady'.moved => ~steady.moved
      /\ ~steady'.moved /\ v # 0 /\ t = lister.token => keys[t] # 0
      /\ ~steady'.moved /\ v # 0 /\ keys[t] # 0 => Redis!Written(v) >= Redis!Written(keys[t])
      /\ ~steady'.moved /\ v # 0 /\ lister.found[t] # 0 => Redis!Written(v) >= Redis!Written(lister.found[t])
  BY <1>0, ChangesFacts
<1>2. SteadyInv(keys', index', lister, steady')
  BY <1>0, <1>1 DEF ListInv, SteadyInv
<1>3. MovedInv(keys', lister, steady')
  <2>1. SUFFICES ASSUME ~steady'.moved  PROVE MovedInv(keys', lister, steady')
    BY DEF MovedInv
  <2>2. \A n \in Nat : Redis!Written(n) \in Int
    BY DEF Redis!Written
  <2>3. \A a \in TaskIds : keys'[a] # 0 /\ lister.found[a] # 0 => Redis!Written(keys'[a]) >= Redis!Written(lister.found[a])
    BY <1>1, <2>1 DEF ListInv, MovedInv
  <2>4. ASSUME lister.pc \in {"reading", "paged"}, lister.token # 0, NEW a \in steady'.tasks
        PROVE  Reached(keys', lister, a)
    <3>1. a \in steady.tasks /\ a \in TaskIds /\ a # t /\ keys'[a] = keys[a] /\ lister.token \in TaskIds
      BY <1>0, <1>1, <2>4 DEF Lister
    <3>2. Reached(keys, lister, a)
      BY <1>1, <2>1, <2>4, <3>1 DEF ListInv, MovedInv
    <3>3. keys'[lister.token] # 0 => keys[lister.token] # 0 /\ Redis!Written(keys'[lister.token]) >= Redis!Written(keys[lister.token])
      <4>1. CASE lister.token = t
        BY <1>1, <2>1, <4>1
      <4>2. CASE lister.token # t
        BY <1>0, <1>1, <2>2, <3>1, <4>2 DEF Stamps
      <4> QED  BY <4>1, <4>2
    <3>4. keys'[lister.token] \in Nat /\ keys[lister.token] \in Nat /\ keys[a] \in Nat
      BY <1>0, <1>1, <3>1 DEF Stamps
    <3>5. keys'[lister.token] # 0 /\ Ahead(keys[lister.token], lister.token, keys[a], a)
            => Ahead(keys'[lister.token], lister.token, keys[a], a)
      BY <2>2, <3>3, <3>4 DEF Ahead
    <3> QED  BY <3>1, <3>2, <3>3, <3>5 DEF Reached
  <2> QED  BY <1>0, <2>3, <2>4 DEF MovedInv
<1>4. QuietInv(keys', index', lister, steady')
  BY <1>1 DEF QuietInv
<1>5. ListTyped'
  BY <1>0, <1>1 DEF ListTyped
<1> QED  BY <1>2, <1>3, <1>4, <1>5 DEF ListInv

LEMMA SaveList ==
  ASSUME ListInv, NEW t \in TaskIds, Redis!Save(t)
  PROVE  ListInv'
<1>1. /\ Redis!Listing /\ lister' = lister /\ Redis!Changes(t) /\ index' = index \cup {t}
      /\ tick' \in {tick, tick + 1} /\ keys' = [keys EXCEPT ![t] = tick']
      /\ overtaken' = IF t \in lister.stale THEN overtaken \cup {t} ELSE overtaken \ {t}
  BY DEF Redis!Save
<1>2. index' \subseteq TaskIds /\ tick' \in Nat \ {0} /\ lister.stale \subseteq TaskIds
  BY <1>1 DEF ListInv, ListTyped, Lister
<1>3. keys'[t] = tick' /\ \A a \in TaskIds : a # t => keys'[a] = keys[a]
  BY <1>1 DEF ListInv, ListTyped, Stamps
<1>4. IndexedInv(keys', index', lister, overtaken')
  BY <1>1, <1>2, <1>3 DEF ListInv, IndexedInv
<1> QED  BY <1>1, <1>2, <1>4, ChangesList

LEMMA GoneList ==
  ASSUME ListInv, NEW t \in TaskIds, Redis!Delete(t) \/ Redis!Expire(t)
  PROVE  ListInv'
<1>1. /\ Redis!Listing /\ lister' = lister /\ Redis!Changes(t) /\ index' \in {index, index \ {t}}
      /\ tick' = tick /\ keys' = [keys EXCEPT ![t] = 0] /\ overtaken' = overtaken
  BY DEF Redis!Delete, Redis!Expire, Redis!Gone
<1>2. index' \subseteq TaskIds /\ tick' \in Nat \ {0} /\ lister.stale \subseteq TaskIds
  BY <1>1 DEF ListInv, ListTyped, Lister
<1>3. keys'[t] = 0 /\ \A a \in TaskIds : a # t => keys'[a] = keys[a]
  BY <1>1 DEF ListInv, ListTyped, Stamps
<1>4. IndexedInv(keys', index', lister, overtaken')
  BY <1>1, <1>2, <1>3 DEF ListInv, IndexedInv
<1> QED  BY <1>1, <1>2, <1>4, ChangesList

(* The index is read.                                                      *)
LEMMA MembersList ==
  ASSUME ListInv, Redis!Members
  PROVE  ListInv'
<1> DEFINE nothing == [t \in TaskIds |-> 0]
<1>0. /\ lister.pc \in {"new", "paged"} /\ UNCHANGED <<keys, index, tick, overtaken>> /\ lister \in Lister
      /\ lister' = [lister EXCEPT !.pc = "reading", !.todo = index, !.found = nothing, !.stale = {}]
  BY DEF Redis!Members, Redis!Gone, ListInv, ListTyped
<1>1. nothing \in Stamps /\ \A t \in TaskIds : nothing[t] = 0
  BY DEF Stamps
<1> HIDE DEF nothing
<1>2. /\ lister' \in Lister /\ lister'.pc = "reading" /\ lister'.todo = index /\ lister'.found = nothing
      /\ lister'.stale = {} /\ lister'.token = lister.token /\ lister'.seen = lister.seen
  BY <1>0, <1>1 DEF Lister, ListPcs, ListInv, ListTyped
<1>3. \A t : Passed(lister', t) <=> Passed(lister, t)
  BY <1>2 DEF Passed
<1>4. IndexedInv(keys, index, lister', overtaken)
  BY <1>2 DEF ListInv, IndexedInv
<1>5. CASE lister.pc = "new"
  <2>1. steady' = [tasks |-> {t \in index : keys[t] # 0}, quiet |-> TRUE, moved |-> FALSE]
    BY <1>5 DEF Redis!Members, Redis!Stored, Redis!Gone
  <2>2. steady' \in Steady /\ steady'.tasks = {t \in index : keys[t] # 0} /\ steady'.moved = FALSE
    BY <2>1 DEF Steady, ListInv, ListTyped
  <2>3. lister.token = 0 /\ lister.seen = <<>>
    BY <1>5 DEF ListInv, NewInv
  <2>4. SteadyInv(keys, index, lister', steady')
    BY <1>2, <2>2 DEF SteadyInv
  <2>5. MovedInv(keys, lister', steady')
    BY <1>1, <1>2, <2>3 DEF MovedInv
  <2>6. DOMAIN lister'.seen = {}
    BY <1>2, <2>3
  <2>7. QuietInv(keys, index, lister', steady')
    BY <1>1, <1>2, <2>2, <2>3, <2>6 DEF QuietInv, InOrder
  <2> QED  BY <1>0, <1>2, <1>4, <2>2, <2>4, <2>5, <2>7 DEF ListInv, ListTyped, NewInv
<1>6. CASE lister.pc = "paged"
  <2>1. steady' = steady
    BY <1>6 DEF Redis!Members
  <2>2. SteadyInv(keys, index, lister', steady)
    BY <1>2 DEF SteadyInv, ListInv
  <2>3. \A t : Reached(keys, lister, t) /\ lister.token \in TaskIds => Reached(keys, lister', t)
    BY <1>1, <1>2, <1>3 DEF Reached
  <2>4. lister.token # 0 => lister.token \in TaskIds
    BY <1>0 DEF Lister
  <2>5. MovedInv(keys, lister', steady)
    BY <1>1, <1>2, <1>6, <2>3, <2>4 DEF MovedInv, ListInv
  <2>6. QuietInv(keys, index, lister', steady)
    BY <1>1, <1>2, <1>6 DEF QuietInv, ListInv
  <2> QED  BY <1>0, <1>2, <1>4, <2>1, <2>2, <2>5, <2>6 DEF ListInv, ListTyped, NewInv
<1> QED  BY <1>0, <1>5, <1>6

(* A key is read.                                                          *)
LEMMA LookUpList ==
  ASSUME ListInv, NEW t \in TaskIds, Redis!LookUp(t)
  PROVE  ListInv'
<1> DEFINE old == IF Redis!Stored(t) THEN lister.stale ELSE lister.stale \cup {t}
           read == [lister.found EXCEPT ![t] = keys[t]]
<1>0. /\ lister.pc = "reading" /\ t \in lister.todo /\ UNCHANGED <<keys, index, tick, overtaken, steady>>
      /\ lister \in Lister /\ lister.found \in Stamps /\ keys \in Stamps
      /\ lister' = [lister EXCEPT !.todo = lister.todo \ {t}, !.found = read, !.stale = old]
  BY DEF Redis!LookUp, ListInv, ListTyped, Lister
<1>1. read \in Stamps /\ read[t] = keys[t] /\ \A a \in TaskIds : a # t => read[a] = lister.found[a]
  BY <1>0 DEF Stamps
<1>2. old \in SUBSET TaskIds /\ \A a \in old : a \in lister.stale \/ (a = t /\ keys[t] = 0)
  BY <1>0 DEF Redis!Stored, Redis!Gone, Lister
<1> HIDE DEF read, old
<1>3. /\ lister' \in Lister /\ lister'.pc = "reading" /\ lister'.todo = lister.todo \ {t} /\ lister'.found = read
      /\ lister'.stale = old /\ lister'.token = lister.token /\ lister'.seen = lister.seen
  BY <1>0, <1>1, <1>2 DEF Lister
<1>4. steady.tasks \subseteq TaskIds /\ lister.token \in TaskIds \cup {0}
  BY <1>0 DEF ListInv, ListTyped, Steady, Lister
<1>5. IndexedInv(keys, index, lister', overtaken)
  BY <1>2, <1>3 DEF ListInv, IndexedInv
<1>6. SteadyInv(keys, index, lister', steady)
  BY <1>0, <1>1, <1>2, <1>3, <1>4 DEF ListInv, SteadyInv
<1>7. MovedInv(keys, lister', steady)
  <2>1. SUFFICES ASSUME ~steady.moved  PROVE MovedInv(keys, lister', steady)
    BY DEF MovedInv
  <2>2. \A a \in TaskIds : keys[a] # 0 /\ read[a] # 0 => Redis!Written(keys[a]) >= Redis!Written(read[a])
    <3>1. \A n \in Nat : Redis!Written(n) \in Int
      BY DEF Redis!Written
    <3>2. \A n \in Nat : Redis!Written(n) >= Redis!Written(n)
      BY <3>1
    <3> QED  BY <1>0, <1>1, <2>1, <3>2 DEF ListInv, MovedInv, Stamps
  <2>3. ASSUME lister.token # 0, NEW a \in steady.tasks  PROVE Reached(keys, lister', a)
    <3>1. Reached(keys, lister, a)
      BY <1>0, <2>1, <2>3 DEF ListInv, MovedInv
    <3>2. read[lister.token] \in {lister.found[lister.token], keys[lister.token]}
      BY <1>1, <1>4, <2>3
    <3> QED  BY <1>0, <1>3, <3>1, <3>2 DEF Reached, Passed
  <2> QED  BY <1>3, <2>2, <2>3 DEF MovedInv
<1>8. QuietInv(keys, index, lister', steady)
  <2>1. SUFFICES ASSUME steady.quiet  PROVE QuietInv(keys, index, lister', steady)
    BY DEF QuietInv
  <2>2. \A a \in TaskIds : read[a] # 0 => a \in steady.tasks /\ read[a] = keys[a]
    BY <1>0, <1>1, <2>1 DEF ListInv, QuietInv
  <2> QED  BY <1>0, <1>3, <2>1, <2>2 DEF ListInv, QuietInv
<1> QED  BY <1>0, <1>3, <1>5, <1>6, <1>7, <1>8 DEF ListInv, ListTyped, NewInv

(* A page is cut.                                                          *)
LEMMA AnswerList ==
  ASSUME ListInv, Redis!Answer
  PROVE  ListInv'
<1> DEFINE o == Redis!Ordered
           s == Redis!StartAt(o)
           end == s + PageLength
           next == IF end <= Len(o) THEN o[end] ELSE 0
           last == IF next = 0 THEN Len(o) ELSE end - 1
           kept == [steady EXCEPT !.tasks = steady.tasks \ lister.stale]
<1>0. /\ lister.pc = "reading" /\ lister.todo = {} /\ UNCHANGED <<keys, tick, overtaken>>
      /\ index' = index \ lister.stale /\ steady' = kept
      /\ lister \in Lister /\ lister.found \in Stamps /\ keys \in Stamps /\ lister.seen \in Seq(TaskIds)
      /\ lister.token \in TaskIds \cup {0} /\ lister.stale \subseteq TaskIds
      /\ steady \in Steady /\ steady.tasks \subseteq TaskIds
  BY DEF Redis!Answer, ListInv, ListTyped, Lister, Steady
<1>1. kept = steady
  <2>1. steady.tasks \ lister.stale = steady.tasks
    BY DEF ListInv, SteadyInv
  <2> QED  BY <1>0, <2>1 DEF Steady
<1> HIDE DEF kept
<1>2. /\ o \in Seq(TaskIds) /\ DOMAIN o = 1 .. Len(o) /\ Len(o) \in Nat /\ InOrder(lister.found, o)
      /\ \A i \in 1 .. Len(o) : o[i] \in TaskIds /\ lister.found[o[i]] # 0
      /\ \A a \in TaskIds : lister.found[a] # 0 => \E i \in 1 .. Len(o) : o[i] = a
  BY <1>0, OrderedFacts, ElementOfSeq
<1>3. \A t \in steady.tasks : t \in TaskIds /\ lister.found[t] = keys[t] /\ keys[t] # 0 /\ t \in index \ lister.stale
  BY <1>0 DEF ListInv, SteadyInv
<1>4. IndexedInv(keys, index', [lister EXCEPT !.stale = {}], overtaken)
  BY <1>0 DEF ListInv, IndexedInv
<1> HIDE DEF o
<1>5. CASE lister' = [lister EXCEPT !.pc = "refused", !.stale = {}]
  <2>1. /\ lister' \in Lister /\ lister'.pc = "refused" /\ lister'.stale = {} /\ lister'.seen = lister.seen
        /\ lister'.found = lister.found
    BY <1>0, <1>5 DEF Lister, ListPcs
  <2>indexed. IndexedInv(keys, index', lister', overtaken)
    BY <1>4, <2>1 DEF IndexedInv
  <2>steady. SteadyInv(keys, index', lister', steady)
    BY <1>0, <1>3, <2>1 DEF SteadyInv
  <2>moved. MovedInv(keys, lister', steady)
    BY <2>1 DEF ListInv, MovedInv
  <2>quiet. QuietInv(keys, index', lister', steady)
    BY <1>0, <2>1 DEF ListInv, QuietInv
  <2> QED  BY <1>0, <1>1, <2>1, <2>indexed, <2>steady, <2>moved, <2>quiet DEF ListInv, ListTyped, NewInv
<1>6. CASE /\ lister.token = 0 \/ \E i \in 1 .. Len(o) : o[i] = lister.token
           /\ lister' = [lister EXCEPT !.pc = IF next = 0 THEN "done" ELSE "paged", !.token = next, !.stale = {},
                                       !.seen = lister.seen \o SubSeq(o, s, last)]
  <2> DEFINE more == lister.seen \o SubSeq(o, s, last)
             n == Len(lister.seen)
  <2>1. s \in Nat /\ 1 <= s /\ s <= Len(o) + 1 /\ (lister.token = 0 => s = 1)
        /\ (lister.token # 0 => s <= Len(o) /\ o[s] = lister.token)
    <3>1. lister.token = 0 => s = 1
      BY DEF Redis!StartAt, Redis!First
    <3>2. lister.token # 0 => s \in 1 .. Len(o) /\ o[s] = lister.token
      BY <1>2, <1>6 DEF Redis!StartAt, Redis!First
    <3> HIDE DEF s
    <3> QED  BY <1>2, <3>1, <3>2
  <2> HIDE DEF s
  <2>2. /\ next \in TaskIds \cup {0} /\ (next = 0 <=> end > Len(o)) /\ (next # 0 => end <= Len(o) /\ next = o[end])
        /\ last \in Nat /\ s <= last + 1 /\ last <= Len(o) /\ (next # 0 => last + 1 = end) /\ (next = 0 => last = Len(o))
        /\ end \in Nat /\ 1 <= end /\ Len(o) \in Nat
    BY <1>2, <2>1, TasksAssumption
  <2> HIDE DEF next, last, end
  <2>3. /\ more \in Seq(TaskIds) /\ Len(more) = n + (last + 1 - s) /\ DOMAIN more = 1 .. Len(more) /\ n \in Nat
        /\ \A i \in 1 .. n : more[i] = lister.seen[i]
        /\ \A i \in 1 .. last + 1 - s : more[n + i] = o[s + i - 1]
    <3>1. /\ o \in Seq(TaskIds) /\ lister.seen \in Seq(TaskIds)
          /\ s \in Nat /\ last \in Nat /\ 1 <= s /\ s <= last + 1 /\ last <= Len(o)
      BY <1>0, <1>2, <2>1, <2>2
    <3> DEFINE given == lister.seen
    <3> HIDE DEF given
    <3>2. given \in Seq(TaskIds)
      BY <3>1 DEF given
    <3>3. LET b == given \o SubSeq(o, s, last) IN
          /\ b \in Seq(TaskIds) /\ Len(b) = Len(given) + (last + 1 - s) /\ DOMAIN b = 1 .. Len(b) /\ Len(given) \in Nat
          /\ \A i \in 1 .. Len(given) : b[i] = given[i]
          /\ \A i \in 1 .. last + 1 - s : b[Len(given) + i] = o[s + i - 1]
      BY <3>1, <3>2, PageFacts
    <3> QED  BY <3>3 DEF given
  <2>A. (s .. last) \subseteq (1 .. Len(o)) /\ (s .. last) \subseteq (s .. Len(o)) /\ \A i \in 1 .. n : i \in DOMAIN more
    <3>1. last + 1 - s >= 0 /\ n \in Nat /\ last + 1 - s \in Int /\ n <= n + (last + 1 - s)
      BY <2>1, <2>2, <2>3
    <3>2. DOMAIN more = 1 .. n + (last + 1 - s)
      BY <2>3
    <3> HIDE DEF n
    <3>3. \A i \in 1 .. n : i \in 1 .. n + (last + 1 - s)
      BY <2>1, <2>2, <3>1
    <3>4. (s .. last) \subseteq (1 .. Len(o)) /\ (s .. last) \subseteq (s .. Len(o))
      BY <2>1, <2>2
    <3> QED  BY <3>2, <3>3, <3>4
  <2>B. next # 0 => end \in s .. Len(o) /\ end \in 1 .. Len(o) /\ next = o[end] /\ last < end
    BY <2>1, <2>2
  <2>4. DOMAIN lister.seen = 1 .. n
    BY <1>0, LenProperties
  <2> HIDE DEF more, n
  <2>5. /\ lister' \in Lister /\ lister'.pc = (IF next = 0 THEN "done" ELSE "paged") /\ lister'.stale = {}
        /\ lister'.token = next /\ lister'.seen = more /\ lister'.found = lister.found
    BY <1>0, <1>6, <2>2, <2>3 DEF Lister, ListPcs, more
  <2>6. \A i \in DOMAIN more : \/ i \in 1 .. n /\ more[i] = lister.seen[i]
                              \/ \E k \in s .. last : i = n + (k + 1 - s) /\ more[i] = o[k]
    <3>1. SUFFICES ASSUME NEW i \in 1 .. Len(more), i \notin 1 .. n
                   PROVE  \E k \in s .. last : i = n + (k + 1 - s) /\ more[i] = o[k]
      BY <2>3
    <3>2. i - n \in 1 .. last + 1 - s /\ i = n + (i - n)
      BY <2>1, <2>2, <2>3, <3>1
    <3>3. more[i] = o[s + (i - n) - 1]
      BY <2>3, <3>2
    <3>4. s + (i - n) - 1 \in s .. last /\ i = n + ((s + (i - n) - 1) + 1 - s)
      BY <2>1, <2>2, <2>3, <3>2
    <3> QED  BY <3>3, <3>4
  <2>7. \A k \in s .. last : \E i \in DOMAIN more : more[i] = o[k]
    <3>1. SUFFICES ASSUME NEW k \in s .. last  PROVE \E i \in DOMAIN more : more[i] = o[k]
      OBVIOUS
    <3>2. k + 1 - s \in 1 .. last + 1 - s /\ s + (k + 1 - s) - 1 = k /\ n + (k + 1 - s) \in 1 .. Len(more)
      BY <2>1, <2>2, <2>3, <3>1
    <3>3. more[n + (k + 1 - s)] = o[k]
      BY <2>3, <3>2
    <3> QED  BY <2>3, <3>2, <3>3
  <2>8. \A t : Passed(lister, t) => Passed(lister', t)
    BY <2>3, <2>A, <2>4, <2>5 DEF Passed
  <2>9. IndexedInv(keys, index', lister', overtaken)
    BY <1>4, <2>5 DEF IndexedInv
  <2>10. SteadyInv(keys, index', lister', steady)
    BY <1>0, <1>3, <2>5 DEF SteadyInv
  <2>11. MovedInv(keys, lister', steady)
    <3>1. SUFFICES ASSUME ~steady.moved  PROVE MovedInv(keys, lister', steady)
      BY DEF MovedInv
    <3>2. \A a \in TaskIds : keys[a] # 0 /\ lister.found[a] # 0 => Redis!Written(keys[a]) >= Redis!Written(lister.found[a])
      BY <3>1 DEF ListInv, MovedInv
    <3>3. ASSUME NEW t \in steady.tasks
          PROVE  Passed(lister', t) \/ (next # 0 /\ (t = next \/ Ahead(lister.found[next], next, keys[t], t)))
      <4>1. PICK i \in 1 .. Len(o) : o[i] = t
        BY <1>2, <1>3
      <4>2. CASE i < s
        <5>1. lister.token # 0 /\ o[s] = lister.token /\ s \in 1 .. Len(o)
          BY <1>2, <2>1, <4>1, <4>2
        <5>2. Ahead(lister.found[t], t, lister.found[lister.token], lister.token)
          BY <1>2, <4>1, <4>2, <5>1 DEF InOrder
        <5>3. Reached(keys, lister, t)
          BY <1>0, <3>1, <5>1 DEF ListInv, MovedInv
        <5>4. lister.found[lister.token] # 0 /\ lister.token \in TaskIds /\ lister.found[t] = keys[t] /\ t \in TaskIds
          BY <1>0, <1>2, <1>3, <5>1
        <5>5. t # lister.token /\ ~Ahead(lister.found[lister.token], lister.token, keys[t], t)
          BY <1>0, <5>2, <5>4, AheadOrders
        <5> QED  BY <1>0, <2>8, <5>3, <5>4, <5>5 DEF Reached
      <4>3. CASE i \in s .. last
        BY <2>5, <2>7, <4>1, <4>3 DEF Passed
      <4>4. CASE i > last
        <5>1. next # 0 /\ end \in 1 .. Len(o) /\ o[end] = next /\ end <= i
          BY <2>2, <2>B, <4>1, <4>4
        <5>2. i = end \/ Ahead(lister.found[next], next, lister.found[t], t)
          BY <1>2, <4>1, <5>1 DEF InOrder
        <5> QED  BY <1>3, <4>1, <5>1, <5>2
      <4> QED  BY <2>1, <2>2, <4>1, <4>2, <4>3, <4>4
    <3>4. next = 0 => \A t \in steady.tasks : Passed(lister', t)
      BY <3>3
    <3>5. ASSUME next # 0, NEW t \in steady.tasks  PROVE Reached(keys, lister', t)
      <4>1. next \in TaskIds /\ lister.found[next] # 0
        BY <1>2, <2>B, <3>5
      <4>2. keys[next] # 0 => Redis!Written(keys[next]) >= Redis!Written(lister.found[next])
        BY <3>2, <4>1
      <4>3. Redis!Written(keys[next]) \in Int /\ Redis!Written(lister.found[next]) \in Int /\ Redis!Written(keys[t]) \in Int
        BY <1>0, <1>3, <4>1 DEF Redis!Written, Stamps
      <4>4. keys[next] # 0 /\ Ahead(lister.found[next], next, keys[t], t) => Ahead(keys[next], next, keys[t], t)
        BY <4>2, <4>3 DEF Ahead
      <4>5. lister'.pc # "reading"
        BY <2>5
      <4> QED  BY <2>5, <3>3, <4>4, <4>5 DEF Reached
    <3> QED  BY <2>5, <3>2, <3>4, <3>5 DEF MovedInv
  <2>12. QuietInv(keys, index', lister', steady)
    <3>1. SUFFICES ASSUME steady.quiet  PROVE QuietInv(keys, index', lister', steady)
      BY DEF QuietInv
    <3>2. /\ ~steady.moved /\ \A t \in index : keys[t] # 0 => t \in steady.tasks
          /\ InOrder(keys, lister.seen) /\ \A i \in DOMAIN lister.seen : lister.seen[i] \in steady.tasks
          /\ \A t \in TaskIds : lister.found[t] # 0 => t \in steady.tasks /\ lister.found[t] = keys[t]
          /\ lister.token = 0 => lister.seen = <<>>
          /\ lister.token # 0 => \A i \in DOMAIN lister.seen :
               Ahead(keys[lister.seen[i]], lister.seen[i], keys[lister.token], lister.token)
      BY <1>0, <3>1 DEF ListInv, QuietInv
    <3>3. \A k \in 1 .. Len(o) : o[k] \in steady.tasks /\ o[k] \in TaskIds
      BY <1>2, <3>2
    <3>4. \A k, m \in 1 .. Len(o) : k < m => Ahead(keys[o[k]], o[k], keys[o[m]], o[m])
      BY <1>2, <3>2 DEF InOrder
    <3>5. \A i \in 1 .. n, k \in s .. Len(o) : Ahead(keys[lister.seen[i]], lister.seen[i], keys[o[k]], o[k])
      <4>1. SUFFICES ASSUME NEW i \in 1 .. n, NEW k \in s .. Len(o)
                     PROVE  Ahead(keys[lister.seen[i]], lister.seen[i], keys[o[k]], o[k])
        OBVIOUS
      <4>2. lister.token # 0
        BY <2>3, <2>4, <3>2, <4>1
      <4>3. o[s] = lister.token /\ s \in 1 .. Len(o) /\ k \in 1 .. Len(o)
        BY <1>2, <2>1, <4>1, <4>2
      <4>4. Ahead(keys[lister.seen[i]], lister.seen[i], keys[o[s]], o[s])
        BY <2>4, <3>2, <4>1, <4>2, <4>3
      <4>5. lister.seen[i] \in TaskIds /\ o[s] \in TaskIds /\ o[k] \in TaskIds
        BY <1>0, <2>4, <3>2, <3>3, <4>1, <4>3
      <4>6. s = k \/ Ahead(keys[o[s]], o[s], keys[o[k]], o[k])
        BY <1>2, <2>1, <3>4, <4>1, <4>3
      <4> QED  BY <1>0, <4>4, <4>5, <4>6, AheadOrders
    <3>6. InOrder(keys, more)
      <4>1. SUFFICES ASSUME NEW i \in DOMAIN more, NEW j \in DOMAIN more, i < j
                     PROVE  Ahead(keys[more[i]], more[i], keys[more[j]], more[j])
        BY DEF InOrder
      <4>2. CASE i \in 1 .. n /\ j \in 1 .. n
        BY <2>3, <2>4, <3>2, <4>1, <4>2 DEF InOrder
      <4>3. CASE i \in 1 .. n /\ j \notin 1 .. n
        <5>1. PICK k \in s .. last : more[j] = o[k]
          BY <2>6, <4>3
        <5>2. k \in s .. Len(o)
          BY <2>A, <5>1
        <5> QED  BY <2>3, <3>5, <4>3, <5>1, <5>2
      <4>4. CASE i \notin 1 .. n
        <5>1. i \in 1 .. Len(more) /\ j \in 1 .. Len(more) /\ j \notin 1 .. n
          BY <2>3, <4>1, <4>4
        <5>2. PICK k \in s .. last : i = n + (k + 1 - s) /\ more[i] = o[k]
          BY <2>6, <4>4
        <5>3. PICK m \in s .. last : j = n + (m + 1 - s) /\ more[j] = o[m]
          BY <2>6, <5>1
        <5>4. k < m /\ k \in 1 .. Len(o) /\ m \in 1 .. Len(o)
          BY <2>1, <2>2, <2>3, <2>A, <4>1, <5>2, <5>3
        <5> QED  BY <3>4, <5>2, <5>3, <5>4
      <4> QED  BY <4>2, <4>3, <4>4
    <3>7. \A i \in DOMAIN more : more[i] \in steady.tasks
      <4>1. \A k \in s .. last : o[k] \in steady.tasks
        BY <2>A, <3>3
      <4> QED  BY <2>4, <2>6, <3>2, <4>1
    <3>8. ASSUME next # 0
          PROVE  next \in steady.tasks /\ \A i \in DOMAIN more : Ahead(keys[more[i]], more[i], keys[next], next)
      <4>1. end \in s .. Len(o) /\ end \in 1 .. Len(o) /\ next = o[end] /\ last < end
        BY <2>B, <3>8
      <4>2. ASSUME NEW i \in DOMAIN more  PROVE Ahead(keys[more[i]], more[i], keys[next], next)
        <5>1. CASE i \in 1 .. n
          BY <2>3, <3>5, <4>1, <5>1
        <5>2. CASE i \notin 1 .. n
          <6>1. PICK k \in s .. last : more[i] = o[k]
            BY <2>6, <4>2, <5>2
          <6>2. k \in 1 .. Len(o) /\ k < end
            <7>1. k \in 1 .. Len(o) /\ k <= last /\ last < end
              BY <2>A, <4>1
            <7> QED  BY <2>2, <7>1
          <6> QED  BY <3>4, <4>1, <6>1, <6>2
        <5> QED  BY <5>1, <5>2
      <4> QED  BY <3>3, <4>1, <4>2
    <3>9. \A t \in index' : keys[t] # 0 => t \in steady.tasks
      BY <1>0, <3>2
    <3> QED  BY <2>5, <3>1, <3>2, <3>6, <3>7, <3>8, <3>9 DEF QuietInv
  <2> QED  BY <1>0, <1>1, <2>5, <2>9, <2>10, <2>11, <2>12 DEF ListInv, ListTyped, NewInv
<1>7. lister.token \in Redis!ToSet(o) <=> \E i \in 1 .. Len(o) : o[i] = lister.token
  BY <1>2 DEF Redis!ToSet
<1>8. lister' = IF lister.token # 0 /\ lister.token \notin Redis!ToSet(o)
                THEN [lister EXCEPT !.pc = "refused", !.stale = {}]
                ELSE [lister EXCEPT !.pc = IF next = 0 THEN "done" ELSE "paged", !.token = next, !.stale = {},
                                    !.seen = lister.seen \o SubSeq(o, s, last)]
  BY DEF Redis!Answer, Redis!First, o
<1> HIDE DEF next, last, s
<1> QED  BY <1>5, <1>6, <1>7, <1>8

LEMMA ListStep == ListInv /\ [Redis!RedisNext]_redisVars => ListInv'
<1> SUFFICES ASSUME ListInv, [Redis!RedisNext]_redisVars  PROVE ListInv'
  OBVIOUS
<1>1. CASE UNCHANGED redisVars
  BY <1>1 DEF redisVars, ListInv, ListTyped
<1>2. CASE Redis!RedisNext
  BY <1>2, SaveList, GoneList, LookUpList, MembersList, AnswerList DEF Redis!RedisNext
<1> QED  BY <1>1, <1>2

LEMMA ListInit == Redis!RedisInit => ListInv
<1> SUFFICES ASSUME Redis!RedisInit  PROVE ListInv
  OBVIOUS
<1>1. /\ keys = [t \in TaskIds |-> 0] /\ index = {} /\ tick = 2
      /\ lister = [pc |-> "new", todo |-> {}, found |-> keys, stale |-> {}, token |-> 0, seen |-> <<>>]
      /\ steady = [tasks |-> {}, quiet |-> TRUE, moved |-> FALSE]
  BY DEF Redis!RedisInit, Redis!Gone, Redis!First
<1>2. keys \in Stamps /\ \A t \in TaskIds : keys[t] = 0
  BY <1>1 DEF Stamps
<1>3. <<>> \in Seq(TaskIds)
  OBVIOUS
<1>4. lister \in Lister
  BY <1>1, <1>2, <1>3 DEF Lister, ListPcs
<1>5. ListTyped
  BY <1>1, <1>2, <1>4 DEF ListTyped, Steady
<1>6. IndexedInv(keys, index, lister, overtaken) /\ SteadyInv(keys, index, lister, steady) /\ NewInv(lister)
  BY <1>1, <1>2 DEF IndexedInv, SteadyInv, NewInv
<1>7. MovedInv(keys, lister, steady)
  BY <1>1, <1>2 DEF MovedInv
<1>8. QuietInv(keys, index, lister, steady)
  BY <1>1, <1>2 DEF QuietInv
<1> QED  BY <1>5, <1>6, <1>7, <1>8 DEF ListInv

LEMMA ListIsExact == ListInv => ListingExact
<1> SUFFICES ASSUME ListInv  PROVE ListingExact
  OBVIOUS
<1>1. \A t \in TaskIds : Redis!Stored(t) /\ t \notin index => t \in overtaken
  BY DEF ListInv, IndexedInv, Redis!Stored, Redis!Gone
<1>2. ASSUME lister.pc = "done", ~steady.moved  PROVE steady.tasks \subseteq Redis!ToSet(lister.seen)
  BY <1>2 DEF ListInv, MovedInv, Passed, Redis!ToSet
<1>3. ASSUME lister.pc = "done", steady.quiet
      PROVE  /\ Redis!ToSet(lister.seen) = steady.tasks
             /\ \A i, j \in DOMAIN lister.seen : i < j => Redis!Before(keys, lister.seen[i], lister.seen[j])
  <2>1. ~steady.moved /\ InOrder(keys, lister.seen) /\ \A i \in DOMAIN lister.seen : lister.seen[i] \in steady.tasks
    BY <1>3 DEF ListInv, QuietInv
  <2>2. Redis!ToSet(lister.seen) \subseteq steady.tasks
    BY <2>1 DEF Redis!ToSet
  <2>3. \A i, j \in DOMAIN lister.seen : i < j => Redis!Before(keys, lister.seen[i], lister.seen[j])
    BY <2>1, BeforeIsAhead DEF InOrder
  <2> QED  BY <1>2, <1>3, <2>1, <2>2, <2>3
<1> QED  BY <1>1, <1>2, <1>3 DEF ListingExact, Redis!ListingExact

(* A list that goes from page to page while others save, delete and lose   *)
(* tasks gives every task that stayed as it was unless one sorted down     *)
(* meanwhile, and all of them in order when nothing changed:               *)
(* RedisTaskStore.list, redis_task_store.py.                               *)
THEOREM ListingSafe == MCSpec => []ListingExact
<1>1. MCInit => ListInv
  BY ListInit DEF MCInit
<1>2. ListInv /\ [MCNext]_allVars => ListInv'
  <2>1. [MCNext]_allVars => [Redis!RedisNext]_redisVars
    BY DEF MCNext, allVars, redisVars
  <2> QED  BY <2>1, ListStep
<1> QED  BY <1>1, <1>2, ListIsExact, PTL DEF MCSpec
================================================================================
