-------------------------- MODULE PostgresTaskStore --------------------------
(***************************************************************************)
(* PostgresTaskStore of the Python host (packages/python-host/src/         *)
(* ai37_agent_host/postgres_task_store.py): the saves of several replicas  *)
(* for several owners, the retention, and the jobs and pods that make or   *)
(* check the table, which may stop between any two of their transactions.  *)
(*                                                                         *)
(* External: DatabaseTaskStore of the SDK, whose save is a merge by the id *)
(* alone, and the database.  A row is old once its time is before the      *)
(* cutoff.  Replicas serve while a pod has found the table ready.          *)
(***************************************************************************)
EXTENDS Naturals, FiniteSets

CONSTANTS Ids, Owners, Savers, Jobs, BatchSize, None

VARIABLES
  task,      (* task[i]: the row, or None                                         *)
  saver,     (* saver[s]: one call of save                                        *)
  passed,    (* (history) passed[i]: the calls past their check when row i became *)
             (* what it is: its owner's, or ended                                 *)
  dialect, relation,   (* the database; what bears the name of the table, its ids *)
  found,     (* the table that was there at first                                 *)
  job        (* job[j]: a command of the tool, or the start of a pod              *)

rowVars == <<task, saver, passed>>
tableVars == <<dialect, relation, found, job>>
postgresVars == <<rowVars, tableVars>>

Relations == [is : {"absent"}, wide : {FALSE}] \cup [is : {"foreign", "ours"}, wide : BOOLEAN]

NoJob == [kind |-> "none", stale |-> FALSE, pc |-> "new"]

PostgresInit ==
  /\ task = [i \in Ids |-> None]
  /\ saver \in [Savers -> [pc : {"new"}, id : Ids, owner : Owners, ended : BOOLEAN]]
  /\ passed = [i \in Ids |-> {}]
  /\ dialect \in {"postgresql", "sqlite"} /\ relation \in Relations /\ found = relation
  /\ job = [j \in Jobs |-> NoJob]

--------------------------------------------------------------------------------
(* save()                                                                  *)

(* Mutant: only the owner is compared.                                     *)
OwnerOnly(s, row) == IF row = None \/ row.owner = saver[s].owner THEN "write" ELSE "refused"

AfterCheck(s, row) ==
  IF row = None THEN "write"
  ELSE IF row.owner # saver[s].owner THEN "refused"
  ELSE IF row.ended THEN "ignored" ELSE "write"

Serving == \E j \in Jobs : job[j].kind = "pod" /\ job[j].pc = "ready"

(* _stored(), in a session of its own.                                     *)
Check(s) ==
  /\ saver[s].pc = "new" /\ Serving
  /\ saver' = [saver EXCEPT ![s].pc = AfterCheck(s, task[saver[s].id])]
  /\ UNCHANGED <<task, passed, tableVars>>

Past(i) == {s \in Savers : saver[s].pc = "write" /\ saver[s].id = i}

(* External: the merge of the SDK, which takes the row over.               *)
Merge(s) ==
  LET i == saver[s].id  row == [owner |-> saver[s].owner, ended |-> saver[s].ended, old |-> FALSE] IN
    /\ saver[s].pc = "write" /\ Serving
    /\ task' = [task EXCEPT ![i] = row]
    /\ passed' = [passed EXCEPT ![i] =
         IF task[i] # None /\ task[i].owner = row.owner /\ task[i].ended = row.ended THEN @ \ {s} ELSE Past(i) \ {s}]
    /\ saver' = [saver EXCEPT ![s].pc = "new"]
    /\ UNCHANGED tableVars

(* The call has ended, and the next one comes.                             *)
Again(s) ==
  /\ saver[s].pc \in {"refused", "ignored"}
  /\ saver' = [saver EXCEPT ![s].pc = "new"]
  /\ UNCHANGED <<task, passed, tableVars>>

(* Time passes, for a row that has one.                                    *)
Age(i) ==
  /\ task[i] # None /\ ~task[i].old
  /\ task' = [task EXCEPT ![i].old = TRUE]
  /\ UNCHANGED <<saver, passed, tableVars>>

--------------------------------------------------------------------------------
(* The jobs: _run_cli, and assert_ready of a pod.                          *)

Goes(j, pc) == job' = [job EXCEPT ![j].pc = pc]

Run(j) ==
  /\ job[j].pc = "new"
  /\ \E kind \in {"migrate", "cleanup", "pod"}, stale \in BOOLEAN :
       /\ stale => kind = "cleanup"
       /\ job' = [job EXCEPT ![j] = [kind |-> kind, stale |-> stale, pc |-> IF kind = "migrate" THEN "create" ELSE "exists"]]
  /\ UNCHANGED <<rowVars, dialect, relation, found>>

(* create_all: a table of that name, whatever it is, is left alone.        *)
Create(j) ==
  /\ job[j].pc = "create" /\ Goes(j, "columns")
  /\ relation' = IF relation.is = "absent" THEN [is |-> "ours", wide |-> FALSE] ELSE relation
  /\ UNCHANGED <<rowVars, dialect, found>>

HasTable(j) ==
  /\ job[j].pc = "exists" /\ Goes(j, IF relation.is = "absent" THEN "failed" ELSE "columns")
  /\ UNCHANGED <<rowVars, dialect, relation, found>>

AfterColumns(kind) == IF relation.is # "ours" THEN "failed" ELSE IF kind = "migrate" THEN "widen" ELSE "widths"

(* _assert_task_table                                                      *)
AssertTaskTable(j) ==
  /\ job[j].pc = "columns" /\ Goes(j, AfterColumns(job[j].kind))
  /\ UNCHANGED <<rowVars, dialect, relation, found>>

Widen(j) ==
  /\ job[j].pc = "widen" /\ Goes(j, "ready")
  /\ relation' = IF dialect = "postgresql" THEN [relation EXCEPT !.wide = TRUE] ELSE relation
  /\ UNCHANGED <<rowVars, dialect, found>>

(* _id_column_widths: only Postgres keeps to them.                         *)
Widths(j) ==
  /\ job[j].pc = "widths"
  /\ Goes(j, IF dialect = "postgresql" /\ ~relation.wide THEN "failed"
             ELSE IF job[j].kind = "cleanup" THEN "terminal" ELSE "ready")
  /\ UNCHANGED <<rowVars, dialect, relation, found>>

Old(j) == {i \in Ids : task[i] # None /\ task[i].old /\ task[i].ended = (job[j].pc = "terminal")}

(* _delete_in_batches: the ended tasks, then those that rest, if asked to. *)
DeleteBatch(j) ==
  /\ job[j].pc \in {"terminal", "stale"}
  /\ \E D \in SUBSET Old(j) :
       /\ Cardinality(D) = BatchSize \/ (D = Old(j) /\ Cardinality(D) < BatchSize)
       /\ task' = [i \in Ids |-> IF i \in D THEN None ELSE task[i]]
       /\ passed' = [i \in Ids |-> IF i \in D THEN {} ELSE passed[i]]
       /\ Goes(j, IF Cardinality(D) = BatchSize THEN job[j].pc
                  ELSE IF job[j].pc = "terminal" /\ job[j].stale THEN "stale" ELSE "ready")
  /\ UNCHANGED <<saver, dialect, relation, found>>

(* A job is stopped, or has ended, and another one is run.                 *)
Stop(j) == job[j].pc # "new" /\ job' = [job EXCEPT ![j] = NoJob] /\ UNCHANGED <<rowVars, dialect, relation, found>>

RowNext == \E s \in Savers : Check(s) \/ Merge(s) \/ Again(s)

TableNext == \E j \in Jobs :
  Run(j) \/ Create(j) \/ HasTable(j) \/ AssertTaskTable(j) \/ Widen(j) \/ Widths(j) \/ DeleteBatch(j) \/ Stop(j)

PostgresNext == RowNext \/ TableNext \/ \E i \in Ids : Age(i)

--------------------------------------------------------------------------------
(* Only a save whose check came before a task was an owner's, or ended, may *)
(* still take it from that owner or open it again.                         *)
OwnersKept ==
  \A i \in Ids : task[i] # None =>
    \A s \in Past(i) : task[i].ended \/ task[i].owner # saver[s].owner => s \in passed[i]

(* A table is reported ready, and rows of it are deleted, only when it is  *)
(* one of tasks, with wide ids where the database keeps to widths; a table *)
(* of somebody else is left as it was.                                     *)
TableReady ==
  /\ \A j \in Jobs : job[j].pc \in {"ready", "terminal", "stale"} =>
       relation.is = "ours" /\ (dialect = "postgresql" => relation.wide)
  /\ found.is = "foreign" => relation = found

OwnedTasksKept == OwnersKept /\ TableReady
================================================================================
