----------------------------- MODULE TaskMigration -----------------------------
(***************************************************************************)
(* The schema of the task store (packages/ts-host/src/task-store/          *)
(* migrate.ts, schema.ts): the commands of the operator's tool             *)
(* (cli/task-store.ts) and the start of a pod, which run next to each      *)
(* other on one database and may stop between any two of their queries.    *)
(*                                                                         *)
(* External: a2a-db upgrade, which holds a lock, and the migrations of a   *)
(* service that keeps the schema itself.                                   *)
(***************************************************************************)
EXTENDS Naturals

CONSTANTS Commands

VARIABLES
  table,     (* what bears the name of the table, whether its ids are wide     *)
  ledger,    (* the journal of a2a-db exists                                   *)
  origin,    (* the table and the journal as they were at first                *)
  external,  (* TASK_STORE_EXTERNAL_SCHEMA                                     *)
  command    (* command[c]: its kind and how far it is                         *)

migrationVars == <<table, ledger, origin, external, command>>

Tables == [is : {"absent"}, wide : {FALSE}] \cup [is : {"foreign", "ours"}, wide : BOOLEAN]
Exists == table.is # "absent"
Foreign == table.is = "foreign"
Narrow == Exists /\ ~table.wide

Init ==
  /\ table \in Tables /\ ledger \in (IF table.is = "ours" THEN BOOLEAN ELSE {FALSE})
  /\ origin = <<table, ledger>>
  /\ external \in BOOLEAN
  /\ command = [c \in Commands |-> [kind |-> "none", pc |-> "new"]]

Goes(c, pc) == command' = [command EXCEPT ![c].pc = pc]
Schema == <<table, ledger>>

--------------------------------------------------------------------------------
(* main, runCommand: a call that is not understood, or that lacks the      *)
(* database, ends at once; createTaskStoreFromEnv and the start of a pod.  *)
Invoke(c) ==
  /\ command[c].pc = "new"
  /\ \E kind \in {"migrate", "check", "cleanup", "start", "misspelt"} :
       \/ kind = "migrate" /\ ~external /\ command' = [command EXCEPT ![c] = [kind |-> kind, pc |-> "look"]]
       \/ kind \in {"check", "cleanup", "start"} /\ command' = [command EXCEPT ![c] = [kind |-> kind, pc |-> "check table"]]
       \/ /\ kind = "misspelt" \/ (kind = "migrate" /\ external)
          /\ command' = [command EXCEPT ![c] = [kind |-> kind, pc |-> "failed"]]
  /\ UNCHANGED <<Schema, origin, external>>

(* Mutant: the upgrade runs without a look at the table.                   *)
NoLook == "upgrade"

AfterLook == IF Foreign THEN "failed" ELSE "upgrade"

(* migrateTaskStore: assertNotForeignTable.                                *)
Look(c) ==
  /\ command[c].pc = "look" /\ Goes(c, AfterLook)
  /\ UNCHANGED <<Schema, origin, external>>

(* External: a2a-db upgrade.  A run that is stopped half-way may have      *)
(* created the table only.                                                 *)
Upgrade(c) ==
  /\ command[c].pc = "upgrade"
  /\ \/ /\ table' = IF Exists THEN table ELSE [is |-> "ours", wide |-> FALSE]
        /\ \/ ledger' = TRUE /\ Goes(c, "widths")
           \/ ledger' \in BOOLEAN /\ (ledger => ledger') /\ Goes(c, "failed")
     \/ UNCHANGED Schema /\ Goes(c, "failed")
  /\ UNCHANGED <<origin, external>>

Widths(c) ==
  /\ command[c].pc = "widths" /\ Goes(c, IF Narrow THEN "widen" ELSE "check table")
  /\ UNCHANGED <<Schema, origin, external>>

Widen(c) ==
  /\ command[c].pc = "widen" /\ table' = [table EXCEPT !.wide = TRUE] /\ Goes(c, "check table")
  /\ UNCHANGED <<ledger, origin, external>>

(* checkTaskStoreSchema, one query after the other; at its end a migration *)
(* or a check reports success, a pod listens, and a cleanup deletes rows.  *)
CheckTable(c) ==
  /\ command[c].pc = "check table"
  /\ Goes(c, IF table.is # "ours" THEN "failed" ELSE IF external THEN "check widths" ELSE "check ledger")
  /\ UNCHANGED <<Schema, origin, external>>

CheckLedger(c) ==
  /\ command[c].pc = "check ledger" /\ Goes(c, IF ledger THEN "check widths" ELSE "failed")
  /\ UNCHANGED <<Schema, origin, external>>

CheckWidths(c) ==
  /\ command[c].pc = "check widths" /\ Goes(c, IF Narrow THEN "failed" ELSE "ready")
  /\ UNCHANGED <<Schema, origin, external>>

(* A command is stopped; another one is given.                             *)
Stop(c) ==
  /\ command[c].pc # "new" /\ Goes(c, "new")
  /\ UNCHANGED <<Schema, origin, external>>

(* External: the service creates or widens the table that it keeps.        *)
ServiceMigrates ==
  /\ external /\ ~Foreign /\ \E wide \in BOOLEAN : (table.wide => wide) /\ table' = [is |-> "ours", wide |-> wide]
  /\ UNCHANGED <<ledger, origin, external, command>>

Next == ServiceMigrates \/ \E c \in Commands :
  Invoke(c) \/ Look(c) \/ Upgrade(c) \/ Widths(c) \/ Widen(c) \/ CheckTable(c) \/ CheckLedger(c) \/ CheckWidths(c) \/ Stop(c)

--------------------------------------------------------------------------------
(* A pod listens, rows are deleted and success is reported only on a table *)
(* of tasks with wide ids, made by a2a-db or kept by the service, though   *)
(* other replicas migrate it at that moment or stopped half-way; a foreign *)
(* table is left as it was, and a table kept by the service gets no journal. *)
SchemaIsReady ==
  /\ \A c \in Commands : command[c].pc = "ready" => table = [is |-> "ours", wide |-> TRUE] /\ (external \/ ledger)
  /\ origin[1].is = "foreign" => <<table, ledger>> = origin
  /\ external => ledger = origin[2]
================================================================================
