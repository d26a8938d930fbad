------------------------------ MODULE MCTaskStore ------------------------------
(***************************************************************************)
(* The stores of tasks: the rows of the TypeScript host, the migration of  *)
(* its schema, and the two stores of the Python host.  They share nothing: *)
(* one behaviour explores one of them.                                     *)
(***************************************************************************)
EXTENDS TaskStore

CONSTANTS Commands, TaskIds, PageLength, LastTick, Ids, Owners, Savers, Jobs, BatchSize

(* The ids are numbers here, other than the one that stands for no page token. *)
ASSUME TasksAssumption == TaskIds \in SUBSET (Nat \ {0}) /\ IsFiniteSet(TaskIds) /\ PageLength \in Nat \ {0}

VARIABLES part, table, ledger, origin, external, command,
          keys, index, tick, lister, overtaken, steady,
          task, saver, passed, dialect, relation, found, job

Schema == INSTANCE TaskMigration
Redis == INSTANCE RedisTaskStore
Postgres == INSTANCE PostgresTaskStore

schemaVars == <<table, ledger, origin, external, command>>
redisVars == <<keys, index, tick, lister, overtaken, steady>>
postgresVars == <<task, saver, passed, dialect, relation, found, job>>
allVars == <<part, vars, schemaVars, redisVars, postgresVars>>

(* A part that is not explored stands still, in one state.                 *)
MCInit ==
  /\ part \in {"rows", "schema", "redis", "postgres"}
  /\ Init /\ (part # "rows" => \A w \in Writers : writer[w].key = (CHOOSE k \in Keys : TRUE) /\ ~writer[w].state)
  /\ Schema!Init /\ (part # "schema" => ~Schema!Exists /\ ~external)
  /\ Redis!RedisInit
  /\ Postgres!PostgresInit
  /\ part # "postgres" => dialect = "sqlite" /\ relation.is = "absent"
  (* Owners are alike, and so are saves: the owner of one is given.        *)
  /\ saver[CHOOSE s \in Savers : TRUE].owner = (CHOOSE o \in Owners : TRUE)
  (* The saves are the same on either database: they are explored on one.  *)
  /\ dialect = "sqlite" => \A s \in Savers : saver[s].owner = (CHOOSE o \in Owners : TRUE) /\ ~saver[s].ended

MCNext ==
  /\ UNCHANGED part
  /\ \/ part = "rows" /\ Next /\ UNCHANGED <<schemaVars, redisVars, postgresVars>>
     \/ part = "schema" /\ Schema!Next /\ UNCHANGED <<vars, redisVars, postgresVars>>
     \/ part = "redis" /\ Redis!RedisNext /\ UNCHANGED <<vars, schemaVars, postgresVars>>
     \/ part = "postgres" /\ Postgres!PostgresNext /\ UNCHANGED <<vars, schemaVars, redisVars>>

MCSpec == MCInit /\ [][MCNext]_allVars /\ Fairness

(* What pods, cleanups and reports of success rely on (migrate.ts).        *)
SchemaIsReady == Schema!SchemaIsReady

(* What a caller that pages through the tasks of an owner is given.        *)
ListingExact == Redis!ListingExact

(* Tasks stay with their owner, in a table that is ready.                  *)
OwnedTasksKept == Postgres!OwnedTasksKept
================================================================================
