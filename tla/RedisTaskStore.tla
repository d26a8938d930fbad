---------------------------- MODULE RedisTaskStore ----------------------------
(***************************************************************************)
(* RedisTaskStore of the Python host (packages/python-host/src/            *)
(* ai37_agent_host/redis_task_store.py): the tasks of one owner under keys *)
(* of their own, the index that list() starts from, and a caller of list() *)
(* that goes from page to page while turns save and delete tasks.          *)
(*                                                                         *)
(* External: Redis, which runs a transaction or a single command at a time *)
(* and may lose a key that expires or is evicted.  The filters are left out: *)
(* a task that no longer matches is to a list as one that is gone.         *)
(***************************************************************************)
EXTENDS Naturals, Sequences, FiniteSets, SequencesExt

CONSTANTS
  TaskIds,      \* positive numbers, in the order of the ids
  PageLength,
  LastTick      \* a bound of the time

VARIABLES
  keys,       (* keys[t]: the time of the task under its key, or Gone             *)
  index,      (* the set of ids under __index__                                   *)
  tick,       (* the time of the last save, in half seconds: the first is a whole *)
              (* second                                                           *)
  lister,     (* list(): the request, what it has read, the pages given so far    *)
  overtaken,  (* (history) tasks saved after the list under way found them gone   *)
  steady      (* (history) of the listing under way: the tasks that are as they   *)
              (* were at its start; nothing changed; a task was saved further down *)

redisVars == <<keys, index, tick, lister, overtaken, steady>>

Gone == 0                                       \* every task saved has a time
Stored(t) == keys[t] # Gone
First == 0                                      \* no page token: the first page

RedisInit ==
  /\ keys = [t \in TaskIds |-> Gone] /\ index = {} /\ tick = 2
  /\ lister = [pc |-> "new", todo |-> {}, found |-> keys, stale |-> {}, token |-> First, seen |-> <<>>]
  /\ overtaken = {}
  /\ steady = [tasks |-> {}, quiet |-> TRUE, moved |-> FALSE]

--------------------------------------------------------------------------------
(* The order of a list: by the time as it is written, the latest first, then *)
(* by id.  A time of whole seconds is written without a fraction, and its Z *)
(* sorts after the point of the others of that second.                     *)
Written(stamp) == IF stamp % 2 = 0 THEN stamp + 1 ELSE stamp - 1

Before(tasks, a, b) ==
  LET x == Written(tasks[a])  y == Written(tasks[b]) IN x > y \/ (x = y /\ a > b)

Lower(t) == \E old \in {keys[t], lister.found[t]} \ {Gone} : Written(keys'[t]) < Written(old)

Changes(t) == steady' =
  [tasks |-> steady.tasks \ {t}, quiet |-> FALSE,
   moved |-> steady.moved \/ (keys'[t] # Gone /\ (Lower(t) \/ (t = lister.token /\ ~Stored(t))))]

(* A bound: a behaviour ends with its listing.                             *)
Listing == lister.pc \notin {"done", "refused"}

(* Both commands are one transaction.                                      *)
Save(t) ==
  /\ Listing /\ tick' \in {tick, tick + 1} \cap 0 .. LastTick
  /\ keys' = [keys EXCEPT ![t] = tick']
  /\ index' = index \cup {t}
  /\ overtaken' = IF t \in lister.stale THEN overtaken \cup {t} ELSE overtaken \ {t}
  /\ Changes(t) /\ UNCHANGED lister

Delete(t) ==
  /\ Listing /\ Stored(t)
  /\ keys' = [keys EXCEPT ![t] = Gone] /\ index' = index \ {t}
  /\ Changes(t) /\ UNCHANGED <<tick, lister, overtaken>>

(* External: the key expires or is evicted; the index is not told.         *)
Expire(t) ==
  /\ Listing /\ Stored(t)
  /\ keys' = [keys EXCEPT ![t] = Gone]
  /\ Changes(t) /\ UNCHANGED <<index, tick, lister, overtaken>>

--------------------------------------------------------------------------------
(* list(): _load_owner_tasks reads the index, then one key after the other. *)

Members ==
  /\ lister.pc \in {"new", "paged"}
  /\ lister' = [lister EXCEPT !.pc = "reading", !.todo = index, !.found = [t \in TaskIds |-> Gone],
                              !.stale = {}]
  /\ steady' = IF lister.pc = "paged" THEN steady
               ELSE [tasks |-> {t \in index : Stored(t)}, quiet |-> TRUE, moved |-> FALSE]
  /\ UNCHANGED <<keys, index, tick, overtaken>>

LookUp(t) ==
  /\ lister.pc = "reading" /\ t \in lister.todo
  /\ lister' = [lister EXCEPT !.todo = @ \ {t}, !.found[t] = keys[t],
                              !.stale = IF Stored(t) THEN @ ELSE @ \cup {t}]
  /\ UNCHANGED <<keys, index, tick, overtaken, steady>>

Found == {t \in TaskIds : lister.found[t] # Gone}

Ordered ==
  CHOOSE s \in [1 .. Cardinality(Found) -> Found] : \A i, j \in DOMAIN s : i < j => Before(lister.found, s[i], s[j])

(* Mutant: the token is taken for the last task of the page before.        *)
AfterToken(ordered) ==
  IF lister.token = First THEN 1 ELSE 1 + CHOOSE i \in DOMAIN ordered : ordered[i] = lister.token

(* The token names the task that the page starts with.                     *)
StartAt(ordered) ==
  IF lister.token = First THEN 1 ELSE CHOOSE i \in DOMAIN ordered : ordered[i] = lister.token

(* The stale ids leave the index, then the page is cut.                    *)
Answer ==
  LET ordered == Ordered
      end == StartAt(ordered) + PageLength
      next == IF end <= Len(ordered) THEN ordered[end] ELSE First IN
    /\ lister.pc = "reading" /\ lister.todo = {}
    /\ index' = index \ lister.stale
    /\ steady' = [steady EXCEPT !.tasks = @ \ lister.stale]
    /\ lister' = IF lister.token # First /\ lister.token \notin ToSet(ordered)
                 THEN [lister EXCEPT !.pc = "refused", !.stale = {}]
                 ELSE [lister EXCEPT !.pc = IF next = First THEN "done" ELSE "paged", !.token = next, !.stale = {},
                                     !.seen = @ \o SubSeq(ordered, StartAt(ordered),
                                                            IF next = First THEN Len(ordered) ELSE end - 1)]
    /\ UNCHANGED <<keys, tick, overtaken>>

RedisNext ==
  \/ \E t \in TaskIds : Save(t) \/ Delete(t) \/ Expire(t) \/ LookUp(t)
  \/ Members \/ Answer

--------------------------------------------------------------------------------
(* A task that is stored can be listed, unless a list found its key gone   *)
(* just before it was saved again.  Pages that were given while nothing    *)
(* changed are together every task, once, in order; and a task that stayed *)
(* as it was is on one of them although others were saved, deleted or lost *)
(* meanwhile, unless one was saved at a time that sorts further down: the  *)
(* next page may start with it.                                            *)
ListingExact ==
  /\ \A t \in TaskIds : Stored(t) /\ t \notin index => t \in overtaken
  /\ lister.pc = "done" =>
       LET seen == lister.seen IN
         /\ ~steady.moved => steady.tasks \subseteq ToSet(seen)
         /\ steady.quiet => /\ ToSet(seen) = steady.tasks
                            /\ \A i, j \in DOMAIN seen : i < j => Before(keys, seen[i], seen[j])
================================================================================
