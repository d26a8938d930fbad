----------------------------- MODULE HarnessRuntime -----------------------------
(***************************************************************************)
(* SingleHarnessRuntime (packages/ts-host/src/dsh/harness-runtime.ts): the *)
(* lazy owner of one child process shared by all sessions of a host.       *)
(*                                                                         *)
(* JavaScript runs to completion between two awaits, so every action is    *)
(* the code between two suspension points of one call: use(),              *)
(* invalidateIfIdle(), close(), or of one of the promise chains they leave *)
(* behind.  The factory, the operation and the close() of a child belong   *)
(* to the environment: they settle some time after they were called, with  *)
(* a value or an error.                                                    *)
(***************************************************************************)
EXTENDS Naturals, FiniteSets

CONSTANTS
  Callers,     (* concurrent calls of use(); a slot is reused by a later call *)
  Children,    (* identities of child processes                               *)
  NoChild

ASSUME ConstantsAssumption ==
  /\ IsFiniteSet(Callers)
  /\ NoChild \notin Children

VARIABLES
  (* fields of the runtime *)
  harness,        (* the started child, or NoChild                            *)
  starting,       (* the child whose factory promise is stored, or NoChild    *)
  invalidating,   (* the child whose close chain is stored, or NoChild        *)
  shutdown,       (* how far the terminal close() got                         *)
  closed, active,
  drained,        (* the resolver finishShutdown() waits on                   *)
  (* suspended calls *)
  chain,          (* the promise chain of the last invalidation               *)
  instance,       (* the local `instance` of finishShutdown()                 *)
  call, ref,      (* where the use() of a caller is, and the child it is on   *)
  (* the processes *)
  child

fields == <<harness, starting, invalidating, shutdown, closed, active, drained>>
locals == <<chain, instance, call, ref>>
vars == <<harness, starting, invalidating, shutdown, closed, active, drained,
          chain, instance, call, ref, child>>

MaybeChild == Children \cup {NoChild}

(* A process that exists, as far as the runtime can know: a child whose    *)
(* close() failed may still be alive.                                      *)
Existing == {"starting", "alive", "closing", "broken"}

TypeOK ==
  /\ harness \in MaybeChild /\ starting \in MaybeChild
  /\ invalidating \in MaybeChild /\ instance \in MaybeChild
  /\ shutdown \in {"none", "draining", "settling", "closing", "done", "failed"}
  /\ closed \in BOOLEAN
  /\ active \in Nat
  /\ drained \in {"unset", "set", "resolved"}
  /\ chain \in {"queued", "closing", "closed", "failed"}
  /\ call \in [Callers -> {"idle", "entered", "blocked", "starting", "sharing", "running"}]
  /\ ref \in [Callers -> MaybeChild]
  /\ child \in [Children -> Existing \cup {"none", "failed"}]

Init ==
  /\ harness = NoChild /\ starting = NoChild
  /\ invalidating = NoChild /\ instance = NoChild
  /\ shutdown = "none" /\ closed = FALSE /\ active = 0 /\ drained = "unset"
  /\ chain = "closed"
  /\ call = [c \in Callers |-> "idle"]
  /\ ref = [c \in Callers |-> NoChild]
  /\ child = [k \in Children |-> "none"]

--------------------------------------------------------------------------------
(* use(): admission, the wait for an invalidation, get(), the operation.   *)

(* Mutant: the await of `invalidating` is forgotten.                       *)
NoFirstWait == "entered"

(* A call made while an invalidation is stored waits for that promise; any *)
(* other call awaits undefined, which still gives up the thread once.      *)
FirstWait == IF invalidating = NoChild THEN "entered" ELSE "blocked"

CountIn == active + 1

Use(c) ==
  /\ call[c] = "idle"
  /\ ~closed
  /\ active' = CountIn
  /\ call' = [call EXCEPT ![c] = FirstWait]
  /\ UNCHANGED <<harness, starting, invalidating, shutdown, closed, drained,
                 chain, instance, ref, child>>

(* Mutant: the test for zero is made before the decrement.                 *)
LastOutTooEarly == active = 0

LastOut == active = 1

(* The finally block of use(): the last call out wakes a waiting shutdown. *)
Leave(c) ==
  /\ active' = active - 1
  /\ call' = [call EXCEPT ![c] = "idle"]
  /\ ref' = [ref EXCEPT ![c] = NoChild]
  /\ drained' = IF LastOut /\ drained = "set" THEN "resolved" ELSE drained

(* An identity that no suspended call refers to stands for a new process.  *)
Fresh(k) == child[k] \in {"none", "failed"} /\ \A c \in Callers : ref[c] # k

(* get() up to its first suspension point: the started child, the child that *)
(* is being started, or the first call of the factory for a new one.       *)
Get(c) ==
  /\ \/ /\ harness # NoChild
        /\ call' = [call EXCEPT ![c] = "running"]
        /\ ref' = [ref EXCEPT ![c] = harness]
        /\ UNCHANGED <<starting, child>>
     \/ /\ harness = NoChild /\ starting # NoChild
        /\ call' = [call EXCEPT ![c] = "sharing"]
        /\ ref' = [ref EXCEPT ![c] = starting]
        /\ UNCHANGED <<starting, child>>
     \/ /\ harness = NoChild /\ starting = NoChild
        /\ \E k \in Children :
             /\ Fresh(k)
             /\ starting' = k
             /\ child' = [child EXCEPT ![k] = "starting"]
             /\ ref' = [ref EXCEPT ![c] = k]
        /\ call' = [call EXCEPT ![c] = "starting"]
  /\ UNCHANGED <<harness, invalidating, shutdown, closed, active, drained, chain, instance>>

InvalidationSettled == invalidating = NoChild

(* The await of an invalidation ends when its finally block has run: a     *)
(* failed close is thrown into every call that waited for it.              *)
Unblock(c) ==
  /\ call[c] = "blocked"
  /\ InvalidationSettled
  /\ \/ chain = "closed" /\ Get(c)
     \/ /\ chain = "failed"
        /\ Leave(c)
        /\ UNCHANGED <<harness, starting, invalidating, shutdown, closed,
                       chain, instance, child>>

Resume(c) == call[c] = "entered" /\ Get(c)

(* The caller that called the factory publishes its result.                *)
Started(c) ==
  /\ call[c] = "starting"
  /\ starting' = NoChild
  /\ \/ /\ child[ref[c]] = "alive"
        /\ harness' = ref[c]
        /\ call' = [call EXCEPT ![c] = "running"]
        /\ UNCHANGED <<active, drained, ref>>
     \/ /\ child[ref[c]] = "failed"
        /\ Leave(c)
        /\ UNCHANGED harness
  /\ UNCHANGED <<invalidating, shutdown, closed, chain, instance, child>>

(* Callers that shared the factory's promise resume after the one above,   *)
(* which subscribed to it first.                                           *)
Shared(c) ==
  /\ call[c] = "sharing"
  /\ starting # ref[c]
  /\ \/ /\ child[ref[c]] = "alive"
        /\ call' = [call EXCEPT ![c] = "running"]
        /\ UNCHANGED <<active, drained, ref>>
     \/ /\ child[ref[c]] = "failed"
        /\ Leave(c)
  /\ UNCHANGED <<harness, starting, invalidating, shutdown, closed, chain, instance, child>>

(* The operation settles, with a value or an error: finally does the same. *)
OperationSettles(c) ==
  /\ call[c] = "running"
  /\ Leave(c)
  /\ UNCHANGED <<harness, starting, invalidating, shutdown, closed, chain, instance, child>>

--------------------------------------------------------------------------------
(* invalidateIfIdle() and the chain close / catch / finally it stores.     *)

IsIdle == ~closed /\ active = 0 /\ invalidating = NoChild /\ harness # NoChild

InvalidateIfIdle(expected) ==
  /\ IsIdle
  /\ expected # NoChild => harness = expected
  /\ harness' = NoChild
  /\ invalidating' = harness
  /\ chain' = "queued"
  /\ UNCHANGED <<starting, shutdown, closed, active, drained, instance, call, ref, child>>

CloseQueued == invalidating # NoChild /\ chain = "queued"

InvalidationCloses ==
  /\ CloseQueued
  /\ chain' = "closing"
  /\ child' = [child EXCEPT ![invalidating] = "closing"]
  /\ UNCHANGED <<fields, instance, call, ref>>

(* A failed close puts the child back and stops admission for good.        *)
AfterFailedClose == harness' = invalidating /\ closed' = TRUE

InvalidationSettles ==
  /\ invalidating # NoChild /\ chain = "closing"
  /\ \/ /\ chain' = "closed"
        /\ child' = [child EXCEPT ![invalidating] = "none"]
        /\ UNCHANGED <<harness, closed>>
     \/ /\ chain' = "failed"
        /\ child' = [child EXCEPT ![invalidating] = "broken"]
        /\ AfterFailedClose
  /\ UNCHANGED <<starting, invalidating, shutdown, active, drained, instance, call, ref>>

InvalidationEnds ==
  /\ invalidating # NoChild /\ chain \in {"closed", "failed"}
  /\ invalidating' = NoChild
  /\ UNCHANGED <<harness, starting, shutdown, closed, active, drained, locals, child>>

--------------------------------------------------------------------------------
(* close() and finishShutdown().                                           *)

(* Mutant: shutdown does not wait for the accepted calls.                  *)
NoDrain == FALSE

MustDrain == active > 0

(* Only the first close() does anything: later ones return its promise.    *)
Close ==
  /\ shutdown = "none"
  /\ closed' = TRUE
  /\ IF MustDrain THEN shutdown' = "draining" /\ drained' = "set"
                   ELSE shutdown' = "settling" /\ UNCHANGED drained
  /\ UNCHANGED <<harness, starting, invalidating, active, locals, child>>

Drained ==
  /\ shutdown = "draining" /\ drained = "resolved"
  /\ shutdown' = "settling"
  /\ drained' = "unset"
  /\ UNCHANGED <<harness, starting, invalidating, closed, active, locals, child>>

TakeChild ==
  /\ shutdown = "settling" /\ InvalidationSettled
  /\ instance' = harness
  /\ harness' = NoChild
  /\ IF harness = NoChild
       THEN shutdown' = "done" /\ UNCHANGED child
       ELSE shutdown' = "closing" /\ child' = [child EXCEPT ![harness] = "closing"]
  /\ UNCHANGED <<starting, invalidating, closed, active, drained, chain, call, ref>>

ShutdownSettles ==
  /\ shutdown = "closing"
  /\ \/ shutdown' = "done" /\ child' = [child EXCEPT ![instance] = "none"]
     \/ shutdown' = "failed" /\ child' = [child EXCEPT ![instance] = "broken"]
  /\ UNCHANGED <<harness, starting, invalidating, closed, active, drained, locals>>

--------------------------------------------------------------------------------
(* The caller-owned factory.                                               *)

FactorySettles(k) ==
  /\ child[k] = "starting"
  /\ \E outcome \in {"alive", "failed"} : child' = [child EXCEPT ![k] = outcome]
  /\ UNCHANGED <<fields, locals>>

--------------------------------------------------------------------------------
CallStep(c) == Use(c) \/ Unblock(c) \/ Resume(c) \/ Started(c) \/ Shared(c) \/ OperationSettles(c)

Next ==
  \/ \E c \in Callers : CallStep(c)
  \/ \E expected \in MaybeChild : InvalidateIfIdle(expected)
  \/ InvalidationCloses \/ InvalidationSettles \/ InvalidationEnds
  \/ Close \/ Drained \/ TakeChild \/ ShutdownSettles
  \/ \E k \in Children : FactorySettles(k)

Safety == Init /\ [][Next]_vars

(* The microtask queue runs every continuation that is ready.  The factory, *)
(* the operation and the child's close() are assumed to settle: the class  *)
(* leaves cancelling a stuck operation to its caller.                      *)
Fairness ==
  /\ \A c \in Callers :
       WF_vars(Unblock(c) \/ Resume(c) \/ Started(c) \/ Shared(c) \/ OperationSettles(c))
  /\ WF_vars(InvalidationCloses \/ InvalidationSettles \/ InvalidationEnds)
  /\ WF_vars(Drained \/ TakeChild \/ ShutdownSettles)
  /\ \A k \in Children : WF_vars(FactorySettles(k))

Spec == Safety /\ Fairness

--------------------------------------------------------------------------------
(* Properties.                                                             *)

(* Whatever the order of starts, invalidations, failed closes and shutdown, *)
(* two child processes never exist at the same time.                       *)
AtMostOneChild ==
  \A k1, k2 \in Children : child[k1] \in Existing /\ child[k2] \in Existing => k1 = k2

(* An accepted operation runs on a child that is up, and keeps it up: no   *)
(* invalidation and no shutdown closes a child under a running session.    *)
OperationsOnLiveChild ==
  \A c \in Callers : call[c] = "running" => ref[c] \in Children /\ child[ref[c]] = "alive"

(* A process that may exist is held by a field, by the invalidation or by  *)
(* the shutdown that is closing it: none is ever forgotten while running.  *)
NoOrphan ==
  \A k \in Children :
    child[k] \in Existing => k \in {harness, starting, invalidating, instance}

(* When close() has resolved there is no process left, and no call inside. *)
ShutdownIsComplete ==
  shutdown = "done" =>
    /\ \A k \in Children : child[k] \notin Existing
    /\ \A c \in Callers : call[c] = "idle"

(* No process is ever left behind: not while the runtime works, and not by a *)
(* shutdown that has resolved.                                             *)
NothingLeftBehind == NoOrphan /\ ShutdownIsComplete

(* The one child belongs to the runtime from its start to its end.         *)
ChildOwned == AtMostOneChild /\ OperationsOnLiveChild /\ NothingLeftBehind

(* Every accepted call settles, also one that waited for an invalidation   *)
(* that failed, or for a start made by another call.                       *)
UseSettles == \A c \in Callers : call[c] # "idle" ~> call[c] = "idle"

(* close() settles: the wake-up of the last call out is never lost.        *)
CloseSettles == shutdown # "none" ~> shutdown \in {"done", "failed"}

(* Neither a call nor the shutdown is left waiting for the other.          *)
EverythingSettles == UseSettles /\ CloseSettles

--------------------------------------------------------------------------------
(* The inductive invariant behind the four safety properties, in parts.    *)

Inside == {c \in Callers : call[c] # "idle"}

CountInv == active = Cardinality(Inside)

(* At most one field leads to a process; two only while a failed           *)
(* invalidation is putting its child back.                                 *)
FieldsInv ==
  /\ starting # NoChild => harness = NoChild /\ invalidating = NoChild /\ instance = NoChild
  /\ instance # NoChild => harness = NoChild /\ invalidating = NoChild
  /\ invalidating # NoChild /\ harness # NoChild => harness = invalidating /\ chain = "failed"

ChildInv ==
  /\ NoOrphan
  /\ starting # NoChild => child[starting] \in {"starting", "alive", "failed"}
  /\ \A k \in Children : child[k] = "starting" => k = starting
  /\ harness # NoChild => child[harness] = IF chain = "failed" THEN "broken" ELSE "alive"

CallInv ==
  \A c \in Callers :
    /\ call[c] \in {"idle", "entered", "blocked"} => ref[c] = NoChild
    /\ call[c] = "starting" => ref[c] # NoChild /\ ref[c] = starting
    /\ call[c] = "sharing" =>
         /\ ref[c] # NoChild
         /\ ref[c] = starting \/ ref[c] = harness \/ child[ref[c]] = "failed"
    /\ call[c] = "running" => ref[c] # NoChild /\ ref[c] = harness
    /\ call[c] \in {"entered", "starting", "sharing", "running"} =>
         invalidating = NoChild /\ chain = "closed"
    /\ call[c] # "idle" => shutdown \in {"none", "draining"}

OneStarterInv ==
  /\ \A c1, c2 \in Callers : call[c1] = "starting" /\ call[c2] = "starting" => c1 = c2
  /\ starting # NoChild => \E c \in Callers : call[c] = "starting"

InvalidationInv ==
  /\ invalidating = NoChild => chain \in {"closed", "failed"}
  /\ invalidating # NoChild =>
       /\ chain = "queued" => child[invalidating] = "alive"
       /\ chain = "closing" => child[invalidating] = "closing"
       /\ chain = "closed" => child[invalidating] = "none"
       /\ chain = "failed" => child[invalidating] = "broken"
  /\ chain = "failed" => closed
  /\ chain = "failed" /\ invalidating # NoChild => harness = invalidating

ShutdownInv ==
  /\ shutdown # "none" => closed
  /\ drained = "set" => shutdown = "draining" /\ active > 0
  /\ drained = "resolved" => shutdown = "draining" /\ active = 0
  /\ shutdown \in {"none", "draining", "settling"} => instance = NoChild
  /\ shutdown \in {"closing", "done", "failed"} => harness = NoChild /\ invalidating = NoChild
  /\ shutdown = "closing" => instance # NoChild /\ child[instance] = "closing"
  /\ shutdown = "done" /\ instance # NoChild => child[instance] = "none"

IInv ==
  /\ TypeOK /\ CountInv /\ FieldsInv /\ ChildInv /\ CallInv /\ OneStarterInv
  /\ InvalidationInv /\ ShutdownInv

--------------------------------------------------------------------------------
(* Refinement.                                                             *)

leaseOf == [k \in Children |->
  IF child[k] \in {"starting", "alive"} THEN "up"
  ELSE IF child[k] \in {"closing", "broken"} THEN "retiring" ELSE "none"]

holderOf == [c \in Callers |-> IF call[c] = "running" THEN ref[c] ELSE NoChild]

Abstract == INSTANCE SharedChild
  WITH lease <- leaseOf, holder <- holderOf, over <- (shutdown = "done")

(* The runtime implements the promise made to the callers of a shared child. *)
ImplementsSharedChild == Abstract!Spec
================================================================================
