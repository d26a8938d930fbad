--------------------------- MODULE ConcurrencyLimiter ---------------------------
(***************************************************************************)
(* BoundedConcurrencyLimiter (packages/ts-host/src/dsh/                    *)
(* session-scheduler.ts): at most Limit operations at once, admitted in    *)
(* the order of their run() calls.  A finished operation hands its slot to *)
(* the first waiter instead of giving it back, so `active` does not move.  *)
(***************************************************************************)
EXTENDS Naturals, Sequences, FiniteSets

CONSTANTS Operations, Limit

(* The constructor refuses any other limit.                                *)
ASSUME LimitAssumption == Limit \in Nat \ {0} /\ IsFiniteSet(Operations)

VARIABLES
  slots, waiters,    (* the fields `active` and `waiters`                     *)
  ready,             (* jobs whose await is over, in the microtask queue      *)
  operation,         (* operation[j]: where the run() of j is                     *)
  arrivals           (* observation: jobs that have not begun, as they came   *)

limiterVars == <<slots, waiters, ready, operation, arrivals>>

LimiterTypeOK ==
  /\ slots \in Nat
  /\ waiters \in Seq(Operations) /\ ready \in Seq(Operations) /\ arrivals \in Seq(Operations)
  /\ operation \in [Operations -> {"new", "waiting", "ready", "running", "done"}]

LimiterInit ==
  /\ slots = 0
  /\ waiters = <<>> /\ ready = <<>> /\ arrivals = <<>>
  /\ operation = [j \in Operations |-> "new"]

HasSlot == slots < Limit

(* Mutant: the newest waiter is the first.                                 *)
Stacked(j) == <<j>> \o waiters

Queued(j) == Append(waiters, j)

Acquire(j) ==
  /\ operation[j] = "new"
  /\ arrivals' = Append(arrivals, j)
  /\ \/ /\ HasSlot
        /\ slots' = slots + 1
        /\ ready' = Append(ready, j)
        /\ operation' = [operation EXCEPT ![j] = "ready"]
        /\ UNCHANGED waiters
     \/ /\ ~HasSlot
        /\ waiters' = Queued(j)
        /\ operation' = [operation EXCEPT ![j] = "waiting"]
        /\ UNCHANGED <<slots, ready>>

(* The await in run() ends; microtasks run in the order they were queued.  *)
Begin ==
  /\ ready # <<>>
  /\ operation' = [operation EXCEPT ![Head(ready)] = "running"]
  /\ ready' = Tail(ready)
  /\ arrivals' = Tail(arrivals)
  /\ UNCHANGED <<slots, waiters>>

SlotsAfterHandOn == slots
MustHandOn == waiters # <<>>

(* The finally of run(), after a success or a failure of the operation.    *)
Release(j) ==
  /\ operation[j] = "running"
  /\ \/ /\ MustHandOn
        /\ ready' = Append(ready, Head(waiters))
        /\ waiters' = Tail(waiters)
        /\ operation' = [operation EXCEPT ![j] = "done", ![Head(waiters)] = "ready"]
        /\ slots' = SlotsAfterHandOn
     \/ /\ ~MustHandOn
        /\ slots' = slots - 1
        /\ operation' = [operation EXCEPT ![j] = "done"]
        /\ UNCHANGED <<ready, waiters>>
  /\ UNCHANGED arrivals

LimiterNext == Begin \/ \E j \in Operations : Acquire(j) \/ Release(j)

LimiterSafety == LimiterInit /\ [][LimiterNext]_limiterVars

(* The microtask queue is drained; an operation is assumed to settle.      *)
LimiterFairness == WF_limiterVars(Begin) /\ \A j \in Operations : WF_limiterVars(Release(j))

LimiterSpec == LimiterSafety /\ LimiterFairness

--------------------------------------------------------------------------------
Admitted == {j \in Operations : operation[j] \in {"ready", "running"}}

(* The counter is the number of admitted jobs: a slot handed from a finished *)
(* operation to a waiter is counted once, and none is lost or minted.      *)
SlotsAccounted == slots = Cardinality(Admitted)

(* Never more than Limit operations run at once.                           *)
WithinLimit == Cardinality({j \in Operations : operation[j] = "running"}) <= Limit

(* Nobody waits while a slot is free.                                      *)
NoIdleSlot == waiters # <<>> => slots = Limit

(* The slots are kept exactly: none is lost, minted, idle or given twice.  *)
SlotsExact == SlotsAccounted /\ NoIdleSlot /\ WithinLimit

(* Operations begin in the order of the run() calls: a call that finds a free *)
(* slot cannot overtake a waiter that has just been handed one.            *)
FirstComeFirstServed == arrivals = ready \o waiters

(* The slots are given out exactly and in order.                           *)
LimiterExact == SlotsExact /\ FirstComeFirstServed

(* The inductive invariant: every queued job is at the stage of its queue, *)
(* once, and the limiter is full while somebody waits.                     *)
Holds(queue, s) ==
  /\ \A i \in 1 .. Len(queue) : operation[queue[i]] = s
  /\ \A i, k \in 1 .. Len(queue) : queue[i] = queue[k] => i = k

LimiterInv ==
  /\ LimiterTypeOK /\ SlotsAccounted /\ NoIdleSlot /\ FirstComeFirstServed
  /\ slots <= Limit
  /\ Holds(ready, "ready") /\ Holds(waiters, "waiting")

(* Every call is admitted in the end, whatever the outcome of earlier ones. *)
EveryJobAdmitted == \A j \in Operations : operation[j] \in {"waiting", "ready"} ~> operation[j] = "running"
================================================================================
