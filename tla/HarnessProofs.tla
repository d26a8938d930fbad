----------------------------- MODULE HarnessProofs -----------------------------
(***************************************************************************)
(* The safety properties of HarnessRuntime hold for every finite set of    *)
(* callers and every set of child identities.  The argument is one         *)
(* inductive invariant, IInv: at most one of the four fields that can lead *)
(* to a process does so, every suspended call agrees with that field, and  *)
(* the counter `active` is the number of calls that are inside.            *)
(*                                                                         *)
(* PerSessionScheduler: the order of the turns of a session, for any jobs  *)
(* and sessions.  RunsInOrder alone is not inductive: that a job may run   *)
(* when the one before it has finished rests on the chain of promises,     *)
(* which SessionInv describes.                                             *)
(*                                                                         *)
(* BoundedConcurrencyLimiter admits at most Limit operations, loses and    *)
(* mints no slot, leaves none idle and admits in order, for every limit and *)
(* every finite set of jobs.  The invariant LimiterInv ties the two queues *)
(* to the stages of their jobs: without it a slot could be handed to a job *)
(* that holds one, and the count of the admitted jobs would not move with  *)
(* slots.                                                                  *)
(***************************************************************************)
EXTENDS MCHarness, FiniteSetTheorems, SequenceTheorems, TLAPS

(* The one-line guards and updates are always expanded.                    *)
USE DEF FirstWait, CountIn, LastOut, InvalidationSettled, IsIdle, CloseQueued,
        AfterFailedClose, MustDrain

--------------------------------------------------------------------------------
(* The counter.                                                            *)

(* The set of calls inside is finite, so its cardinality is a number.      *)
LEMMA InsideFinite ==
  /\ IsFiniteSet(Inside)
  /\ Cardinality(Inside) \in Nat
  /\ Cardinality(Inside) = 0 <=> Inside = {}
<1>1. Inside \in SUBSET Callers
  BY DEF Inside
<1>2. IsFiniteSet(Inside)
  BY <1>1, FS_Subset, ConstantsAssumption
<1> QED
  BY <1>2, FS_CardinalityType, FS_EmptySet

(* A call that enters adds one to the number of calls inside.              *)
LEMMA CountUp ==
  ASSUME NEW c \in Callers, CountInv, call[c] = "idle", active' = active + 1,
         Inside' = Inside \cup {c}
  PROVE  CountInv'
<1>1. c \notin Inside
  BY DEF Inside
<1>2. Cardinality(Inside \cup {c}) = Cardinality(Inside) + 1
  BY <1>1, InsideFinite, FS_AddElement
<1> QED
  BY <1>2 DEF CountInv

(* A call that leaves takes one away, and there was at least that one.     *)
LEMMA CountDown ==
  ASSUME NEW c \in Callers, CountInv, call[c] # "idle", active' = active - 1,
         Inside' = Inside \ {c}
  PROVE  CountInv' /\ active > 0 /\ active' \in Nat
<1>1. c \in Inside
  BY DEF Inside
<1>2. Cardinality(Inside \ {c}) = Cardinality(Inside) - 1
  BY <1>1, InsideFinite, FS_RemoveElement
<1>3. Cardinality(Inside) \in Nat /\ Cardinality(Inside) # 0
  BY <1>1, InsideFinite
<1> QED
  BY <1>2, <1>3 DEF CountInv

(* active is zero exactly when every call is idle.                         *)
LEMMA CountZero ==
  ASSUME CountInv
  PROVE  /\ active = 0 <=> \A c \in Callers : call[c] = "idle"
         /\ active \in Nat
BY InsideFinite DEF CountInv, Inside

--------------------------------------------------------------------------------
(* Preservation, one lemma per action.                                     *)

LEMMA InitInv == Init => IInv
<1> SUFFICES ASSUME Init PROVE IInv
  OBVIOUS
<1>1. TypeOK
  BY DEF Init, TypeOK, MaybeChild, Existing
<1>2. CountInv
  <2>1. Inside = {}
    BY DEF Init, Inside
  <2> QED
    BY <2>1, FS_EmptySet DEF CountInv, Init
<1>3. FieldsInv /\ ChildInv /\ CallInv /\ OneStarterInv /\ InvalidationInv /\ ShutdownInv
  BY DEF Init, FieldsInv, ChildInv, CallInv, OneStarterInv, InvalidationInv, ShutdownInv,
         NoOrphan, Existing
<1> QED
  BY <1>1, <1>2, <1>3 DEF IInv

LEMMA UseInv ==
  ASSUME IInv, NEW c \in Callers, Use(c)
  PROVE  IInv'
<1> USE DEF IInv
<1>1. TypeOK'
  BY DEF TypeOK, Use
<1>2. CountInv'
  <2>1. Inside' = Inside \cup {c}
    BY DEF Use, Inside, TypeOK
  <2> QED
    BY <2>1, CountUp DEF Use
<1>3. FieldsInv' /\ ChildInv' /\ OneStarterInv' /\ InvalidationInv'
  BY DEF Use, TypeOK, FieldsInv, ChildInv, NoOrphan, OneStarterInv, InvalidationInv
<1>4. CallInv'
  BY DEF Use, TypeOK, CallInv, ShutdownInv, InvalidationInv
<1>5. ShutdownInv'
  BY DEF Use, TypeOK, ShutdownInv
<1> QED
  BY <1>1, <1>2, <1>3, <1>4, <1>5

(* get() keeps the invariant: it starts a child only when no field leads to *)
(* one, and otherwise joins the child that a field leads to.               *)
LEMMA GetInv ==
  ASSUME IInv, NEW c \in Callers, Get(c), call[c] \in {"entered", "blocked"},
         invalidating = NoChild, chain = "closed"
  PROVE  IInv'
<1> USE DEF IInv
<1>0. shutdown \in {"none", "draining"} /\ instance = NoChild
  BY DEF CallInv, ShutdownInv
<1>1. TypeOK'
  BY DEF TypeOK, Get, MaybeChild, Existing
<1>2. CountInv'
  <2>1. Inside' = Inside
    BY DEF Get, Inside, TypeOK
  <2> QED
    BY <2>1 DEF CountInv, Get
<1>3. CASE harness # NoChild
  <2>1. UNCHANGED <<starting, child>> /\ ref' = [ref EXCEPT ![c] = harness]
        /\ call' = [call EXCEPT ![c] = "running"] /\ UNCHANGED fields
    BY <1>3 DEF Get, fields
  <2>2. FieldsInv' /\ ChildInv' /\ InvalidationInv' /\ ShutdownInv'
    BY <2>1 DEF Get, FieldsInv, ChildInv, NoOrphan, InvalidationInv, ShutdownInv, fields
  <2>3. CallInv'
    BY <1>0, <1>3, <2>1 DEF Get, CallInv, TypeOK, fields
  <2>4. OneStarterInv'
    BY <1>3, <2>1 DEF OneStarterInv, TypeOK, fields, FieldsInv
  <2> QED
    BY <1>1, <1>2, <2>2, <2>3, <2>4
<1>4. CASE harness = NoChild /\ starting # NoChild
  <2>1. UNCHANGED <<starting, child>> /\ ref' = [ref EXCEPT ![c] = starting]
        /\ call' = [call EXCEPT ![c] = "sharing"] /\ UNCHANGED fields
    BY <1>4 DEF Get, fields
  <2>2. FieldsInv' /\ ChildInv' /\ InvalidationInv' /\ ShutdownInv'
    BY <2>1 DEF Get, FieldsInv, ChildInv, NoOrphan, InvalidationInv, ShutdownInv, fields
  <2>3. CallInv'
    BY <1>0, <1>4, <2>1 DEF Get, CallInv, TypeOK, fields
  <2>4. OneStarterInv'
    BY <1>4, <2>1 DEF OneStarterInv, TypeOK, fields
  <2> QED
    BY <1>1, <1>2, <2>2, <2>3, <2>4
<1>5. CASE harness = NoChild /\ starting = NoChild
  <2>1. PICK k \in Children :
          /\ Fresh(k)
          /\ starting' = k
          /\ child' = [child EXCEPT ![k] = "starting"]
          /\ ref' = [ref EXCEPT ![c] = k]
    BY <1>5 DEF Get
  <2>2. k # NoChild
    BY ConstantsAssumption
  <2>3. \A j \in Children : child[j] \notin Existing
    BY <1>0, <1>5, ConstantsAssumption DEF ChildInv, NoOrphan
  <2>4. call' = [call EXCEPT ![c] = "starting"]
        /\ UNCHANGED <<harness, invalidating, shutdown, closed, active, drained, chain, instance>>
    BY <1>5 DEF Get
  <2>5. FieldsInv' /\ ChildInv' /\ InvalidationInv' /\ ShutdownInv'
    BY <1>0, <1>5, <2>1, <2>2, <2>3, <2>4
    DEF FieldsInv, ChildInv, NoOrphan, InvalidationInv, ShutdownInv, TypeOK, Existing
  <2>6. CallInv'
    BY <1>0, <1>5, <2>1, <2>2, <2>4 DEF CallInv, TypeOK, Fresh
  <2>7. OneStarterInv'
    BY <1>5, <2>1, <2>4 DEF OneStarterInv, CallInv, TypeOK
  <2> QED
    BY <1>1, <1>2, <2>5, <2>6, <2>7
<1> QED
  BY <1>3, <1>4, <1>5

(* A call that leaves without touching a field keeps the invariant, unless *)
(* it is the caller that still owns the factory's promise.                 *)
LEMMA LeaveInv ==
  ASSUME IInv, NEW c \in Callers, Leave(c), call[c] \notin {"idle", "starting"},
         UNCHANGED <<harness, starting, invalidating, shutdown, closed, chain, instance, child>>
  PROVE  IInv'
<1> USE DEF IInv
<1>1. CountInv' /\ active > 0 /\ active' \in Nat
  <2>1. Inside' = Inside \ {c}
    BY DEF Leave, Inside, TypeOK
  <2> QED
    BY <2>1, CountDown DEF Leave
<1>2. TypeOK'
  BY <1>1 DEF TypeOK, Leave, MaybeChild
<1>3. FieldsInv' /\ ChildInv' /\ InvalidationInv'
  BY DEF FieldsInv, ChildInv, NoOrphan, InvalidationInv
<1>4. CallInv'
  BY DEF CallInv, TypeOK, Leave
<1>5. OneStarterInv'
  BY DEF OneStarterInv, TypeOK, Leave
<1>6. ShutdownInv'
  BY <1>1 DEF ShutdownInv, TypeOK, Leave
<1> QED
  BY <1>1, <1>2, <1>3, <1>4, <1>5, <1>6

LEMMA UnblockInv ==
  ASSUME IInv, NEW c \in Callers, Unblock(c)
  PROVE  IInv'
BY GetInv, LeaveInv DEF Unblock

LEMMA ResumeInv ==
  ASSUME IInv, NEW c \in Callers, Resume(c)
  PROVE  IInv'
BY GetInv DEF Resume, IInv, CallInv

LEMMA SharedInv ==
  ASSUME IInv, NEW c \in Callers, Shared(c)
  PROVE  IInv'
<1>1. CASE child[ref[c]] = "failed"
  BY <1>1, LeaveInv DEF Shared
<1>2. CASE child[ref[c]] = "alive"
  <2> USE DEF IInv
  <2>1. UNCHANGED <<fields, ref, chain, instance, child>> /\ call' = [call EXCEPT ![c] = "running"]
        /\ call[c] = "sharing" /\ starting # ref[c]
    BY <1>2 DEF Shared, fields
  <2>2. ref[c] = harness /\ ref[c] # NoChild
    BY <1>2, <2>1 DEF CallInv
  <2>3. TypeOK'
    BY <2>1 DEF TypeOK, fields
  <2>4. CountInv'
    <3>1. Inside' = Inside
      BY <2>1 DEF Inside, TypeOK
    <3> QED
      BY <2>1, <3>1 DEF CountInv, fields
  <2>5. FieldsInv' /\ ChildInv' /\ InvalidationInv' /\ ShutdownInv'
    BY <2>1 DEF fields, FieldsInv, ChildInv, NoOrphan, InvalidationInv, ShutdownInv
  <2>6. CallInv'
    BY <2>1, <2>2 DEF CallInv, TypeOK, fields
  <2>7. OneStarterInv'
    BY <2>1 DEF OneStarterInv, TypeOK, fields
  <2> QED
    BY <2>3, <2>4, <2>5, <2>6, <2>7
<1> QED
  BY <1>1, <1>2 DEF Shared

LEMMA StartedInv ==
  ASSUME IInv, NEW c \in Callers, Started(c)
  PROVE  IInv'
<1> USE DEF IInv
<1>1. call[c] = "starting" /\ ref[c] = starting /\ starting # NoChild /\ starting' = NoChild
      /\ starting \in Children
  BY DEF Started, CallInv, TypeOK, MaybeChild
<1>2. harness = NoChild /\ invalidating = NoChild /\ instance = NoChild /\ chain = "closed"
      /\ shutdown \in {"none", "draining"}
  BY <1>1 DEF FieldsInv, CallInv
<1>3. UNCHANGED <<invalidating, shutdown, closed, chain, instance, child>>
  BY DEF Started
<1>4. \A d \in Callers : call[d] = "starting" => d = c
  BY <1>1 DEF OneStarterInv
<1>5. CASE child[ref[c]] = "alive"
  <2>1. harness' = starting /\ call' = [call EXCEPT ![c] = "running"]
        /\ UNCHANGED <<active, drained, ref>>
    BY <1>1, <1>5 DEF Started
  <2>2. TypeOK'
    BY <1>1, <1>3, <2>1 DEF TypeOK, MaybeChild
  <2>3. CountInv'
    <3>1. Inside' = Inside
      BY <1>1, <2>1 DEF Inside, TypeOK
    <3> QED
      BY <2>1, <3>1 DEF CountInv
  <2>4. FieldsInv' /\ InvalidationInv' /\ ShutdownInv'
    BY <1>1, <1>2, <1>3, <2>1 DEF FieldsInv, InvalidationInv, ShutdownInv
  <2>5. ChildInv'
    BY <1>1, <1>2, <1>3, <1>5, <2>1 DEF ChildInv, NoOrphan
  <2>6. CallInv'
    BY <1>1, <1>2, <1>3, <1>4, <2>1 DEF CallInv, TypeOK
  <2>7. OneStarterInv'
    BY <1>1, <1>4, <2>1 DEF OneStarterInv, TypeOK
  <2> QED
    BY <2>2, <2>3, <2>4, <2>5, <2>6, <2>7
<1>6. CASE child[ref[c]] = "failed"
  <2>1. Leave(c) /\ UNCHANGED harness
    BY <1>6 DEF Started
  <2>2. CountInv' /\ active > 0 /\ active' \in Nat
    <3>1. Inside' = Inside \ {c}
      BY <2>1 DEF Leave, Inside, TypeOK
    <3> QED
      BY <1>1, <2>1, <3>1, CountDown DEF Leave
  <2>3. TypeOK'
    BY <1>1, <1>3, <2>1, <2>2 DEF TypeOK, Leave, MaybeChild
  <2>4. FieldsInv' /\ InvalidationInv'
    BY <1>1, <1>2, <1>3, <2>1 DEF FieldsInv, InvalidationInv
  <2>5. ChildInv'
    BY <1>1, <1>2, <1>3, <1>6, <2>1 DEF ChildInv, NoOrphan, Existing
  <2>6. CallInv'
    BY <1>1, <1>2, <1>3, <1>4, <1>6, <2>1 DEF CallInv, TypeOK, Leave
  <2>7. OneStarterInv'
    BY <1>1, <1>4, <2>1 DEF OneStarterInv, TypeOK, Leave
  <2>8. ShutdownInv'
    BY <1>2, <1>3, <2>1, <2>2 DEF ShutdownInv, TypeOK, Leave
  <2> QED
    BY <2>2, <2>3, <2>4, <2>5, <2>6, <2>7, <2>8
<1> QED
  BY <1>5, <1>6 DEF Started

LEMMA OperationInv ==
  ASSUME IInv, NEW c \in Callers, OperationSettles(c)
  PROVE  IInv'
BY LeaveInv DEF OperationSettles

(* Steps that touch no call and not the counter keep CountInv.             *)
LEMMA CountSame ==
  ASSUME CountInv, UNCHANGED <<active, call>>
  PROVE  CountInv'
BY DEF CountInv, Inside

(* An invalidation begins only when every call is idle.                    *)
LEMMA InvalidateInv ==
  ASSUME IInv, NEW expected \in MaybeChild, InvalidateIfIdle(expected)
  PROVE  IInv'
<1> USE DEF IInv
<1>1. CountInv'
  BY CountSame DEF InvalidateIfIdle
<1>2. \A c \in Callers : call[c] = "idle"
  BY CountZero DEF InvalidateIfIdle
<1>3. starting = NoChild /\ instance = NoChild /\ shutdown = "none" /\ chain = "closed"
  BY <1>2 DEF InvalidateIfIdle, FieldsInv, ShutdownInv, OneStarterInv, InvalidationInv
<1>4. harness' = NoChild /\ invalidating' = harness /\ chain' = "queued" /\ harness # NoChild
      /\ UNCHANGED <<starting, shutdown, closed, active, drained, instance, call, ref, child>>
  BY DEF InvalidateIfIdle
<1>5. TypeOK'
  BY <1>4 DEF TypeOK, MaybeChild
<1>6. FieldsInv' /\ ChildInv' /\ InvalidationInv' /\ ShutdownInv'
  BY <1>3, <1>4 DEF FieldsInv, ChildInv, NoOrphan, InvalidationInv, ShutdownInv
<1>7. CallInv' /\ OneStarterInv'
  BY <1>2, <1>3, <1>4 DEF CallInv, OneStarterInv
<1> QED
  BY <1>1, <1>5, <1>6, <1>7

LEMMA InvalidationClosesInv ==
  ASSUME IInv, InvalidationCloses
  PROVE  IInv'
<1> USE DEF IInv
<1>1. CountInv'
  BY CountSame DEF InvalidationCloses, fields
<1>2. /\ invalidating \in Children /\ invalidating # NoChild
      /\ child' = [child EXCEPT ![invalidating] = "closing"]
      /\ chain = "queued" /\ chain' = "closing"
      /\ UNCHANGED <<harness, starting, invalidating, shutdown, closed, active, drained,
                     instance, call, ref>>
  BY DEF InvalidationCloses, fields, TypeOK, MaybeChild
<1>3. harness = NoChild /\ starting = NoChild /\ instance = NoChild
      /\ shutdown \notin {"closing", "done", "failed"}
  BY <1>2 DEF FieldsInv, ShutdownInv
<1>4. TypeOK'
  BY <1>2 DEF TypeOK, Existing
<1>5. FieldsInv' /\ InvalidationInv' /\ ShutdownInv'
  BY <1>2, <1>3 DEF FieldsInv, InvalidationInv, ShutdownInv, TypeOK
<1>6. ChildInv'
  BY <1>2, <1>3 DEF ChildInv, NoOrphan, TypeOK, Existing
<1>7. CallInv' /\ OneStarterInv'
  BY <1>2, <1>3 DEF CallInv, OneStarterInv
<1> QED
  BY <1>1, <1>4, <1>5, <1>6, <1>7

LEMMA InvalidationSettlesInv ==
  ASSUME IInv, InvalidationSettles
  PROVE  IInv'
<1> USE DEF IInv
<1>1. CountInv'
  BY CountSame DEF InvalidationSettles
<1>2. /\ invalidating \in Children /\ invalidating # NoChild /\ chain = "closing"
      /\ UNCHANGED <<starting, invalidating, shutdown, active, drained, instance, call, ref>>
  BY DEF InvalidationSettles, TypeOK, MaybeChild
<1>3. harness = NoChild /\ starting = NoChild /\ instance = NoChild
      /\ shutdown \notin {"closing", "done", "failed"}
      /\ \A c \in Callers : call[c] \in {"idle", "blocked"}
  BY <1>2 DEF FieldsInv, ShutdownInv, CallInv, TypeOK
<1>4. CASE /\ chain' = "closed" /\ UNCHANGED <<harness, closed>>
           /\ child' = [child EXCEPT ![invalidating] = "none"]
  <2>1. TypeOK'
    BY <1>2, <1>4 DEF TypeOK
  <2>2. FieldsInv' /\ InvalidationInv' /\ ShutdownInv'
    BY <1>2, <1>3, <1>4 DEF FieldsInv, InvalidationInv, ShutdownInv, TypeOK
  <2>3. ChildInv'
    BY <1>2, <1>3, <1>4 DEF ChildInv, NoOrphan, TypeOK, Existing
  <2>4. CallInv' /\ OneStarterInv'
    BY <1>2, <1>3, <1>4 DEF CallInv, OneStarterInv
  <2> QED
    BY <1>1, <2>1, <2>2, <2>3, <2>4
<1>5. CASE /\ chain' = "failed" /\ harness' = invalidating /\ closed' = TRUE
           /\ child' = [child EXCEPT ![invalidating] = "broken"]
  <2>1. TypeOK'
    BY <1>2, <1>5 DEF TypeOK, Existing
  <2>2. FieldsInv' /\ InvalidationInv' /\ ShutdownInv'
    BY <1>2, <1>3, <1>5 DEF FieldsInv, InvalidationInv, ShutdownInv, TypeOK
  <2>3. ChildInv'
    BY <1>2, <1>3, <1>5 DEF ChildInv, NoOrphan, TypeOK, Existing
  <2>4. CallInv' /\ OneStarterInv'
    BY <1>2, <1>3, <1>5 DEF CallInv, OneStarterInv
  <2> QED
    BY <1>1, <2>1, <2>2, <2>3, <2>4
<1> QED
  BY <1>4, <1>5 DEF InvalidationSettles

LEMMA InvalidationEndsInv ==
  ASSUME IInv, InvalidationEnds
  PROVE  IInv'
<1> USE DEF IInv
<1>1. CountInv'
  BY CountSame DEF InvalidationEnds, locals
<1>2. TypeOK' /\ FieldsInv' /\ InvalidationInv' /\ ShutdownInv' /\ CallInv' /\ OneStarterInv'
  BY DEF InvalidationEnds, locals, TypeOK, MaybeChild, FieldsInv, InvalidationInv, ShutdownInv,
         CallInv, OneStarterInv
<1>3. ChildInv'
  BY DEF InvalidationEnds, locals, ChildInv, NoOrphan, InvalidationInv, Existing, TypeOK
<1> QED
  BY <1>1, <1>2, <1>3

LEMMA CloseInv ==
  ASSUME IInv, Close
  PROVE  IInv'
<1> USE DEF IInv
<1>1. CountInv'
  BY CountSame DEF Close, locals
<1>2. TypeOK' /\ FieldsInv' /\ ChildInv' /\ InvalidationInv' /\ OneStarterInv'
  BY DEF Close, locals, TypeOK, FieldsInv, ChildInv, NoOrphan, InvalidationInv, OneStarterInv
<1>3. ShutdownInv'
  BY DEF Close, locals, ShutdownInv, TypeOK
<1>4. CallInv'
  BY CountZero DEF Close, locals, CallInv
<1> QED
  BY <1>1, <1>2, <1>3, <1>4

LEMMA DrainedInv ==
  ASSUME IInv, Drained
  PROVE  IInv'
<1> USE DEF IInv
<1>1. CountInv'
  BY CountSame DEF Drained, locals
<1>2. TypeOK' /\ FieldsInv' /\ ChildInv' /\ InvalidationInv' /\ OneStarterInv' /\ ShutdownInv'
  BY DEF Drained, locals, TypeOK, FieldsInv, ChildInv, NoOrphan, InvalidationInv, OneStarterInv,
         ShutdownInv
<1>3. CallInv'
  BY CountZero DEF Drained, locals, CallInv, ShutdownInv
<1> QED
  BY <1>1, <1>2, <1>3

LEMMA TakeChildInv ==
  ASSUME IInv, TakeChild
  PROVE  IInv'
<1> USE DEF IInv
<1>1. CountInv'
  BY CountSame DEF TakeChild
<1>2. \A c \in Callers : call[c] = "idle"
  BY DEF TakeChild, CallInv
<1>3. starting = NoChild /\ instance = NoChild
  BY <1>2 DEF TakeChild, OneStarterInv, ShutdownInv
<1>4. TypeOK' /\ FieldsInv' /\ InvalidationInv' /\ ShutdownInv'
  BY <1>3 DEF TakeChild, TypeOK, MaybeChild, Existing, FieldsInv, InvalidationInv, ShutdownInv
<1>5. ChildInv'
  BY <1>3 DEF TakeChild, ChildInv, NoOrphan, TypeOK, MaybeChild, Existing
<1>6. CallInv' /\ OneStarterInv'
  BY <1>2, <1>3 DEF TakeChild, CallInv, OneStarterInv
<1> QED
  BY <1>1, <1>4, <1>5, <1>6

LEMMA ShutdownSettlesInv ==
  ASSUME IInv, ShutdownSettles
  PROVE  IInv'
<1> USE DEF IInv
<1>1. CountInv'
  BY CountSame DEF ShutdownSettles, locals
<1>2. instance \in Children /\ instance # NoChild /\ child[instance] = "closing"
      /\ starting = NoChild
  BY DEF ShutdownSettles, ShutdownInv, FieldsInv, TypeOK, MaybeChild
<1>3. \A c \in Callers : call[c] = "idle"
  BY DEF ShutdownSettles, CallInv
<1>4. TypeOK' /\ FieldsInv' /\ InvalidationInv' /\ ShutdownInv'
  BY <1>2 DEF ShutdownSettles, locals, TypeOK, Existing, FieldsInv, InvalidationInv, ShutdownInv
<1>5. ChildInv'
  BY <1>2 DEF ShutdownSettles, locals, ChildInv, NoOrphan, TypeOK, Existing, ShutdownInv
<1>6. CallInv' /\ OneStarterInv'
  BY <1>2, <1>3 DEF ShutdownSettles, locals, CallInv, OneStarterInv
<1> QED
  BY <1>1, <1>4, <1>5, <1>6

LEMMA FactoryInv ==
  ASSUME IInv, NEW k \in Children, FactorySettles(k)
  PROVE  IInv'
<1> USE DEF IInv
<1>1. CountInv'
  BY CountSame DEF FactorySettles, fields, locals
<1>2. k = starting /\ k # NoChild
  BY ConstantsAssumption DEF FactorySettles, ChildInv
<1>3. PICK outcome \in {"alive", "failed"} : child' = [child EXCEPT ![k] = outcome]
  BY DEF FactorySettles
<1>4. UNCHANGED <<harness, starting, invalidating, shutdown, closed, active, drained,
                  chain, instance, call, ref>>
  BY DEF FactorySettles, fields, locals
<1>5. harness = NoChild /\ invalidating = NoChild /\ instance = NoChild
  BY <1>2 DEF FieldsInv
<1>6. TypeOK' /\ FieldsInv' /\ InvalidationInv' /\ ShutdownInv'
  BY <1>2, <1>3, <1>4, <1>5
  DEF TypeOK, Existing, FieldsInv, InvalidationInv, ShutdownInv
<1>7. ChildInv'
  BY <1>2, <1>3, <1>4, <1>5 DEF ChildInv, NoOrphan, TypeOK, Existing
<1>8. CallInv' /\ OneStarterInv'
  BY <1>2, <1>3, <1>4, <1>5 DEF CallInv, OneStarterInv, TypeOK
<1> QED
  BY <1>1, <1>6, <1>7, <1>8

LEMMA StutterInv ==
  ASSUME IInv, UNCHANGED vars
  PROVE  IInv'
BY CountSame DEF IInv, vars, TypeOK, FieldsInv, ChildInv, NoOrphan, CallInv, OneStarterInv,
       InvalidationInv, ShutdownInv

--------------------------------------------------------------------------------
(* The theorems.                                                           *)

(* Every reachable state satisfies the inductive invariant.                *)
THEOREM Invariance == Safety => []IInv
<1>1. IInv /\ [Next]_vars => IInv'
  <2> SUFFICES ASSUME IInv, [Next]_vars PROVE IInv'
    OBVIOUS
  <2>1. ASSUME NEW c \in Callers, CallStep(c) PROVE IInv'
    BY <2>1, UseInv, UnblockInv, ResumeInv, StartedInv, SharedInv, OperationInv DEF CallStep
  <2>2. ASSUME NEW expected \in MaybeChild, InvalidateIfIdle(expected) PROVE IInv'
    BY <2>2, InvalidateInv
  <2>closes. CASE InvalidationCloses
    BY <2>closes, InvalidationClosesInv
  <2>settles. CASE InvalidationSettles
    BY <2>settles, InvalidationSettlesInv
  <2>ends. CASE InvalidationEnds
    BY <2>ends, InvalidationEndsInv
  <2>close. CASE Close
    BY <2>close, CloseInv
  <2>drained. CASE Drained
    BY <2>drained, DrainedInv
  <2>child. CASE TakeChild
    BY <2>child, TakeChildInv
  <2>shutdown. CASE ShutdownSettles
    BY <2>shutdown, ShutdownSettlesInv
  <2>factory. ASSUME NEW k \in Children, FactorySettles(k) PROVE IInv'
    BY <2>factory, FactoryInv
  <2>stutter. CASE UNCHANGED vars
    BY <2>stutter, StutterInv
  <2> QED
    BY <2>1, <2>2, <2>closes, <2>settles, <2>ends, <2>close, <2>drained, <2>child, <2>shutdown, <2>factory,
       <2>stutter DEF Next
<1> QED
  BY InitInv, <1>1, PTL DEF Safety

(* The type invariant and NoOrphan are conjuncts of it.                    *)
THEOREM TypeCorrect == Safety => []TypeOK
<1>1. IInv => TypeOK
  BY DEF IInv
<1> QED
  BY <1>1, Invariance, PTL

LEMMA OneChildOfInv == IInv => AtMostOneChild
<1> SUFFICES ASSUME IInv, NEW k1 \in Children, NEW k2 \in Children,
                    child[k1] \in Existing, child[k2] \in Existing
             PROVE  k1 = k2
  BY DEF AtMostOneChild
<1>1. k1 # NoChild /\ k2 # NoChild
  BY ConstantsAssumption
<1>2. k1 \in {harness, starting, invalidating, instance}
      /\ k2 \in {harness, starting, invalidating, instance}
  BY DEF IInv, ChildInv, NoOrphan
<1> QED
  BY <1>1, <1>2 DEF IInv, FieldsInv

(* Two child processes never exist at the same time.                       *)
THEOREM SingleChild == Safety => []AtMostOneChild
BY OneChildOfInv, Invariance, PTL

LEMMA OperationsOfInv == IInv => OperationsOnLiveChild
<1> SUFFICES ASSUME IInv, NEW c \in Callers, call[c] = "running"
             PROVE  ref[c] \in Children /\ child[ref[c]] = "alive"
  BY DEF OperationsOnLiveChild
<1>1. ref[c] \in Children /\ ref[c] # NoChild /\ ref[c] = harness /\ chain = "closed"
  BY DEF IInv, CallInv, TypeOK, MaybeChild
<1> QED
  BY <1>1 DEF IInv, ChildInv

(* An accepted operation always runs on a child that is up.                *)
THEOREM OperationsSafe == Safety => []OperationsOnLiveChild
BY OperationsOfInv, Invariance, PTL

LEMMA CompleteOfInv == IInv => ShutdownIsComplete
<1> SUFFICES ASSUME IInv, shutdown = "done"
             PROVE  /\ \A k \in Children : child[k] \notin Existing
                    /\ \A c \in Callers : call[c] = "idle"
  BY DEF ShutdownIsComplete
<1>1. \A c \in Callers : call[c] = "idle"
  BY DEF IInv, CallInv
<1>2. harness = NoChild /\ invalidating = NoChild /\ starting = NoChild
  BY <1>1 DEF IInv, ShutdownInv, OneStarterInv
<1>3. instance # NoChild => child[instance] = "none"
  BY DEF IInv, ShutdownInv
<1> QED
  BY <1>1, <1>2, <1>3, ConstantsAssumption DEF IInv, ChildInv, NoOrphan, Existing

(* A process that may exist is always held by a field or by the call that  *)
(* closes it, and close() resolves only when no process and no call is left. *)
THEOREM NoProcessForgotten == Safety => []NothingLeftBehind
<1>1. IInv => NothingLeftBehind
  BY CompleteOfInv DEF IInv, ChildInv, NothingLeftBehind
<1> QED
  BY <1>1, Invariance, PTL

(* The one child belongs to the runtime, whatever happens to it.           *)
THEOREM OwnedSafely == Safety => []ChildOwned
BY SingleChild, OperationsSafe, NoProcessForgotten, PTL DEF ChildOwned

--------------------------------------------------------------------------------
(* Refinement: every step is a step of SharedChild, or a stutter.          *)

LEMMA ImplementsInit == Init => Abstract!Init
BY ConstantsAssumption DEF Init, Abstract!Init, leaseOf, holderOf

(* Nothing is borrowed from a child that no call is running on.            *)
LEMMA UnborrowedIf ==
  ASSUME NEW k \in Children, \A c \in Callers : call[c] = "running" => ref[c] # k
  PROVE  Abstract!Unborrowed(k)
BY ConstantsAssumption DEF Abstract!Unborrowed, holderOf

(* A step that only moves a call to where it borrows nothing, and was      *)
(* borrowing nothing, is a stutter of the abstract specification.          *)
LEMMA CallMoves ==
  ASSUME IInv, NEW c \in Callers, NEW where, NEW on,
         call[c] # "running", where # "running",
         call' = [call EXCEPT ![c] = where], ref' = [ref EXCEPT ![c] = on],
         UNCHANGED <<child, shutdown>>
  PROVE  UNCHANGED Abstract!vars
<1>1. leaseOf' = leaseOf
  BY DEF leaseOf
<1>2. holderOf' = holderOf
  BY DEF holderOf, IInv, TypeOK
<1> QED
  BY <1>1, <1>2 DEF Abstract!vars

(* A call that begins its operation borrows the child it is on.            *)
LEMMA CallBorrows ==
  ASSUME IInv, NEW c \in Callers, NEW k \in Children,
         call[c] # "running", child[k] = "alive",
         call' = [call EXCEPT ![c] = "running"], ref' = [ref EXCEPT ![c] = k],
         UNCHANGED <<child, shutdown>>
  PROVE  Abstract!Borrow(c, k)
<1>1. leaseOf' = leaseOf /\ leaseOf[k] = "up"
  BY DEF leaseOf
<1>2. holderOf' = [holderOf EXCEPT ![c] = k] /\ holderOf[c] = NoChild
  BY DEF holderOf, IInv, TypeOK
<1> QED
  BY <1>1, <1>2 DEF Abstract!Borrow

(* A call that leaves returns what it had borrowed, if anything.           *)
LEMMA CallLeaves ==
  ASSUME IInv, NEW c \in Callers, Leave(c), UNCHANGED <<child, shutdown>>
  PROVE  Abstract!Return(c) \/ UNCHANGED Abstract!vars
<1>1. leaseOf' = leaseOf
  BY DEF leaseOf
<1>2. holderOf' = [holderOf EXCEPT ![c] = NoChild]
  BY DEF holderOf, Leave, IInv, TypeOK
<1>3. CASE holderOf[c] # NoChild
  BY <1>1, <1>2, <1>3 DEF Abstract!Return
<1>4. CASE holderOf[c] = NoChild
  <2>1. holderOf' = holderOf
    BY <1>2, <1>4 DEF holderOf
  <2> QED
    BY <1>1, <2>1 DEF Abstract!vars
<1> QED
  BY <1>3, <1>4

(* A step that changes neither where the calls are, nor what the processes *)
(* are to their borrowers, is a stutter.                                   *)
LEMMA LeaseSame ==
  ASSUME leaseOf' = leaseOf, UNCHANGED <<call, ref>>, (shutdown = "done")' = (shutdown = "done")
  PROVE  UNCHANGED Abstract!vars
BY DEF Abstract!vars, holderOf

(* No process and so no lease, when no field leads to one.                 *)
LEMMA NoLease ==
  ASSUME IInv, {harness, starting, invalidating, instance} = {NoChild}
  PROVE  Abstract!NoneLeft
BY ConstantsAssumption DEF IInv, ChildInv, NoOrphan, Existing, Abstract!NoneLeft, leaseOf

(* get() borrows the child that is up, or launches the first one.          *)
LEMMA GetImplements ==
  ASSUME IInv, NEW c \in Callers, Get(c), call[c] \in {"entered", "blocked"},
         invalidating = NoChild, chain = "closed"
  PROVE  [Abstract!Next]_Abstract!vars
<1>0. instance = NoChild /\ shutdown \in {"none", "draining"} /\ shutdown' = shutdown
  BY DEF IInv, CallInv, ShutdownInv, Get
<1>1. CASE harness # NoChild
  <2>1. harness \in Children /\ child[harness] = "alive"
    BY <1>1 DEF IInv, TypeOK, MaybeChild, ChildInv
  <2>2. Abstract!Borrow(c, harness)
    BY <1>1, <2>1, CallBorrows DEF Get
  <2> QED
    BY <2>1, <2>2 DEF Abstract!Next
<1>2. CASE harness = NoChild /\ starting # NoChild
  <2>1. call' = [call EXCEPT ![c] = "sharing"] /\ ref' = [ref EXCEPT ![c] = starting]
        /\ UNCHANGED <<child, shutdown>>
    BY <1>2 DEF Get
  <2>2. UNCHANGED Abstract!vars
    BY <2>1, CallMoves
  <2> QED
    BY <2>2
<1>3. CASE harness = NoChild /\ starting = NoChild
  <2>1. PICK k \in Children :
          /\ Fresh(k)
          /\ child' = [child EXCEPT ![k] = "starting"]
          /\ ref' = [ref EXCEPT ![c] = k]
    BY <1>3 DEF Get
  <2>2. call' = [call EXCEPT ![c] = "starting"]
    BY <1>3 DEF Get
  <2>3. Abstract!NoneLeft
    BY <1>0, <1>3, NoLease
  <2>4. leaseOf' = [leaseOf EXCEPT ![k] = "up"]
    BY <2>1 DEF leaseOf, IInv, TypeOK
  <2>5. holderOf' = holderOf
    BY <2>1, <2>2 DEF holderOf, IInv, TypeOK
  <2>6. Abstract!Launch(k)
    BY <1>0, <2>3, <2>4, <2>5 DEF Abstract!Launch
  <2> QED
    BY <2>6 DEF Abstract!Next
<1> QED
  BY <1>1, <1>2, <1>3

(* A call either leaves, begins its operation on a live child, or moves.   *)
LEMMA CallImplements ==
  ASSUME IInv, NEW c \in Callers, CallStep(c)
  PROVE  [Abstract!Next]_Abstract!vars
<1>1. ASSUME Leave(c), UNCHANGED <<child, shutdown>> PROVE [Abstract!Next]_Abstract!vars
  BY <1>1, CallLeaves DEF Abstract!Next
<1>2. CASE Use(c)
  <2>1. leaseOf' = leaseOf /\ (shutdown = "done")' = (shutdown = "done")
    BY <1>2 DEF Use, leaseOf
  <2>2. holderOf' = holderOf
    BY <1>2 DEF Use, holderOf, IInv, TypeOK
  <2> QED
    BY <2>1, <2>2 DEF Abstract!vars
<1>3. CASE Unblock(c)
  BY <1>1, <1>3, GetImplements DEF Unblock
<1>4. CASE Resume(c)
  BY <1>4, GetImplements DEF Resume, IInv, CallInv
<1>5. CASE Started(c)
  <2>1. CASE child[ref[c]] = "failed"
    BY <1>1, <1>5, <2>1 DEF Started
  <2>2. CASE child[ref[c]] = "alive"
    <3>1. ref[c] \in Children /\ call[c] = "starting"
      BY <1>5 DEF Started, IInv, CallInv, TypeOK, MaybeChild
    <3>2. ref' = [ref EXCEPT ![c] = ref[c]]
      BY <1>5, <2>2 DEF Started, IInv, TypeOK
    <3>3. Abstract!Borrow(c, ref[c])
      BY <1>5, <2>2, <3>1, <3>2, CallBorrows DEF Started
    <3> QED
      BY <3>1, <3>3 DEF Abstract!Next
  <2> QED
    BY <1>5, <2>1, <2>2 DEF Started
<1>6. CASE Shared(c)
  <2>1. CASE child[ref[c]] = "failed"
    BY <1>1, <1>6, <2>1 DEF Shared
  <2>2. CASE child[ref[c]] = "alive"
    <3>1. ref[c] \in Children /\ call[c] = "sharing"
      BY <1>6 DEF Shared, IInv, CallInv, TypeOK, MaybeChild
    <3>2. ref' = [ref EXCEPT ![c] = ref[c]]
      BY <1>6, <2>2 DEF Shared, IInv, TypeOK
    <3>3. Abstract!Borrow(c, ref[c])
      BY <1>6, <2>2, <3>1, <3>2, CallBorrows DEF Shared
    <3> QED
      BY <3>1, <3>3 DEF Abstract!Next
  <2> QED
    BY <1>6, <2>1, <2>2 DEF Shared
<1>7. CASE OperationSettles(c)
  BY <1>1, <1>7 DEF OperationSettles
<1> QED
  BY <1>2, <1>3, <1>4, <1>5, <1>6, <1>7 DEF CallStep

(* A close begins only on a child that nobody has borrowed.                *)
LEMMA RetireImplements ==
  ASSUME IInv, NEW k \in Children, child[k] = "alive",
         child' = [child EXCEPT ![k] = "closing"], UNCHANGED <<call, ref>>,
         \A c \in Callers : call[c] # "running",
         (shutdown = "done")' = (shutdown = "done")
  PROVE  Abstract!Retire(k)
<1>1. leaseOf[k] = "up" /\ leaseOf' = [leaseOf EXCEPT ![k] = "retiring"]
  BY DEF leaseOf, IInv, TypeOK
<1>2. Abstract!Unborrowed(k)
  BY UnborrowedIf
<1>3. holderOf' = holderOf
  BY DEF holderOf
<1> QED
  BY <1>1, <1>2, <1>3 DEF Abstract!Retire

(* A close that failed leaves the child retiring; one that succeeded ends it. *)
LEMMA CloseSettlesImplements ==
  ASSUME IInv, NEW k \in Children, child[k] = "closing", UNCHANGED <<call, ref>>,
         \/ /\ child' = [child EXCEPT ![k] = "none"]
            /\ (shutdown = "done")' \in {shutdown = "done", TRUE}
         \/ /\ child' = [child EXCEPT ![k] = "broken"]
            /\ (shutdown = "done")' = (shutdown = "done")
  PROVE  Abstract!Retired(k) \/ UNCHANGED Abstract!vars
<1>1. leaseOf[k] = "retiring"
  BY DEF leaseOf
<1>2. holderOf' = holderOf
  BY DEF holderOf
<1>3. CASE /\ child' = [child EXCEPT ![k] = "none"]
           /\ (shutdown = "done")' \in {shutdown = "done", TRUE}
  <2>1. leaseOf' = [leaseOf EXCEPT ![k] = "none"]
    BY <1>3 DEF leaseOf, IInv, TypeOK
  <2> QED
    BY <1>1, <1>2, <1>3, <2>1 DEF Abstract!Retired
<1>4. CASE /\ child' = [child EXCEPT ![k] = "broken"]
           /\ (shutdown = "done")' = (shutdown = "done")
  <2>1. leaseOf' = leaseOf
    BY <1>4 DEF leaseOf, IInv, TypeOK
  <2> QED
    BY <1>4, <2>1, LeaseSame
<1> QED
  BY <1>3, <1>4

LEMMA StepImplements ==
  ASSUME IInv, IInv', Next
  PROVE  [Abstract!Next]_Abstract!vars
<1>1. ASSUME NEW c \in Callers, CallStep(c) PROVE [Abstract!Next]_Abstract!vars
  BY <1>1, CallImplements
<1>2. ASSUME NEW expected \in MaybeChild, InvalidateIfIdle(expected)
      PROVE  UNCHANGED Abstract!vars
  BY <1>2, LeaseSame DEF InvalidateIfIdle, leaseOf
<1>3. CASE InvalidationCloses
  <2>1. invalidating \in Children /\ child[invalidating] = "alive"
    BY <1>3 DEF InvalidationCloses, IInv, InvalidationInv, TypeOK, MaybeChild
  <2>2. \A c \in Callers : call[c] # "running"
    BY <1>3 DEF InvalidationCloses, IInv, CallInv
  <2>3. Abstract!Retire(invalidating)
    BY <1>3, <2>1, <2>2, RetireImplements DEF InvalidationCloses, fields
  <2> QED
    BY <2>1, <2>3 DEF Abstract!Next
<1>4. CASE InvalidationSettles
  <2>1. invalidating \in Children /\ child[invalidating] = "closing"
    BY <1>4 DEF InvalidationSettles, IInv, InvalidationInv, TypeOK, MaybeChild
  <2>2. Abstract!Retired(invalidating) \/ UNCHANGED Abstract!vars
    BY <1>4, <2>1, CloseSettlesImplements DEF InvalidationSettles
  <2> QED
    BY <2>1, <2>2 DEF Abstract!Next
<1>5. CASE InvalidationEnds
  BY <1>5, LeaseSame DEF InvalidationEnds, locals, leaseOf
<1>6. CASE Close
  BY <1>6, LeaseSame DEF Close, locals, leaseOf
<1>7. CASE Drained
  BY <1>7, LeaseSame DEF Drained, locals, leaseOf
<1>8. CASE TakeChild
  <2>1. \A c \in Callers : call[c] = "idle"
    BY <1>8 DEF TakeChild, IInv, CallInv
  <2>2. CASE harness = NoChild
    <3>1. Abstract!NoneLeft
      BY <1>8, <2>1, <2>2, NoLease DEF TakeChild, IInv, OneStarterInv, ShutdownInv
    <3>2. leaseOf' = leaseOf /\ holderOf' = holderOf /\ (shutdown = "done")' = TRUE
      BY <1>8, <2>2 DEF TakeChild, leaseOf, holderOf
    <3> QED
      BY <3>1, <3>2 DEF Abstract!Next, Abstract!End
  <2>3. CASE harness # NoChild /\ child[harness] = "alive"
    <3>1. harness \in Children
      BY <2>3 DEF IInv, TypeOK, MaybeChild
    <3>2. Abstract!Retire(harness)
      BY <1>8, <2>1, <2>3, <3>1, RetireImplements DEF TakeChild
    <3> QED
      BY <3>1, <3>2 DEF Abstract!Next
  <2>4. CASE harness # NoChild /\ child[harness] = "broken"
    <3>1. leaseOf' = leaseOf
      BY <1>8, <2>4 DEF TakeChild, leaseOf, IInv, TypeOK
    <3>2. UNCHANGED Abstract!vars
      BY <1>8, <2>4, <3>1, LeaseSame DEF TakeChild
    <3> QED
      BY <3>2
  <2> QED
    BY <2>2, <2>3, <2>4 DEF IInv, ChildInv
<1>9. CASE ShutdownSettles
  <2>1. instance \in Children /\ child[instance] = "closing"
    BY <1>9 DEF ShutdownSettles, IInv, ShutdownInv, TypeOK, MaybeChild
  <2>2. Abstract!Retired(instance) \/ UNCHANGED Abstract!vars
    BY <1>9, <2>1, CloseSettlesImplements DEF ShutdownSettles, locals
  <2> QED
    BY <2>1, <2>2 DEF Abstract!Next
<1>10. ASSUME NEW k \in Children, FactorySettles(k) PROVE [Abstract!Next]_Abstract!vars
  <2>1. UNCHANGED <<call, ref, shutdown>> /\ child[k] = "starting" /\ k = starting
        /\ k # NoChild
    BY <1>10, ConstantsAssumption DEF FactorySettles, fields, locals, IInv, ChildInv
  <2>2. CASE child' = [child EXCEPT ![k] = "alive"]
    <3>1. leaseOf' = leaseOf
      BY <2>1, <2>2 DEF leaseOf, IInv, TypeOK
    <3>2. UNCHANGED Abstract!vars
      BY <2>1, <3>1, LeaseSame
    <3> QED
      BY <3>2
  <2>3. CASE child' = [child EXCEPT ![k] = "failed"]
    <3>1. leaseOf[k] = "up" /\ leaseOf' = [leaseOf EXCEPT ![k] = "none"]
      BY <2>1, <2>3 DEF leaseOf, IInv, TypeOK
    <3>2. holderOf' = holderOf
      BY <2>1 DEF holderOf
    <3>3. Abstract!Unborrowed(k)
      BY <2>1, UnborrowedIf DEF IInv, CallInv, FieldsInv
    <3> QED
      BY <2>1, <3>1, <3>2, <3>3 DEF Abstract!Next, Abstract!Abort
  <2> QED
    BY <1>10, <2>2, <2>3 DEF FactorySettles
<1> QED
  BY <1>1, <1>2, <1>3, <1>4, <1>5, <1>6, <1>7, <1>8, <1>9, <1>10 DEF Next

(* The runtime implements the promise SharedChild makes to its callers: for *)
(* any callers, children and interleaving, a child is retired only when no *)
(* call has borrowed it and launched only when the last one is gone.       *)
THEOREM Refinement == Safety => ImplementsSharedChild
<1>1. IInv /\ IInv' /\ [Next]_vars => [Abstract!Next]_Abstract!vars
  <2>1. CASE Next
    BY <2>1, StepImplements
  <2>2. CASE UNCHANGED vars
    BY <2>2 DEF vars, Abstract!vars, leaseOf, holderOf
  <2> QED
    BY <2>1, <2>2
<1> QED
  BY ImplementsInit, <1>1, Invariance, PTL DEF Safety, ImplementsSharedChild, Abstract!Spec

HIDE DEF FirstWait, CountIn, LastOut, InvalidationSettled, IsIdle, CloseQueued,
         AfterFailedClose, MustDrain

--------------------------------------------------------------------------------
(* The turns of a session.                                                 *)
USE DEF LastPromise, Turn, TailAfter, StageAfter, Unfinished, Earlier

LEMMA SessionInitInv == SessionInit => SessionInv
BY JobsAssumption DEF SessionInit, SessionInv, SessionTypeOK, RunsInOrder, TailIsLast, WaitsForTheOneBefore, Ordered

(* A job that may run has no unfinished job before it.                     *)
LEMMA TurnIsEarliest ==
  ASSUME SessionInv, NEW j \in Jobs, stage[j] # "new", Turn(j)
  PROVE  Earlier(j)
<1> USE DEF SessionInv, SessionTypeOK
<1>1. CASE previous[j] = NoJob
  BY <1>1 DEF WaitsForTheOneBefore
<1>2. CASE previous[j] # NoJob
  <2>1. previous[j] \in Jobs /\ stage[previous[j]] = "released"
    BY <1>2
  <2>2. Earlier(previous[j])
    BY <2>1 DEF RunsInOrder
  <2> QED
    BY <1>2, <2>1, <2>2 DEF WaitsForTheOneBefore
<1> QED
  BY <1>1, <1>2

LEMMA RunInv == ASSUME SessionInv, NEW j \in Jobs, NEW s \in Sessions, Run(j, s) PROVE SessionInv'
<1> USE JobsAssumption DEF SessionInv, SessionTypeOK
<1>1. /\ stage[j] = "new" /\ session[j] = s /\ session' = session
      /\ previous' = [previous EXCEPT ![j] = tails[s]] /\ tails' = [tails EXCEPT ![s] = j]
      /\ stage' = [stage EXCEPT ![j] = "queued"] /\ before' = [before EXCEPT ![j] = Unfinished(s)]
  BY DEF Run
<1>2. tails[s] # j
  BY <1>1 DEF TailIsLast
<1>3. SessionTypeOK'
  BY <1>1, <1>2
<1>4. \A k \in Jobs : k # j => j \notin before[k] \/ stage[k] = "new"
  BY <1>1 DEF WaitsForTheOneBefore
<1>5. RunsInOrder'
  BY <1>1, <1>4 DEF RunsInOrder
<1>6. TailIsLast'
  BY <1>1, <1>3 DEF TailIsLast
<1>7. WaitsForTheOneBefore'
  <2> SUFFICES ASSUME NEW m \in Jobs, stage'[m] # "new"
               PROVE  /\ previous'[m] # NoJob => stage'[previous'[m]] # "new" /\ previous'[m] \in before'[m]
                      /\ \A k \in before'[m] :
                           /\ stage'[k] = "released" \/ (previous'[m] # NoJob
                                /\ (k = previous'[m] \/ k \in before'[previous'[m]]))
                           /\ stage'[k] # "new"
    BY DEF WaitsForTheOneBefore
  <2>1. CASE m = j
    <3>1. previous'[m] = tails[s] /\ before'[m] = Unfinished(s)
      BY <1>1, <2>1
    <3>2. tails[s] # NoJob => tails[s] \in Unfinished(s) /\ before'[tails[s]] = before[tails[s]]
      BY <1>1, <1>2 DEF TailIsLast
    <3> QED
      BY <1>1, <3>1, <3>2 DEF TailIsLast
  <2>2. CASE m # j
    <3>1. stage[m] # "new" /\ previous'[m] = previous[m] /\ before'[m] = before[m]
      BY <1>1, <2>2
    <3>2. previous[m] # NoJob => previous[m] # j /\ before'[previous[m]] = before[previous[m]]
      BY <1>1, <3>1 DEF WaitsForTheOneBefore
    <3> QED
      BY <1>1, <3>1, <3>2 DEF WaitsForTheOneBefore
  <2> QED
    BY <2>1, <2>2
<1>8. Ordered'
  BY <1>1 DEF Ordered
<1> QED
  BY <1>3, <1>5, <1>6, <1>7, <1>8

LEMMA BeginTurnInv == ASSUME SessionInv, NEW j \in Jobs, BeginTurn(j) PROVE SessionInv'
<1> USE DEF SessionInv, SessionTypeOK
<1>1. /\ stage[j] = "queued" /\ stage' = [stage EXCEPT ![j] = "running"]
      /\ UNCHANGED <<tails, previous, session, before>>
  BY DEF BeginTurn
<1>2. Earlier(j)
  BY <1>1, TurnIsEarliest DEF BeginTurn
<1>3. SessionTypeOK'
  BY <1>1
<1>4. RunsInOrder'
  BY <1>1, <1>2 DEF RunsInOrder
<1>5. \A s \in Sessions : Unfinished(s)' = Unfinished(s)
  BY <1>1
<1>6. TailIsLast' /\ Ordered'
  BY <1>1, <1>5 DEF TailIsLast, Ordered
<1>7. WaitsForTheOneBefore'
  BY <1>1 DEF WaitsForTheOneBefore
<1> QED
  BY <1>3, <1>4, <1>6, <1>7

LEMMA SettleInv == ASSUME SessionInv, NEW j \in Jobs, NEW s \in Sessions, Settle(j, s) PROVE SessionInv'
<1> USE JobsAssumption DEF SessionInv, SessionTypeOK
<1>1. /\ stage[j] = "running" /\ session[j] = s /\ UNCHANGED <<previous, session, before>>
      /\ stage' = [stage EXCEPT ![j] = "released"]
      /\ tails' = [tails EXCEPT ![s] = IF tails[s] = j THEN NoJob ELSE tails[s]]
  BY DEF Settle
<1>2. SessionTypeOK'
  BY <1>1
<1>3. RunsInOrder'
  BY <1>1 DEF RunsInOrder
<1>4. \A q \in Sessions : Unfinished(q)' = Unfinished(q) \ {j}
  BY <1>1
<1>5. tails[s] = j => Unfinished(s) = {j}
  BY <1>1 DEF RunsInOrder, TailIsLast
<1>6. TailIsLast'
  BY <1>1, <1>4, <1>5 DEF TailIsLast
<1>7. WaitsForTheOneBefore'
  BY <1>1 DEF WaitsForTheOneBefore
<1>8. Ordered'
  BY <1>1, <1>4 DEF Ordered
<1> QED
  BY <1>2, <1>3, <1>6, <1>7, <1>8

--------------------------------------------------------------------------------
(* SessionInv holds in every reachable state.                              *)
THEOREM SessionInvariance == SessionSafety => []SessionInv
<1>1. SessionInv /\ [SessionNext]_sessionVars => SessionInv'
  <2> SUFFICES ASSUME SessionInv, [SessionNext]_sessionVars PROVE SessionInv'
    OBVIOUS
  <2>1. CASE SessionNext
    BY <2>1, RunInv, BeginTurnInv, SettleInv DEF SessionNext
  <2>2. CASE UNCHANGED sessionVars
    BY <2>2 DEF sessionVars, SessionInv, SessionTypeOK, RunsInOrder, TailIsLast, WaitsForTheOneBefore, Ordered
  <2> QED
    BY <2>1, <2>2
<1> QED
  BY <1>1, SessionInitInv, PTL DEF SessionSafety

(* Turns keep the order of their run() calls.                              *)
THEOREM InOrder == SessionSafety => []RunsInOrder
<1>1. SessionInv => RunsInOrder
  BY DEF SessionInv
<1> QED
  BY <1>1, SessionInvariance, PTL

(* Two turns of one session never run at once.                             *)
THEOREM MutualExclusion == SessionSafety => []OneTurnPerSession
<1>1. SessionInv => OneTurnPerSession
  BY DEF SessionInv, SessionTypeOK, OneTurnPerSession, Ordered, RunsInOrder
<1> QED
  BY <1>1, SessionInvariance, PTL

(* The map of tails holds the sessions with an unfinished job and no other, *)
(* and a job waits for nothing but the earlier jobs of its session.        *)
THEOREM TailsAndWaiting == SessionSafety => [](SessionTypeOK /\ SessionsApart)
<1>1. SessionInv => SessionTypeOK /\ TailsOfLiveSessions
  BY DEF SessionInv, SessionTypeOK, TailsOfLiveSessions, TailIsLast
<1>2. SessionInv => SessionsIndependent
  BY DEF SessionInv, SessionTypeOK, SessionsIndependent, WaitsForTheOneBefore
<1> QED
  <2>1. SessionInv => SessionTypeOK /\ SessionsApart
    BY <1>1, <1>2 DEF SessionsApart
  <2> QED
    BY <2>1, SessionInvariance, PTL

(* Turns keep the order of their calls, and sessions are kept apart.       *)
THEOREM Serialized == SessionSafety => []TurnsSerialized
BY InOrder, TailsAndWaiting, PTL DEF TurnsSerialized

HIDE DEF LastPromise, Turn, TailAfter, StageAfter, Unfinished, Earlier

--------------------------------------------------------------------------------
(* The limiter.                                                            *)
USE DEF HasSlot, Queued, SlotsAfterHandOn, MustHandOn

--------------------------------------------------------------------------------
(* The admitted jobs are a finite set, so their number is a number.        *)
LEMMA AdmittedFinite == IsFiniteSet(Admitted) /\ Cardinality(Admitted) \in Nat
<1>1. Admitted \in SUBSET Operations
  BY DEF Admitted
<1> QED
  BY <1>1, FS_Subset, FS_CardinalityType, LimitAssumption

(* One more admitted job is one more in their number.                      *)
LEMMA AdmitOne ==
  ASSUME NEW j \in Operations, j \notin Admitted, Admitted' = Admitted \cup {j}
  PROVE  Cardinality(Admitted') = Cardinality(Admitted) + 1
BY AdmittedFinite, FS_AddElement

(* One admitted job less is one less in their number.                      *)
LEMMA ReleaseOne ==
  ASSUME NEW j \in Operations, j \in Admitted, Admitted' = Admitted \ {j}
  PROVE  /\ Cardinality(Admitted') = Cardinality(Admitted) - 1
         /\ Cardinality(Admitted) > 0
<1>1. Cardinality(Admitted \ {j}) = Cardinality(Admitted) - 1
  BY AdmittedFinite, FS_RemoveElement
<1>2. Admitted # {}
  OBVIOUS
<1> QED
  BY <1>1, <1>2, AdmittedFinite, FS_EmptySet

(* Appending to a concatenation appends to its second part.                *)
LEMMA AppendToConcat ==
  ASSUME NEW p \in Seq(Operations), NEW q \in Seq(Operations), NEW j \in Operations
  PROVE  Append(p \o q, j) = p \o Append(q, j)
<1> DEFINE a == Append(p \o q, j)  b == p \o Append(q, j)
<1>1. a \in Seq(Operations) /\ b \in Seq(Operations) /\ Len(a) = Len(b)
  OBVIOUS
<1>2. \A i \in 1 .. Len(a) : a[i] = b[i]
  OBVIOUS
<1> QED
  BY <1>1, <1>2, SeqEqual

--------------------------------------------------------------------------------
(* Preservation, one lemma per action.                                     *)

LEMMA LimiterInitInv == LimiterInit => LimiterInv
<1> SUFFICES ASSUME LimiterInit PROVE LimiterInv
  OBVIOUS
<1>1. Admitted = {}
  BY DEF LimiterInit, Admitted
<1>2. Cardinality(Admitted) = 0
  BY <1>1, FS_EmptySet
<1> QED
  BY <1>2, LimitAssumption
  DEF LimiterInit, LimiterInv, LimiterTypeOK, SlotsAccounted, NoIdleSlot, FirstComeFirstServed, Holds

LEMMA AcquireInv == ASSUME LimiterInv, NEW j \in Operations, Acquire(j) PROVE LimiterInv'
<1> USE DEF LimiterInv, LimiterTypeOK
<1>1. CASE HasSlot
  <2>1. /\ slots' = slots + 1 /\ ready' = Append(ready, j) /\ waiters' = waiters
        /\ operation' = [operation EXCEPT ![j] = "ready"] /\ arrivals' = Append(arrivals, j)
    BY <1>1 DEF Acquire
  <2>2. waiters = <<>>
    BY <1>1 DEF NoIdleSlot
  <2>3. Admitted' = Admitted \cup {j} /\ j \notin Admitted
    BY <2>1 DEF Admitted, Acquire
  <2>4. SlotsAccounted'
    BY <2>1, <2>3, AdmitOne DEF SlotsAccounted
  <2>5. Holds(ready, "ready")' /\ Holds(waiters, "waiting")'
    BY <2>1, <2>2 DEF Holds, Acquire
  <2>6. FirstComeFirstServed'
    BY <2>1, <2>2 DEF FirstComeFirstServed
  <2>7. LimiterTypeOK' /\ NoIdleSlot' /\ slots' <= Limit
    BY <1>1, <2>1, <2>2, LimitAssumption DEF NoIdleSlot
  <2> QED
    BY <2>4, <2>5, <2>6, <2>7
<1>2. CASE ~HasSlot
  <2>1. /\ slots' = slots /\ ready' = ready /\ waiters' = Append(waiters, j)
        /\ operation' = [operation EXCEPT ![j] = "waiting"] /\ arrivals' = Append(arrivals, j)
    BY <1>2 DEF Acquire
  <2>2. Admitted' = Admitted
    BY <2>1 DEF Admitted, Acquire
  <2>3. SlotsAccounted'
    BY <2>1, <2>2 DEF SlotsAccounted
  <2>4. Holds(ready, "ready")' /\ Holds(waiters, "waiting")'
    BY <2>1 DEF Holds, Acquire
  <2>5. FirstComeFirstServed'
    BY <2>1, AppendToConcat DEF FirstComeFirstServed
  <2>6. LimiterTypeOK' /\ NoIdleSlot' /\ slots' <= Limit
    BY <1>2, <2>1, LimitAssumption DEF NoIdleSlot
  <2> QED
    BY <2>3, <2>4, <2>5, <2>6
<1> QED
  BY <1>1, <1>2

LEMMA BeginInv == ASSUME LimiterInv, Begin PROVE LimiterInv'
<1> USE DEF LimiterInv, LimiterTypeOK
<1>1. /\ ready # <<>> /\ ready' = Tail(ready) /\ arrivals' = Tail(arrivals)
      /\ slots' = slots /\ waiters' = waiters
      /\ operation' = [operation EXCEPT ![ready[1]] = "running"]
  BY DEF Begin
<1>2. ready[1] \in Operations /\ operation[ready[1]] = "ready" /\ Len(ready) \in Nat \ {0}
  BY <1>1 DEF Holds
<1>3. Admitted' = Admitted
  BY <1>1, <1>2 DEF Admitted
<1>4. SlotsAccounted'
  BY <1>1, <1>3 DEF SlotsAccounted
<1>5. Holds(ready, "ready")'
  BY <1>1, <1>2 DEF Holds
<1>6. Holds(waiters, "waiting")'
  BY <1>1, <1>2 DEF Holds
<1>7. FirstComeFirstServed'
  BY <1>1, <1>2 DEF FirstComeFirstServed
<1>8. LimiterTypeOK' /\ NoIdleSlot' /\ slots' <= Limit
  BY <1>1, <1>2 DEF NoIdleSlot, FirstComeFirstServed
<1> QED
  BY <1>4, <1>5, <1>6, <1>7, <1>8

LEMMA ReleaseInv == ASSUME LimiterInv, NEW j \in Operations, Release(j) PROVE LimiterInv'
<1> USE DEF LimiterInv, LimiterTypeOK
<1>0. operation[j] = "running" /\ arrivals' = arrivals
  BY DEF Release
<1>1. CASE MustHandOn
  <2> DEFINE w == waiters[1]
  <2>1. /\ waiters # <<>> /\ ready' = Append(ready, w) /\ waiters' = Tail(waiters) /\ slots' = slots
        /\ operation' = [operation EXCEPT ![j] = "done", ![w] = "ready"]
    BY <1>1 DEF Release
  <2>2. w \in Operations /\ operation[w] = "waiting" /\ Len(waiters) \in Nat \ {0} /\ w # j
    BY <1>0, <2>1 DEF Holds
  <2>3. Cardinality(Admitted') = Cardinality(Admitted)
    <3>1. Admitted' = (Admitted \ {j}) \cup {w} /\ j \in Admitted /\ w \notin Admitted
      BY <1>0, <2>1, <2>2 DEF Admitted
    <3>2. Cardinality(Admitted \ {j}) = Cardinality(Admitted) - 1 /\ IsFiniteSet(Admitted \ {j})
      BY <3>1, AdmittedFinite, FS_RemoveElement
    <3>3. Cardinality((Admitted \ {j}) \cup {w}) = Cardinality(Admitted \ {j}) + 1
      BY <3>1, <3>2, FS_AddElement
    <3> QED
      BY <3>1, <3>2, <3>3, AdmittedFinite
  <2>4. SlotsAccounted'
    BY <2>1, <2>3 DEF SlotsAccounted
  <2>5. Holds(ready, "ready")'
    BY <1>0, <2>1, <2>2 DEF Holds
  <2>6. Holds(waiters, "waiting")'
    BY <1>0, <2>1, <2>2 DEF Holds
  <2>7. FirstComeFirstServed'
    <3>1. ready \in Seq(Operations) /\ waiters \in Seq(Operations)
      OBVIOUS
    <3>2. ready \o waiters = Append(ready, w) \o Tail(waiters)
      <4> HIDE DEF LimiterInv, LimiterTypeOK
      <4> QED  BY <2>1, <2>2, <3>1
    <3> QED  BY <1>0, <2>1, <3>2 DEF FirstComeFirstServed
  <2>8. LimiterTypeOK' /\ NoIdleSlot' /\ slots' <= Limit
    BY <1>0, <2>1, <2>2 DEF NoIdleSlot
  <2> QED
    BY <2>4, <2>5, <2>6, <2>7, <2>8
<1>2. CASE ~MustHandOn
  <2>1. /\ waiters = <<>> /\ ready' = ready /\ waiters' = waiters /\ slots' = slots - 1
        /\ operation' = [operation EXCEPT ![j] = "done"]
    BY <1>2 DEF Release
  <2>2. Admitted' = Admitted \ {j} /\ j \in Admitted
    BY <1>0, <2>1 DEF Admitted
  <2>3. SlotsAccounted' /\ slots > 0
    BY <2>1, <2>2, ReleaseOne DEF SlotsAccounted
  <2>4. Holds(ready, "ready")' /\ Holds(waiters, "waiting")'
    BY <1>0, <2>1 DEF Holds
  <2>5. LimiterTypeOK' /\ NoIdleSlot' /\ slots' <= Limit
    BY <1>0, <2>1, <2>3, LimitAssumption DEF NoIdleSlot
  <2>6. FirstComeFirstServed'
    BY <1>0, <2>1 DEF FirstComeFirstServed
  <2> QED
    BY <2>3, <2>4, <2>5, <2>6
<1> QED
  BY <1>1, <1>2

--------------------------------------------------------------------------------
(* LimiterInv holds in every reachable state.                              *)
THEOREM LimiterInvariance == LimiterSafety => []LimiterInv
<1>1. LimiterInv /\ [LimiterNext]_limiterVars => LimiterInv'
  <2> SUFFICES ASSUME LimiterInv, [LimiterNext]_limiterVars PROVE LimiterInv'
    OBVIOUS
  <2>1. CASE Begin
    BY <2>1, BeginInv
  <2>2. CASE \E j \in Operations : Acquire(j)
    BY <2>2, AcquireInv
  <2>3. CASE \E j \in Operations : Release(j)
    BY <2>3, ReleaseInv
  <2>4. CASE UNCHANGED limiterVars
    BY <2>4 DEF limiterVars, LimiterInv, LimiterTypeOK, SlotsAccounted, NoIdleSlot, FirstComeFirstServed, Holds, Admitted
  <2> QED
    BY <2>1, <2>2, <2>3, <2>4 DEF LimiterNext
<1> QED
  BY <1>1, LimiterInitInv, PTL DEF LimiterSafety

(* Types.                                                                  *)
THEOREM LimiterTypeCorrect == LimiterSafety => []LimiterTypeOK
<1>1. LimiterInv => LimiterTypeOK
  BY DEF LimiterInv
<1> QED
  BY <1>1, LimiterInvariance, PTL

(* No slot is lost or minted, none is idle while somebody waits, and at most *)
(* Limit operations run at once.                                           *)
THEOREM SlotsSafe == LimiterSafety => []SlotsExact
<1>1. LimiterInv => WithinLimit
  <2> SUFFICES ASSUME LimiterInv PROVE WithinLimit
    OBVIOUS
  <2> DEFINE R == {j \in Operations : operation[j] = "running"}
  <2>1. R \in SUBSET Admitted
    BY DEF Admitted
  <2>2. Cardinality(R) \in Nat /\ Cardinality(R) <= Cardinality(Admitted)
    BY <2>1, AdmittedFinite, FS_Subset, FS_CardinalityType
  <2> QED
    BY <2>2, AdmittedFinite, LimitAssumption DEF LimiterInv, SlotsAccounted, WithinLimit
<1>2. LimiterInv => SlotsExact
  BY <1>1 DEF LimiterInv, SlotsExact
<1> QED
  BY <1>2, LimiterInvariance, PTL

(* Operations begin in the order of their calls.                           *)
THEOREM Fair == LimiterSafety => []FirstComeFirstServed
<1>1. LimiterInv => FirstComeFirstServed
  BY DEF LimiterInv
<1> QED
  BY <1>1, LimiterInvariance, PTL

(* The limiter gives out its slots exactly, and in the order of the calls. *)
THEOREM Exact == LimiterSafety => []LimiterExact
BY SlotsSafe, Fair, PTL DEF LimiterExact
================================================================================
