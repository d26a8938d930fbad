------------------------------ MODULE SharedChild ------------------------------
(***************************************************************************)
(* What the lazy owner of one shared child process promises its callers:   *)
(* a caller borrows a child only while that child is up, a child is        *)
(* retired only when nobody has borrowed it, the next child is launched    *)
(* only when the last one is gone, and once the owner is over no child is  *)
(* left.  HarnessRuntime is shown to implement this specification.         *)
(***************************************************************************)
CONSTANTS Callers, Children, NoChild

VARIABLES
  lease,    (* lease[k]: is child k absent, up, or being retired             *)
  holder,   (* holder[c]: the child caller c has borrowed, or NoChild        *)
  over      (* the owner has reported that it is shut down                   *)

vars == <<lease, holder, over>>

Unborrowed(k) == \A c \in Callers : holder[c] # k

NoneLeft == \A k \in Children : lease[k] = "none"

Init ==
  /\ lease = [k \in Children |-> "none"]
  /\ holder = [c \in Callers |-> NoChild]
  /\ over = FALSE

Launch(k) ==
  /\ ~over
  /\ NoneLeft
  /\ lease' = [lease EXCEPT ![k] = "up"]
  /\ UNCHANGED <<holder, over>>

(* The child never came up: its launcher reported a failure.               *)
Abort(k) ==
  /\ lease[k] = "up"
  /\ Unborrowed(k)
  /\ lease' = [lease EXCEPT ![k] = "none"]
  /\ UNCHANGED <<holder, over>>

Borrow(c, k) ==
  /\ holder[c] = NoChild
  /\ lease[k] = "up"
  /\ holder' = [holder EXCEPT ![c] = k]
  /\ UNCHANGED <<lease, over>>

Return(c) ==
  /\ holder[c] # NoChild
  /\ holder' = [holder EXCEPT ![c] = NoChild]
  /\ UNCHANGED <<lease, over>>

Retire(k) ==
  /\ lease[k] = "up"
  /\ Unborrowed(k)
  /\ lease' = [lease EXCEPT ![k] = "retiring"]
  /\ UNCHANGED <<holder, over>>

(* The retirement of the last child may also be the end of the owner.      *)
Retired(k) ==
  /\ lease[k] = "retiring"
  /\ lease' = [lease EXCEPT ![k] = "none"]
  /\ over' \in {over, TRUE}
  /\ UNCHANGED holder

End ==
  /\ NoneLeft
  /\ over' = TRUE
  /\ UNCHANGED <<lease, holder>>

Next ==
  \/ \E k \in Children : Launch(k) \/ Abort(k) \/ Retire(k) \/ Retired(k)
  \/ \E c \in Callers : Return(c) \/ \E k \in Children : Borrow(c, k)
  \/ End

Spec == Init /\ [][Next]_vars
================================================================================
