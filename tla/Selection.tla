-------------------------------- MODULE Selection -------------------------------
(***************************************************************************)
(* What Array.prototype.filter keeps: the elements of a sequence at some   *)
(* positions, in their order.  The k-th of them is at the position that k  *)
(* of the positions do not exceed.                                         *)
(***************************************************************************)
EXTENDS Naturals, Sequences, FiniteSets

Rank(i, I) == Cardinality({j \in I : j <= i})

Pick(s, I) == [k \in 1 .. Cardinality(I) |-> s[CHOOSE i \in I : Rank(i, I) = k]]
================================================================================
