------------------------------- MODULE Descent -------------------------------
(***************************************************************************)
(* Lexicographic descent: what is left to do as a tuple of numbers, the    *)
(* most important first.  A tuple of natural numbers goes down only so     *)
(* often, whatever its later numbers do while an earlier one falls.        *)
(***************************************************************************)
EXTENDS Integers, Sequences

LexLess(p, q) ==
  \E i \in DOMAIN q : p[i] < q[i] /\ \A j \in 1..(i - 1) : p[j] = q[j]

(* From q to p, both of natural numbers.                                   *)
GoesDown(p, q) ==
  LexLess(p, q) /\ \A i \in DOMAIN q : p[i] \in Nat /\ q[i] \in Nat
=============================================================================
