------------------------------ MODULE Sorting ------------------------------
(***************************************************************************)
(* What Python's sorted gives for distinct elements: the list of them in   *)
(* which each stands behind those that come before it.  SetToSortSeq of    *)
(* the library gives the same; the provers cannot expand what it is        *)
(* defined by.                                                             *)
(***************************************************************************)
EXTENDS Naturals, FiniteSets

Ahead(x, S, R) == {y \in S : <<y, x>> \in R}

(* By a relation, and by an operator. *)
Arranged(S, R) ==
  [i \in 1 .. Cardinality(S) |->
     CHOOSE x \in S : Cardinality(Ahead(x, S, R)) = i - 1]

Sorted(S, Less(_, _)) == Arranged(S, {p \in S \X S : Less(p[1], p[2])})
=============================================================================
