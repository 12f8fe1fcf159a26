------------------------------- MODULE Ranks -------------------------------
(***************************************************************************)
(* The members of a set of numbers, counted from the smallest.             *)
(***************************************************************************)
EXTENDS Integers, FiniteSets

Rank(S, e) == Cardinality({ i \in S : i <= e })

Nth(S, k) == CHOOSE e \in S : Rank(S, e) = k
=============================================================================
