------------------------------- MODULE EnvMap -------------------------------
(***************************************************************************)
(* What the environment of the shell promises: names with at most one      *)
(* value each, in a store of fixed size.  A value is refused exactly when  *)
(* it does not fit beside the others, and a refused name is left with no   *)
(* value.                                                                  *)
(***************************************************************************)
EXTENDS Integers, Sequences

CONSTANTS
  Names, Values,
  NoValue,    (* not one of them                                          *)
  Capacity    (* what all the entries together may take                     *)

VARIABLES
  val,
  used        (* what they take                                             *)

Cost(n, v) == IF v = NoValue THEN 0 ELSE Len(n) + Len(v) + 3

Others(n) == used - Cost(n, val[n])

Init == val = [n \in Names |-> NoValue] /\ used = 0

Set(n) ==
  /\ val'[n] \in Values
  /\ val' = [val EXCEPT ![n] = val'[n]]
  /\ used' = Others(n) + Cost(n, val'[n]) /\ used' <= Capacity

Refuse(n) ==
  /\ val' = [val EXCEPT ![n] = NoValue] /\ used' = Others(n)
  /\ \E v \in Values : used' + Cost(n, v) > Capacity

Clear == val' = [n \in Names |-> NoValue] /\ used' = 0

Next ==
  /\ << val, used >>' # << val, used >>
  /\ (\E n \in Names : Set(n) \/ Refuse(n)) \/ Clear

MapSpec == Init /\ [][Next]_<< val, used >>
=============================================================================
