---------------------------- MODULE MCKeyboards ----------------------------
(***************************************************************************)
(* Two plants, the second one not in use; the ranges of words, bytes and   *)
(* percentages are scaled down to three different ones, and the larger     *)
(* step leaps over each of them.                                           *)
(***************************************************************************)
EXTENDS Keyboards

SmallStepSet == {1}
StepSet == {1, 4}
OnePlant ==
  {[val |-> [f \in Field |-> 0], numPlants |-> 1, skip |-> {}, useW2 |-> {1},
    fail |-> TRUE, debug |-> FALSE]}
Refusals == {"refused"}
Changes == [f \in {AllFaults, Refusals} |-> IF f = Refusals THEN 2 ELSE 1]
============================================================================
