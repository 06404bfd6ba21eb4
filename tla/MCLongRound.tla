---------------------------- MODULE MCLongRound ----------------------------
(***************************************************************************)
(* One plant with the longest bursts the settings allow, and the widths    *)
(* and the sleep period of the real board.                                 *)
(***************************************************************************)
EXTENDS IrrigationLoop

LongBursts ==
  [target |-> 1, maxBursts |-> 255, burstDuration |-> 1, burstDelay |-> 255,
   sensor |-> 0, warn |-> 1, empty |-> 0]

MCConfigs == {LongBursts}

MCDefault ==
  [numPlants |-> 1, conf |-> [i \in Plant |-> LongBursts],
   ticksBetween |-> [i \in Plant |-> 0], skip |-> {}, debug |-> FALSE]

MCSettings == {MCDefault}
============================================================================
