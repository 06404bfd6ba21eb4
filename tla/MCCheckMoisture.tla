-------------------------- MODULE MCCheckMoisture --------------------------
(***************************************************************************)
(* Two plants sharing or splitting the two water sensors, three levels:    *)
(* 0 is dry soil and an empty tank, 1 a low tank, 2 a full one.            *)
(***************************************************************************)
EXTENDS CheckMoisture

\* The boundaries: no burst, no cycle, one and several of each, with and
\* without a delay.
MCConfigs ==
  {[target |-> 1, maxBursts |-> b, burstDuration |-> d, burstDelay |-> y,
    sensor |-> w, warn |-> 1, empty |-> 0] :
     b \in {0, 1, 3}, d \in {0, 1, 2}, y \in {0, 2}, w \in {0, 1}}
============================================================================
