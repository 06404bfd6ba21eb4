-------------------------- MODULE MCIrrigationLoop --------------------------
(***************************************************************************)
(* Two plants; the first on sensor 0, the second on either sensor.  A byte *)
(* counts to 3 here, so that the tick counters wrap within a few rounds.   *)
(***************************************************************************)
EXTENDS IrrigationLoop, TLC

Conf(w, b, d, y) ==
  [target |-> 1, maxBursts |-> b, burstDuration |-> d, burstDelay |-> y,
   sensor |-> w, warn |-> 1, empty |-> 0]

MCConfigs ==
  {Conf(0, 1, 1, 3), Conf(0, 2, 2, 0), Conf(1, 2, 1, 1), Conf(0, 2, 0, 1)}

Set(n, c0, c1, t, s, d) ==
  [numPlants |-> n, conf |-> 0 :> c0 @@ 1 :> c1,
   ticksBetween |-> 0 :> t @@ 1 :> 3 - t, skip |-> s, debug |-> d]

MCDefault == Set(1, Conf(0, 1, 1, 3), Conf(0, 1, 1, 3), 0, {0, 1}, TRUE)

MCSettings ==
  {Set(2, Conf(0, 2, 2, 0), Conf(0, 1, 1, 3), 0, {}, FALSE),
   Set(2, Conf(0, 1, 1, 3), Conf(1, 2, 1, 1), 3, {}, FALSE),
   Set(2, Conf(0, 2, 0, 1), Conf(0, 2, 2, 0), 1, {}, FALSE),
   Set(1, Conf(0, 1, 1, 3), Conf(1, 2, 1, 1), 2, {0}, FALSE)}
============================================================================
