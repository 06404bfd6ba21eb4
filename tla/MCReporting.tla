---------------------------- MODULE MCReporting ----------------------------
(***************************************************************************)
(* One chat that is known from the start, one that may join, one without   *)
(* permission; three plants with bitmaps of two bits to the byte.          *)
(***************************************************************************)
EXTENDS Reporting, TLC

NumberSet == {"numbers"}
BoardSet ==
  [numbers |-> "numbers", moistSensToWaterSensBitmap |-> (0 :> {} @@ 1 :> {0}),
   skipBitmap |-> (0 :> {1} @@ 1 :> {}), hardwareFailure |-> FALSE,
   debug |-> FALSE]
FileSet ==
  {Config({1}, TRUE, OldNode), Config({}, TRUE, NoNode),
   Config({1}, TRUE, NodeOf(BoardSet))}
============================================================================
