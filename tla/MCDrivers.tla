------------------------------ MODULE MCDrivers ------------------------------
(***************************************************************************)
(* Sleeps at their real widths, a register of four outputs, a converter of *)
(* five values.                                                            *)
(***************************************************************************)
EXTENDS Drivers, TLC

WordSet == {{}, {0, 1}, {0, 3}}
\* Below, at and above a period, the longest delay of a burst, and the long
\* sleep of a round.
DurationSet == {0, 7, 8, 9, 255, 21600}
ByteSet == {0, 101, 255}

\* Sorted() against the sort of the TLC module, for all short arrays.
ASSUME SortedSorts ==
  \A n \in 1 .. 4 : \A s \in [1 .. n -> 0 .. 3] :
    Sorted(s) = SortSeq(s, LAMBDA a, b : a < b)
==============================================================================
