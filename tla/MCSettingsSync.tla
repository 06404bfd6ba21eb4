--------------------------- MODULE MCSettingsSync ---------------------------
(***************************************************************************)
(* One board, one server, users who edit up to twice.  The                *)
(* configurations differ in the faults they allow.  Packets in parts       *)
(* multiply the states: they come with few other faults at a time.         *)
(***************************************************************************)
EXTENDS SettingsSync

WholePackets == AllFaults \ {"split"}
BrokenParts  == {"split", "break"}
JoinedParts  == {"split", "coalesce"}

NoneOrAll ==
  [f \in {{}, {"reboot"}, WholePackets, BrokenParts, JoinedParts} |->
     IF f = {} THEN 2 ELSE IF f = BrokenParts THEN 0 ELSE 1]
LatchFaults == [f \in {{"staleEdit"}, {"coalesce"}} |-> 1]
============================================================================
