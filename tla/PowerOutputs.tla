---------------------------- MODULE PowerOutputs ----------------------------
(***************************************************************************)
(* What ShiftReg (src/power_ctrl.cpp) promises its callers: update(v)      *)
(* replaces all outputs by v at one instant, and nothing else changes what *)
(* is latched; enableOutput() and disableOutput() connect and disconnect   *)
(* them.  checkMoisture() and loop() are written against this promise      *)
(* (modules CheckMoisture and IrrigationLoop).                             *)
(***************************************************************************)
CONSTANTS Outputs,  \* the output lines
          NoUpdate  \* no update is under way

VARIABLES latched,  \* the outputs that are high when they are enabled
          enabled,  \* the outputs are connected
          asked     \* the argument of the update under way, or NoUpdate

outputVars == <<latched, enabled, asked>>

\* Whatever the chip holds when power comes.
OutputsInit ==
  latched \in SUBSET Outputs /\ enabled \in BOOLEAN /\ asked = NoUpdate

AskFor(v) ==
  asked = NoUpdate /\ asked' = v /\ UNCHANGED <<latched, enabled>>

TakeEffect ==
  /\ asked # NoUpdate
  /\ latched' = asked /\ asked' = NoUpdate /\ UNCHANGED enabled

Connect(on) ==
  asked = NoUpdate /\ enabled' = on /\ UNCHANGED <<latched, asked>>

OutputsNext ==
  \/ \E v \in SUBSET Outputs : AskFor(v)
  \/ TakeEffect
  \/ \E on \in BOOLEAN : Connect(on)

OutputsSpec == OutputsInit /\ [][OutputsNext]_outputVars
=============================================================================
