--------------------------- MODULE ShiftRegister ---------------------------
(***************************************************************************)
(* ShiftReg (src/power_ctrl.cpp): the outputs of the board are those of a  *)
(* serial shift register with an output latch.  A step is one rising edge  *)
(* of the clock or of the latch, or a change of the enable pin: between    *)
(* two of them no output can change.  A word is the set of its high bits;  *)
(* bit 0 is shifted in first and travels to the far end.                   *)
(***************************************************************************)
EXTENDS Naturals

CONSTANTS Width,    \* 16
          Words     \* the words callers pass to update()

Bits == 0 .. Width - 1

ASSUME ShiftAssumption ==
  /\ Width \in Nat \ {0} /\ {} \in Words /\ Words \subseteq SUBSET Bits

\* Not a word: a bit that the register does not have.
NoUpdate == {Width}

VARIABLES
  stage,    \* of the constructor: "reset", "pinMode", "init", then "ready"
  chain,    \* the bits in the shift register
  latched,  \* the bits in the output latch
  enabled,  \* the enable pin is low
  newValue, \* the argument of update() while it runs, or NoUpdate
  bit       \* update()'s loop counter

shiftVars == <<stage, chain, latched, enabled, newValue, bit>>

ShiftIdle == stage = "ready" /\ newValue = NoUpdate

\* What the board supplies with power.
Supplied == IF enabled THEN latched ELSE {}

----------------------------------------------------------------------------
\* pinMode(OUTPUT) drives the pin low, since its port was reset to low.
PinModeEnable ==
  /\ stage = "reset" /\ stage' = "pinMode" /\ enabled' = TRUE
  /\ UNCHANGED <<chain, latched, newValue, bit>>

InitDisable ==
  /\ stage = "pinMode" /\ stage' = "init" /\ enabled' = FALSE
  /\ UNCHANGED <<chain, latched, newValue, bit>>

\* Mutant: the constructor does not clear the outputs.
InitUpdateNot ==
  /\ stage = "init" /\ stage' = "ready"
  /\ UNCHANGED <<chain, latched, enabled, newValue, bit>>

\* The constructor's update(0), after init().
InitUpdate ==
  /\ stage = "init" /\ stage' = "ready"
  /\ newValue' = {} /\ bit' = 0
  /\ UNCHANGED <<chain, latched, enabled>>

BeginUpdate(v) ==
  /\ ShiftIdle
  /\ newValue' = v /\ bit' = 0
  /\ UNCHANGED <<stage, chain, latched, enabled>>

\* Mutant: the most significant bit first.
ShiftedMsbFirst(word, b, v) ==
  {i \in Bits : IF i = Width - 1 THEN Width - 1 - b \in v ELSE i + 1 \in word}

\* Bit b of v enters at the top, the others move down by one.
Shifted(word, b, v) ==
  {i \in Bits : IF i = Width - 1 THEN b \in v ELSE i + 1 \in word}

\* A bit on the data line and a clock edge.
ShiftBit ==
  /\ newValue # NoUpdate /\ bit < Width
  /\ chain' = Shifted(chain, bit, newValue) /\ bit' = bit + 1
  /\ UNCHANGED <<stage, latched, enabled, newValue>>

\* An edge of the latch; update() returns.
Latch ==
  /\ newValue # NoUpdate /\ bit = Width
  /\ latched' = chain /\ newValue' = NoUpdate /\ bit' = 0
  /\ UNCHANGED <<stage, chain, enabled>>

EnableOutput ==
  ShiftIdle /\ enabled' = TRUE
  /\ UNCHANGED <<stage, chain, latched, newValue, bit>>

DisableOutput ==
  ShiftIdle /\ enabled' = FALSE
  /\ UNCHANGED <<stage, chain, latched, newValue, bit>>

----------------------------------------------------------------------------
\* Power comes: the chips hold anything, the pins float.
ShiftInit ==
  /\ stage = "reset" /\ newValue = NoUpdate /\ bit = 0
  /\ chain \in SUBSET Bits /\ latched \in SUBSET Bits /\ enabled \in BOOLEAN

ShiftStart ==
  \/ \E v \in Words : BeginUpdate(v)
  \/ EnableOutput \/ DisableOutput

ShiftStep == PinModeEnable \/ InitDisable \/ InitUpdate \/ ShiftBit \/ Latch

ShiftNext == ShiftStart \/ ShiftStep

ShiftSpec == ShiftInit /\ [][ShiftNext]_shiftVars

----------------------------------------------------------------------------
ShiftTypeOK ==
  /\ stage \in {"reset", "pinMode", "init", "ready"}
  /\ chain \subseteq Bits /\ latched \subseteq Bits /\ enabled \in BOOLEAN
  /\ newValue \in Words \cup {NoUpdate} /\ bit \in 0 .. Width

(***************************************************************************)
(* The shift register keeps the promise of PowerOutputs: while bits travel *)
(* through it the outputs stay, and then they are exactly those asked for. *)
(***************************************************************************)
Outputs == INSTANCE PowerOutputs WITH Outputs <- Bits, asked <- newValue
AtomicOutputs == Outputs!OutputsSpec

(***************************************************************************)
(* What the chip happened to hold when power came never reaches the pumps  *)
(* once the constructor has returned: from then on only words that were    *)
(* passed to update() are supplied.                                        *)
(***************************************************************************)
NoPowerOnGarbage ==
  /\ ShiftTypeOK
  /\ ShiftIdle => Supplied \in Words
============================================================================
