----------------------------- MODULE ConfigFile -----------------------------
(***************************************************************************)
(* The configuration file of the server (main.cpp of the server): what is  *)
(* written at an orderly end and read at the start.  Number fields are     *)
(* written as numbers and read back as they are (a byte passes through an  *)
(* uint16_t, or it would be taken for a character), so that they are one   *)
(* opaque value here; the two bitmaps are written as a list of booleans.   *)
(***************************************************************************)
EXTENDS Integers, FiniteSetsExt

CONSTANTS MaxPlants,    \* MAX_MOISTURE_SENSOR_COUNT: 6
          BitsPerByte,  \* 8
          Numbers       \* what the number fields may be

ASSUME ConfigAssumption == MaxPlants \in Nat \ {0} /\ BitsPerByte \in Nat \ {0}

Plants == 0 .. MaxPlants - 1

\* ceil(MaxPlants / 8) bytes, each the set of its bits that are one; the
\* bits beyond the last plant are never set.
Bytes == 0 .. (MaxPlants + BitsPerByte - 1) \div BitsPerByte - 1
Bits  == 0 .. BitsPerByte - 1
Bitmaps ==
  {bitmap \in [Bytes -> SUBSET Bits] :
     \A b \in Bytes : \A k \in bitmap[b] : b * BitsPerByte + k \in Plants}

Settings == [numbers : Numbers, moistSensToWaterSensBitmap : Bitmaps,
             skipBitmap : Bitmaps, hardwareFailure : BOOLEAN, debug : BOOLEAN]

IsSet(bitmap, i) == i % BitsPerByte \in bitmap[i \div BitsPerByte]

\* The bytes start at zero and get the bits of the list one by one.
Packed(list) ==
  [b \in Bytes |->
     {i % BitsPerByte :
        i \in {j \in Plants : j \div BitsPerByte = b /\ list[j]}}]

Encode(s) ==
  [s EXCEPT
     !.moistSensToWaterSensBitmap = [i \in Plants |-> IsSet(@, i)],
     !.skipBitmap = [i \in Plants |-> IsSet(@, i)]]

Decode(node) ==
  [node EXCEPT !.moistSensToWaterSensBitmap = Packed(@),
               !.skipBitmap = Packed(@)]

\* A file without settings, or with those of another version.
NoNode == [version |-> "none"]
OldNode == [version |-> "old"]
NodeOf(s) == [version |-> "current", settings |-> Encode(s)]

\* readSettings(): whether they are valid, and what they are then.
IsReadable(node) == node.version = "current"
=============================================================================
