------------------------------- MODULE Widths -------------------------------
(* The integer types of the code, as their numbers of values, so that an     *)
(* instance may use narrower words.                                          *)
EXTENDS Integers

CONSTANTS
  UINT16,   \* 2^16 in the code
  UINT32    \* 2^32 in the code

ASSUME WordAssumption == UINT16 \in Nat \ {0} /\ UINT32 \in Nat \ {0}
=============================================================================
