------------------------------ MODULE Checksum ------------------------------
(***************************************************************************)
(* calculate_checksum of protocol.h, loop by loop: the bytes of a packet   *)
(* are added, the sum is folded until it fits 16 bits, and complemented.   *)
(* total is what the bytes add up to; the order of the bytes plays no part *)
(* in it, which is all the checksum can and cannot see.                    *)
(***************************************************************************)
EXTENDS Integers, Widths

CONSTANTS
  ByteMax,   \* the largest byte: 255
  MaxTotal   \* bytes of the longest packet, times ByteMax

\* A packet (16 + 1024 bytes) is too short for the 32-bit sum to overflow.
ASSUME ChecksumAssumption ==
  /\ ByteMax \in Nat \ {0}
  /\ 2 * ByteMax < UINT16
  /\ MaxTotal \in Nat /\ MaxTotal + ByteMax < UINT16 * (UINT16 - 1)

VARIABLES
  step,   \* "adding", "folding" or "done"
  total,  \* the sum of the bytes seen
  sum     \* the variable of that name

sumVars == <<step, total, sum>>

\* Mutant: the carry is dropped.
fold_truncated(s) == s % UINT16

\* One iteration of the folding loop.
fold(s) == (s % UINT16) + (s \div UINT16)

SumInit == step = "adding" /\ total = 0 /\ sum = 0

AddByte ==
  /\ step = "adding"
  /\ \E byte \in 0 .. ByteMax :
       /\ total + byte <= MaxTotal
       /\ total' = total + byte
       /\ sum' = sum + byte
  /\ UNCHANGED step

EndOfPacket == step = "adding" /\ step' = "folding" /\ UNCHANGED <<total, sum>>

Fold ==
  /\ step = "folding"
  /\ IF sum >= UINT16
     THEN sum' = fold(sum) /\ UNCHANGED step
     ELSE step' = "done" /\ UNCHANGED sum
  /\ UNCHANGED total

SumNext == AddByte \/ EndOfPacket \/ Fold

SumSpec == SumInit /\ [][SumNext]_sumVars

-----------------------------------------------------------------------------
\* Two iterations are enough for every packet.
folded(s) ==
  IF s < UINT16 THEN s
  ELSE IF fold(s) < UINT16 THEN fold(s)
  ELSE fold(fold(s))

\* Mutant: the result is cut to the width of a byte.
calculate_checksum_narrow(s) == (UINT16 - 1 - folded(s)) % (ByteMax + 1)

\* The complement of the folded sum, in 16 bits.
calculate_checksum(s) == UINT16 - 1 - folded(s)

\* What the folding loop computes is the total modulo 2^16 - 1, where a
\* total other than 0 is represented by 1 .. 2^16 - 1; no carry is lost.
FoldExact ==
  step = "done" =>
    /\ sum = folded(total)
    /\ sum = IF total = 0 THEN 0 ELSE 1 + ((total - 1) % (UINT16 - 1))

\* verify_checksum sees every change of a single byte: the checksum of a packet
\* differs from that of a packet whose bytes add up to at most ByteMax more.
SingleByteSeen ==
  \A d \in 1 .. ByteMax :
    calculate_checksum(total + d) # calculate_checksum(total)
=============================================================================
