---------------------------- MODULE WidthsProofs ----------------------------
(***************************************************************************)
(* The calculations of the program, for every width of a word, size of a   *)
(* chunk, number of files and setting of the clock: the checksum, the      *)
(* chunks of a file, the length of a file list, and the retransmission     *)
(* timer.                                                                  *)
(***************************************************************************)
EXTENDS Checksum, FileBytes, FileList, RetransmitTimer, TLAPS

-----------------------------------------------------------------------------
(* Division *)

\* Division with remainder, as the folding loop uses it (a >> 16, a & 0xFFFF).
LEMMA DivMod ==
  ASSUME NEW a \in Nat, NEW m \in Nat \ {0}
  PROVE  /\ a \div m \in Nat
         /\ a % m \in 0 .. m - 1
         /\ a = m * (a \div m) + (a % m)
OBVIOUS

\* Quotient and remainder are determined by the equation.
LEMMA DivModUnique ==
  ASSUME NEW m \in Nat \ {0}, NEW q \in Int, NEW r \in 0 .. m - 1,
         NEW p \in Int, NEW s \in 0 .. m - 1,
         m * q + r = m * p + s
  PROVE  q = p /\ r = s
OBVIOUS

\* A remainder is recognised by any representation with a small rest.
LEMMA ModOf ==
  ASSUME NEW m \in Nat \ {0}, NEW a \in Nat, NEW q \in Int, NEW r \in 0 .. m - 1,
         a = m * q + r
  PROVE  a % m = r
<1>1. PICK p \in Nat, s \in 0 .. m - 1 : a = m * p + s /\ s = a % m
  BY DivMod
<1>2. p \in Int /\ m * q + r = m * p + s
  BY <1>1
<1>3. r = s
  BY <1>2, DivModUnique, Zenon
<1>4. QED
  BY <1>1, <1>3

\* Numbers that differ by less than m have different remainders modulo m.
LEMMA ModShift ==
  ASSUME NEW m \in Nat \ {0}, NEW a \in Nat, NEW d \in 1 .. m - 1
  PROVE  a % m # (a + d) % m
<1>1. PICK q \in Nat, r \in 0 .. m - 1 : a = m * q + r /\ r = a % m
  BY DivMod
<1>2. CASE r + d < m
  <2>1. r + d \in 0 .. m - 1 /\ a + d = m * q + (r + d)
    BY <1>1, <1>2
  <2>2. (a + d) % m = r + d
    <3>1. a + d \in Nat /\ q \in Int
      OBVIOUS
    <3>2. QED
      BY <2>1, <3>1, ModOf, Zenon
  <2>3. QED
    BY <2>2, <1>1
<1>3. CASE r + d >= m
  <2>1. r + d - m \in 0 .. m - 1 /\ a + d = m * (q + 1) + (r + d - m)
    BY <1>1, <1>3
  <2>2. (a + d) % m = r + d - m
    <3>1. a + d \in Nat /\ q + 1 \in Int
      OBVIOUS
    <3>2. QED
      BY <2>1, <3>1, ModOf, Zenon
  <2>3. QED
    BY <2>2, <1>1
<1>4. QED
  BY <1>1, <1>2, <1>3

\* A number below the modulus is its own remainder.
LEMMA SmallMod ==
  ASSUME NEW m \in Nat \ {0}, NEW a \in 0 .. m - 1
  PROVE  a % m = a
OBVIOUS

-----------------------------------------------------------------------------
(* What calculate_checksum computes, and what it detects *)

-----------------------------------------------------------------------------
\* The value the folding loop is meant to compute.
Residue(s) == IF s = 0 THEN 0 ELSE 1 + ((s - 1) % (UINT16 - 1))

\* No sum of a packet, nor one byte more, needs a third iteration.
Sums == {s \in Nat : s < UINT16 * (UINT16 - 1)}

LEMMA SumWidths ==
  /\ UINT16 \in Nat /\ UINT16 >= 3 /\ UINT16 - 1 \in Nat \ {0}
  /\ UINT16 \in Nat \ {0}
  /\ ByteMax \in Nat /\ ByteMax < UINT16 - 1
BY ChecksumAssumption, WordAssumption

\* The value of a sum whose rest modulo UINT16 - 1 is known.
LEMMA ResidueOf ==
  ASSUME NEW s \in Nat \ {0}, NEW q \in Nat, NEW t \in 1 .. UINT16 - 1,
         s = (UINT16 - 1) * q + t
  PROVE  Residue(s) = t
<1> DEFINE m == UINT16 - 1
<1>1. m \in Nat \ {0}
  BY SumWidths
<1>2. s - 1 \in Nat /\ q \in Int /\ t - 1 \in 0 .. m - 1
  BY SumWidths
<1>3. s = m * q + t
  OBVIOUS
<1> HIDE DEF m
<1>4. s - 1 = m * q + (t - 1)
  <2>1. m * q \in Nat
    BY <1>1
  <2>2. QED
    BY <2>1, <1>3
<1>5. (s - 1) % m = t - 1
  BY <1>1, <1>2, <1>4, ModOf, Zenon
<1>6. QED
  BY <1>5, SumWidths DEF Residue, m

\* One iteration keeps the residue and, for the sums of packets, leaves at most
\* one carry.
LEMMA FoldOnce ==
  ASSUME NEW s \in Sums, s >= UINT16
  PROVE  /\ fold(s) \in 1 .. 2 * UINT16 - 3
         /\ \E q \in Nat : s = (UINT16 - 1) * q + fold(s)
<1>1. PICK q \in Nat, r \in 0 .. UINT16 - 1 :
         s = UINT16 * q + r /\ q = s \div UINT16 /\ r = s % UINT16
  BY DivMod, SumWidths DEF Sums
<1>2. fold(s) = q + r
  BY <1>1 DEF fold
<1>3. q >= 1
  BY <1>1, SumWidths
<1>4. q <= UINT16 - 2
  <2> SUFFICES ASSUME q >= UINT16 - 1 PROVE FALSE
    BY SumWidths
  <2>1. UINT16 * q >= UINT16 * (UINT16 - 1)
    BY SumWidths
  <2>2. QED
    BY <2>1, <1>1, SumWidths DEF Sums
<1>5. s = (UINT16 - 1) * q + (q + r)
  <2>1. UINT16 * q = (UINT16 - 1) * q + q
    BY SumWidths
  <2>2. (UINT16 - 1) * q \in Nat
    BY SumWidths
  <2>3. QED
    BY <1>1, <2>1, <2>2
<1>6. QED
  BY <1>2, <1>3, <1>4, <1>5, SumWidths

\* Folding a sum with one carry.
LEMMA FoldTwice ==
  ASSUME NEW t \in UINT16 .. 2 * UINT16 - 3
  PROVE  fold(t) = t - UINT16 + 1
<1>1. PICK q \in Nat, r \in 0 .. UINT16 - 1 :
         t = UINT16 * q + r /\ q = t \div UINT16 /\ r = t % UINT16
  BY DivMod, SumWidths
<1>2. q # 0
  BY <1>1, SumWidths
<1>3. q < 2
  <2> SUFFICES ASSUME q >= 2 PROVE FALSE
    OBVIOUS
  <2>1. UINT16 * q >= UINT16 * 2
    BY SumWidths
  <2>2. QED
    BY <2>1, <1>1, SumWidths
<1>4. q = 1
  BY <1>2, <1>3
<1>5. r = t - UINT16
  BY <1>1, <1>4, SumWidths
<1>6. fold(t) = q + r
  BY <1>1 DEF fold
<1>7. QED
  BY <1>4, <1>5, <1>6, SumWidths

\* Two iterations compute the residue.
LEMMA FoldedIsResidue ==
  ASSUME NEW s \in Sums
  PROVE  folded(s) = Residue(s) /\ folded(s) \in 0 .. UINT16 - 1
<1>1. CASE s = 0
  BY <1>1, SumWidths DEF folded, Residue
<1>2. CASE s # 0 /\ s < UINT16
  <2>1. s \in Nat \ {0} /\ s \in 1 .. UINT16 - 1 /\ 0 \in Nat
    BY <1>2, SumWidths DEF Sums
  <2>2. s = (UINT16 - 1) * 0 + s
    BY <2>1, SumWidths
  <2>3. Residue(s) = s
    BY <2>1, <2>2, ResidueOf, Zenon
  <2>4. QED
    BY <1>2, <2>1, <2>3 DEF folded
<1>3. CASE s >= UINT16
  <2>1. PICK q \in Nat : s = (UINT16 - 1) * q + fold(s)
    BY <1>3, FoldOnce
  <2>2. fold(s) \in 1 .. 2 * UINT16 - 3
    BY <1>3, FoldOnce
  <2>3. s \in Nat \ {0}
    BY <1>3, SumWidths DEF Sums
  <2>4. CASE fold(s) < UINT16
    <3>1. fold(s) \in 1 .. UINT16 - 1
      BY <2>2, <2>4, SumWidths
    <3>2. Residue(s) = fold(s)
      BY <2>1, <2>3, <3>1, ResidueOf, Zenon
    <3>3. folded(s) = fold(s)
      BY <1>3, <2>4, <2>3, SumWidths DEF folded
    <3>4. QED
      BY <3>1, <3>2, <3>3, SumWidths
  <2>5. CASE fold(s) >= UINT16
    <3> DEFINE t == fold(s)
               u == fold(s) - UINT16 + 1
    <3>1. t \in UINT16 .. 2 * UINT16 - 3
      BY <2>2, <2>5, SumWidths
    <3>2. fold(t) = u
      BY <3>1, FoldTwice, Zenon
    <3>3. u \in 1 .. UINT16 - 1 /\ q + 1 \in Nat
      BY <3>1, SumWidths
    <3>4. s = (UINT16 - 1) * (q + 1) + u
      <4> HIDE DEF fold
      <4>1. (UINT16 - 1) * (q + 1) = (UINT16 - 1) * q + (UINT16 - 1)
        BY SumWidths
      <4>2. (UINT16 - 1) * q \in Nat
        BY SumWidths
      <4>3. QED
        BY <2>1, <2>2, <4>1, <4>2, SumWidths
    <3>5. Residue(s) = u
      BY <2>3, <3>3, <3>4, ResidueOf, Zenon
    <3>6. folded(s) = fold(fold(s))
      BY <1>3, <2>5, <2>2, <2>3, SumWidths DEF folded
    <3>7. QED
      BY <3>2, <3>3, <3>5, <3>6, SumWidths
  <2>6. QED
    BY <2>2, <2>4, <2>5, SumWidths
<1>4. QED
  BY <1>1, <1>2, <1>3, SumWidths DEF Sums

\* Sums that differ by one byte have different residues.
LEMMA ResidueShift ==
  ASSUME NEW s \in Nat, NEW d \in 1 .. ByteMax
  PROVE  Residue(s + d) # Residue(s)
<1> DEFINE m == UINT16 - 1
<1>1. m \in Nat \ {0} /\ d \in 1 .. m - 1 /\ s + d # 0 /\ s + d \in Nat
  BY SumWidths
<1> HIDE DEF m
<1>2. (s + d - 1) % m \in Nat
  <2>1. s + d - 1 \in Nat
    OBVIOUS
  <2>2. QED
    BY <1>1, <2>1, DivMod
<1>3. CASE s = 0
  BY <1>1, <1>2, <1>3 DEF Residue, m
<1>4. CASE s # 0
  <2>1. s - 1 \in Nat /\ (s - 1) + d = s + d - 1
    BY <1>4
  <2>2. (s - 1) % m # ((s - 1) + d) % m
    BY <1>1, <2>1, ModShift, Zenon
  <2>3. (s - 1) % m \in Nat
    BY <1>1, <2>1, DivMod
  <2>4. QED
    BY <1>1, <1>2, <1>4, <2>1, <2>2, <2>3 DEF Residue, m
<1>5. QED
  BY <1>3, <1>4

-----------------------------------------------------------------------------
\* The checksums of two packets that differ in one byte differ, as do the sums.
LEMMA ChecksumShift ==
  ASSUME NEW s \in 0 .. MaxTotal, NEW d \in 1 .. ByteMax
  PROVE  calculate_checksum(s + d) # calculate_checksum(s)
<1>1. s \in Sums /\ s + d \in Sums
  BY ChecksumAssumption, WordAssumption DEF Sums
<1>2. folded(s) = Residue(s) /\ folded(s) \in 0 .. UINT16 - 1
  BY <1>1, FoldedIsResidue
<1>3. folded(s + d) = Residue(s + d) /\ folded(s + d) \in 0 .. UINT16 - 1
  BY <1>1, FoldedIsResidue
<1>4. Residue(s + d) # Residue(s)
  BY ResidueShift
<1>5. QED
  BY <1>2, <1>3, <1>4, SumWidths DEF calculate_checksum

\* Where the loops of calculate_checksum are.
SumInv ==
  /\ step \in {"adding", "folding", "done"}
  /\ total \in 0 .. MaxTotal
  /\ sum \in Nat
  /\ step = "adding" => sum = total
  /\ step = "folding" =>
       \/ sum = total
       \/ total >= UINT16 /\ sum = fold(total)
       \/ total >= UINT16 /\ fold(total) >= UINT16 /\ sum = fold(fold(total))
  /\ step = "done" => sum = folded(total)

LEMMA SumInductive == SumSpec => []SumInv
<1>1. SumInit => SumInv
  BY ChecksumAssumption, WordAssumption DEF SumInit, SumInv
<1>2. SumInv /\ [SumNext]_sumVars => SumInv'
  <2> SUFFICES ASSUME SumInv, [SumNext]_sumVars PROVE SumInv'
    OBVIOUS
  <2>1. total \in Sums
    BY ChecksumAssumption, WordAssumption DEF SumInv, Sums
  <2>2. CASE AddByte
    BY <2>2, ChecksumAssumption, WordAssumption DEF AddByte, SumInv
  <2>3. CASE EndOfPacket
    BY <2>3 DEF EndOfPacket, SumInv
  <2>4. CASE Fold
    <3>1. total >= UINT16 => fold(total) \in 1 .. 2 * UINT16 - 3
      BY <2>1, FoldOnce
    <3>2. total >= UINT16 /\ fold(total) >= UINT16
            => /\ fold(fold(total)) \in Nat
               /\ fold(fold(total)) < UINT16
      <4> SUFFICES ASSUME total >= UINT16, fold(total) >= UINT16
                   PROVE  fold(fold(total)) \in Nat /\ fold(fold(total)) < UINT16
        OBVIOUS
      <4>1. fold(total) \in UINT16 .. 2 * UINT16 - 3
        BY <3>1, SumWidths
      <4>2. fold(fold(total)) = fold(total) - UINT16 + 1
        BY <4>1, FoldTwice, Zenon
      <4>3. QED
        BY <4>1, <4>2, SumWidths
    <3>3. CASE sum >= UINT16
      BY <2>4, <3>1, <3>2, <3>3, SumWidths DEF Fold, SumInv
    <3>4. CASE ~(sum >= UINT16)
      BY <2>4, <3>1, <3>2, <3>4, SumWidths DEF Fold, SumInv, folded
    <3>5. QED
      BY <3>3, <3>4
  <2>5. CASE UNCHANGED sumVars
    BY <2>5 DEF sumVars, SumInv
  <2>6. QED
    BY <2>2, <2>3, <2>4, <2>5 DEF SumNext
<1>3. QED
  BY <1>1, <1>2, PTL DEF SumSpec

\* For every packet and every width the folding loop computes the total modulo
\* 2^16 - 1.
THEOREM FoldIsExact == SumSpec => []FoldExact
<1>1. SumInv => FoldExact
  <2> SUFFICES ASSUME SumInv, step = "done" PROVE sum = folded(total) /\ sum = Residue(total)
    BY DEF FoldExact, Residue
  <2>1. total \in Sums
    BY ChecksumAssumption, WordAssumption DEF SumInv, Sums
  <2>2. QED
    BY <2>1, FoldedIsResidue DEF SumInv
<1>2. QED
  BY <1>1, SumInductive, PTL

\* verify_checksum sees the change of any one byte of any packet.
THEOREM EverySingleByteSeen == SumSpec => []SingleByteSeen
<1>1. SumInv => SingleByteSeen
  BY ChecksumShift DEF SumInv, SingleByteSeen
<1>2. QED
  BY <1>1, SumInductive, PTL

-----------------------------------------------------------------------------
(* The chunks of a file *)

LEMMA Sizes ==
  ASSUME NEW size \in 0 .. MaxSize, Fits(size)
  PROVE  /\ CHUNK_SIZE \in Nat \ {0} /\ UINT16 \in Nat \ {0} /\ UINT32 \in Nat \ {0}
         /\ CHUNK_SIZE < UINT16
         /\ size \in Nat /\ size + CHUNK_SIZE - 1 \in 0 .. UINT32 - 1
BY WidthAssumption, WordAssumption DEF Fits

\* Both ends round the size up to the same number of chunks.
LEMMA NumChunks ==
  ASSUME NEW size \in 0 .. MaxSize, Fits(size)
  PROVE  /\ sender_num_chunks(size) \in Nat
         /\ start_num_chunks(size) = sender_num_chunks(size)
         /\ \E r \in 0 .. CHUNK_SIZE - 1 :
              size + CHUNK_SIZE - 1 = CHUNK_SIZE * sender_num_chunks(size) + r
<1> DEFINE a == size + CHUNK_SIZE - 1
<1>1. a \in 0 .. UINT32 - 1 /\ UINT32 \in Nat \ {0} /\ CHUNK_SIZE \in Nat \ {0}
  BY Sizes
<1> HIDE DEF a
<1>2. a % UINT32 = a
  BY <1>1, SmallMod
<1>3. sender_num_chunks(size) = a \div CHUNK_SIZE /\ start_num_chunks(size) = a \div CHUNK_SIZE
  BY <1>2 DEF sender_num_chunks, start_num_chunks, a
<1>4. a \in Nat
  BY <1>1
<1>5. /\ a \div CHUNK_SIZE \in Nat
      /\ a % CHUNK_SIZE \in 0 .. CHUNK_SIZE - 1
      /\ a = CHUNK_SIZE * (a \div CHUNK_SIZE) + (a % CHUNK_SIZE)
  BY <1>1, <1>4
<1>6. QED
  BY <1>3, <1>5 DEF a

\* The place and the length of a chunk.
LEMMA ChunkPlace ==
  ASSUME NEW size \in 0 .. MaxSize, Fits(size),
         NEW n \in Nat, n < sender_num_chunks(size)
  PROVE  /\ n * CHUNK_SIZE \in Nat /\ n * CHUNK_SIZE < size
         /\ chunk_offset(n) = n * CHUNK_SIZE
         /\ n + 1 = sender_num_chunks(size) => chunk_len(size, n) = size - n * CHUNK_SIZE
         /\ n + 1 # sender_num_chunks(size) => chunk_len(size, n) = CHUNK_SIZE
         /\ chunk_len(size, n) \in 1 .. CHUNK_SIZE
         /\ n * CHUNK_SIZE + chunk_len(size, n) <= size
<1> DEFINE N == sender_num_chunks(size)
           k == n * CHUNK_SIZE
<1>1. PICK r \in 0 .. CHUNK_SIZE - 1 : size + CHUNK_SIZE - 1 = CHUNK_SIZE * N + r
  BY NumChunks
<1>2. N \in Nat /\ n < N
  BY NumChunks
<1>3. CHUNK_SIZE \in Nat \ {0} /\ k \in Nat /\ size \in Nat
  BY Sizes
<1> HIDE DEF N
<1>4. CHUNK_SIZE * N \in Nat
  BY <1>2, <1>3
<1>5. CHUNK_SIZE * N >= k + CHUNK_SIZE
  <2>1. CHUNK_SIZE * N >= CHUNK_SIZE * (n + 1)
    BY <1>2, <1>3
  <2>2. CHUNK_SIZE * (n + 1) = k + CHUNK_SIZE
    BY <1>3
  <2>3. QED
    BY <2>1, <2>2
<1>6. n + 1 = N => CHUNK_SIZE * N = k + CHUNK_SIZE
  BY <1>3
<1>7. n + 1 # N => CHUNK_SIZE * N >= k + 2 * CHUNK_SIZE
  <2> SUFFICES ASSUME n + 1 # N PROVE CHUNK_SIZE * N >= k + 2 * CHUNK_SIZE
    OBVIOUS
  <2>1. N >= n + 2
    BY <1>2
  <2>2. CHUNK_SIZE * N >= CHUNK_SIZE * (n + 2)
    BY <1>2, <1>3, <2>1
  <2>3. CHUNK_SIZE * (n + 2) = k + 2 * CHUNK_SIZE
    BY <1>3
  <2>4. QED
    BY <2>2, <2>3
<1> HIDE DEF k
<1>8. k < size
  BY <1>1, <1>3, <1>4, <1>5
<1>9. k + CHUNK_SIZE \in 0 .. UINT32 - 1 /\ k \in 0 .. UINT32 - 1
  BY <1>1, <1>3, <1>4, <1>5, Sizes
<1>10. chunk_offset(n) = k
  <2>1. k % UINT32 = k
    BY <1>9, Sizes, SmallMod
  <2>2. QED
    BY <2>1 DEF chunk_offset, k
<1>11. (k + CHUNK_SIZE) % UINT32 = k + CHUNK_SIZE
  BY <1>9, Sizes, SmallMod
<1>12. CASE k + CHUNK_SIZE > size
  <2>1. size - k \in 0 .. UINT16 - 1
    BY <1>3, <1>8, <1>12, Sizes
  <2>2. (size - k) % UINT16 = size - k
    BY <2>1, Sizes, SmallMod
  <2>3. chunk_len(size, n) = size - k
    BY <1>10, <1>11, <1>12, <2>2 DEF chunk_len
  <2>4. n + 1 = N
    BY <1>1, <1>3, <1>4, <1>7, <1>12
  <2>5. QED
    BY <1>3, <1>8, <1>10, <1>12, <2>3, <2>4 DEF k, N
<1>13. CASE ~(k + CHUNK_SIZE > size)
  <2>1. chunk_len(size, n) = CHUNK_SIZE
    BY <1>10, <1>11, <1>13 DEF chunk_len
  <2>2. n + 1 = N => size = k + CHUNK_SIZE
    BY <1>1, <1>3, <1>4, <1>6, <1>13
  <2>3. QED
    BY <1>3, <1>8, <1>10, <1>13, <2>1, <2>2 DEF k, N
<1>14. QED
  BY <1>12, <1>13

\* A sum that leaves 32 bits leaves less than a chunk.
LEMMA Wrapped ==
  ASSUME NEW size \in 0 .. MaxSize, ~ Fits(size)
  PROVE  sender_num_chunks(size) = 0
<1> DEFINE a == size + CHUNK_SIZE - 1
           b == a - UINT32
<1>1. CHUNK_SIZE \in Nat \ {0} /\ UINT32 \in Nat \ {0} /\ size \in 0 .. UINT32 - 1
  BY WidthAssumption, WordAssumption
<1>2. b \in 0 .. CHUNK_SIZE - 1 /\ b \in 0 .. UINT32 - 1 /\ a \in Nat /\ a = UINT32 + b
  BY <1>1, WidthAssumption DEF Fits
<1> HIDE DEF a, b
<1>3. a % UINT32 = b
  BY <1>1, <1>2
<1>4. b \div CHUNK_SIZE = 0
  BY <1>1, <1>2
<1>5. QED
  BY <1>3, <1>4 DEF sender_num_chunks, a

-----------------------------------------------------------------------------
\* All chunks before next_seq are in file_buffer, and nothing else is.
BytesInv ==
  /\ file_size \in 0 .. MaxSize
  /\ next_seq \in Nat
  /\ Fits(file_size) =>
       /\ next_seq <= sender_num_chunks(file_size)
       /\ filled = IF next_seq = sender_num_chunks(file_size)
                   THEN file_size ELSE next_seq * CHUNK_SIZE

LEMMA BytesInductive == BytesSpec => []BytesInv
<1>1. BytesInit => BytesInv
  <2> SUFFICES ASSUME BytesInit, Fits(file_size)
               PROVE  /\ next_seq <= sender_num_chunks(file_size)
                      /\ filled = IF next_seq = sender_num_chunks(file_size)
                                  THEN file_size ELSE next_seq * CHUNK_SIZE
    BY DEF BytesInit, BytesInv
  <2>1. PICK r \in 0 .. CHUNK_SIZE - 1 :
          file_size + CHUNK_SIZE - 1 = CHUNK_SIZE * sender_num_chunks(file_size) + r
    BY NumChunks DEF BytesInit
  <2>2. sender_num_chunks(file_size) \in Nat /\ CHUNK_SIZE \in Nat \ {0} /\ file_size \in Nat
    BY NumChunks, Sizes DEF BytesInit
  <2>3. sender_num_chunks(file_size) = 0 => file_size = 0
    BY <2>1, <2>2
  <2>4. 0 * CHUNK_SIZE = 0
    BY <2>2
  <2>5. QED
    BY <2>2, <2>3, <2>4 DEF BytesInit
<1>2. BytesInv /\ [BytesNext]_bytesVars => BytesInv'
  <2> SUFFICES ASSUME BytesInv, [BytesNext]_bytesVars PROVE BytesInv'
    OBVIOUS
  <2>1. CASE SendChunk
    <3> DEFINE n == next_seq
               N == sender_num_chunks(file_size)
               len == chunk_len(file_size, next_seq)
    <3>1. file_size \in 0 .. MaxSize /\ n \in Nat /\ n < N
      BY <2>1 DEF BytesInv, SendChunk
    <3>2. Fits(file_size)
      BY <3>1, Wrapped
    <3>3. N \in Nat /\ filled = n * CHUNK_SIZE
      BY <3>1, <3>2, NumChunks DEF BytesInv
    <3>4. /\ chunk_offset(n) = n * CHUNK_SIZE
          /\ n + 1 = N => len = file_size - n * CHUNK_SIZE
          /\ n + 1 # N => len = CHUNK_SIZE
      BY <3>1, <3>2, ChunkPlace
    <3>5. filled' = n * CHUNK_SIZE + len /\ next_seq' = n + 1 /\ file_size' = file_size
      BY <2>1, <3>3, <3>4 DEF SendChunk
    <3>6. CHUNK_SIZE \in Nat /\ n * CHUNK_SIZE \in Nat /\ file_size \in Nat
          /\ (n + 1) * CHUNK_SIZE = n * CHUNK_SIZE + CHUNK_SIZE
      BY <3>1, <3>2, Sizes
    <3>7. sender_num_chunks(file_size)' = N
      BY <3>5
    <3> HIDE DEF N, len
    <3>8. filled' = IF n + 1 = N THEN file_size ELSE (n + 1) * CHUNK_SIZE
      BY <3>4, <3>5, <3>6
    <3>9. n + 1 \in Nat /\ n + 1 <= N
      BY <3>1, <3>3
    <3>10. QED
      BY <3>1, <3>5, <3>7, <3>8, <3>9 DEF BytesInv
  <2>2. CASE UNCHANGED bytesVars
    BY <2>2 DEF bytesVars, BytesInv
  <2>3. QED
    BY <2>1, <2>2 DEF BytesNext
<1>3. QED
  BY <1>1, <1>2, PTL DEF BytesSpec

\* sr_sender_send_window sends the bytes of the file in chunks of 1 to
\* CHUNK_SIZE bytes, each once, and none is copied past the end of file_buffer.
THEOREM ChunksTileTheFile == BytesSpec => []ChunksTile
<1>1. BytesInv => ChunksTile
  <2> SUFFICES ASSUME BytesInv, next_seq < sender_num_chunks(file_size)
               PROVE  /\ chunk_offset(next_seq) = filled
                      /\ chunk_len(file_size, next_seq) \in 1 .. CHUNK_SIZE
                      /\ filled + chunk_len(file_size, next_seq) <= file_size
    BY DEF ChunksTile
  <2>1. file_size \in 0 .. MaxSize /\ next_seq \in Nat
    BY DEF BytesInv
  <2>2. Fits(file_size)
    BY <2>1, Wrapped
  <2>3. filled = next_seq * CHUNK_SIZE
    BY <2>1, <2>2, NumChunks DEF BytesInv
  <2>4. QED
    BY <2>1, <2>2, <2>3, ChunkPlace
<1>2. QED
  BY <1>1, BytesInductive, PTL

\* The sender's last chunk completes the file, and it is the last one the
\* receiver was told to expect, unless the size is within a chunk of 2^32.
THEOREM EveryByteIsSent == BytesSpec => []EveryByteSent
<1>1. BytesInv => EveryByteSent
  <2> SUFFICES ASSUME BytesInv, Fits(file_size), next_seq >= sender_num_chunks(file_size)
               PROVE  filled = file_size /\ next_seq = start_num_chunks(file_size)
    BY DEF EveryByteSent
  <2>1. /\ sender_num_chunks(file_size) \in Nat
        /\ start_num_chunks(file_size) = sender_num_chunks(file_size)
    BY NumChunks DEF BytesInv
  <2>2. next_seq = sender_num_chunks(file_size)
    BY <2>1 DEF BytesInv
  <2>3. QED
    BY <2>1, <2>2 DEF BytesInv
<1>2. QED
  BY <1>1, BytesInductive, PTL

-----------------------------------------------------------------------------
(* The length of a file list *)

\* The list is the one that was written, with as many bytes behind its
\* header as it has, while the client has not read it.
ListInv ==
  /\ num_files \in 0 .. MAX_FILES
  /\ pc \in {"ready", "waiting", "gone"}
  /\ pc = "ready" => shown = num_files /\ stream = 0
  /\ pc = "waiting" => /\ data_len = (num_files * FILE_INFO) % DATA_LEN
                       /\ stream = num_files * FILE_INFO
  /\ pc = "gone" => num_files * FILE_INFO >= DATA_LEN

\* The bytes of n whole entries.
LEMMA Entries ==
  ASSUME NEW n \in Nat
  PROVE  /\ n * FILE_INFO \in Nat
         /\ (n * FILE_INFO) % FILE_INFO = 0
         /\ (n * FILE_INFO) \div FILE_INFO = n
<1>1. PICK F \in Nat \ {0} : F = FILE_INFO
  BY ListAssumption
<1>2. n * F \in Nat /\ n * F = F * n + 0 /\ 0 \in 0 .. F - 1
  BY Z3
<1>3. (n * F) % F = 0
  BY <1>2, ModOf
<1>4. /\ (n * F) \div F \in Nat
      /\ n * F = F * ((n * F) \div F) + 0
  BY <1>2, <1>3, DivMod
<1>5. (n * F) \div F = n
  BY <1>2, <1>4, DivModUnique
<1> QED BY <1>1, <1>2, <1>3, <1>5

\* A length that is announced as whole entries has not wrapped.
LEMMA WholeIsExact ==
  ASSUME NEW n \in 0 .. MAX_FILES, WholeEntries((n * FILE_INFO) % DATA_LEN)
  PROVE  (n * FILE_INFO) % DATA_LEN = n * FILE_INFO
<1>1. PICK F \in Nat \ {0}, D \in Nat \ {0} : F = FILE_INFO /\ D = DATA_LEN
  BY ListAssumption
<1>2. n \in Nat /\ n < D /\ \A q \in 1 .. F - 1 : (q * D) % F # 0
  BY <1>1, ListAssumption
<1>3. PICK x \in Nat : x = n * F
  BY <1>1, <1>2, Entries
<1>4. PICK q \in Nat, r \in 0 .. D - 1 : x = D * q + r /\ r = x % D
  BY <1>3, DivMod
<1>5. r % F = 0
  BY <1>1, <1>3, <1>4 DEF WholeEntries
<1>6. PICK p \in Nat : r = F * p
  <2>1. r \in Nat
    OBVIOUS
  <2>2. PICK p \in Nat : r = F * p + (r % F)
    BY <2>1, DivMod, Zenon
  <2>3. F * p \in Nat
    BY Z3
  <2>4. r = F * p
    BY <1>5, <2>2, <2>3
  <2> QED BY <2>4, Zenon
<1>7. q * D \in Nat /\ q * D = F * (n - p) + 0 /\ n - p \in Int /\ 0 \in 0 .. F - 1
  <2>1. n * F = D * q + F * p
    BY <1>3, <1>4, <1>6
  <2>2. n * F = F * n /\ D * q = q * D /\ F * (n - p) = F * n - F * p
    BY <1>2, Z3
  <2>3. F * n \in Nat /\ q * D \in Nat /\ F * p \in Nat /\ F * (n - p) \in Int
    BY <1>2, Z3
  <2> QED BY <1>2, <2>1, <2>2, <2>3
<1>8. (q * D) % F = 0
  BY <1>7, ModOf
<1>9. q = 0
  <2> SUFFICES ASSUME q # 0 PROVE FALSE
    OBVIOUS
  <2>1. q >= F
    BY <1>2, <1>8
  <2>2. D * q >= D * F /\ D * F > n * F
    BY <1>2, <2>1, Z3
  <2>3. D * q <= x
    BY <1>4, Z3
  <2> QED BY <1>3, <2>2, <2>3, Z3
<1> QED BY <1>1, <1>3, <1>4, <1>9

LEMMA ListInductive == ListSpec => []ListInv
<1>1. ListInit => ListInv
  BY ListAssumption DEF ListInit, ListInv
<1>2. ListInv /\ [ListNext]_listVars => ListInv'
  <2> SUFFICES ASSUME ListInv, [ListNext]_listVars PROVE ListInv'
    OBVIOUS
  <2>1. CASE handle_list_files
    <3>1. PICK n \in 0 .. MAX_FILES : num_files' = n /\ n * FILE_INFO \in Nat
      BY <2>1, Entries, ListAssumption DEF handle_list_files
    <3>2. stream' = n * FILE_INFO
      BY <2>1, <3>1 DEF handle_list_files, ListInv
    <3> QED BY <2>1, <3>1, <3>2 DEF handle_list_files, ListInv
  <2>2. CASE list
    <3>1. PICK n \in 0 .. MAX_FILES : num_files = n
      BY DEF ListInv
    <3>2. /\ n \in Nat /\ n * FILE_INFO \in Nat /\ n * FILE_INFO % FILE_INFO = 0
          /\ (n * FILE_INFO) \div FILE_INFO = n
      BY Entries, ListAssumption
    <3>3. data_len = (n * FILE_INFO) % DATA_LEN /\ stream = n * FILE_INFO
      BY <2>2, <3>1 DEF list, ListInv
    <3>4. CASE WholeEntries(data_len)
      <4>1. data_len = n * FILE_INFO
        BY <3>3, <3>4, WholeIsExact
      <4> QED BY <2>2, <3>1, <3>2, <3>3, <3>4, <4>1 DEF list, ListInv
    <3>5. CASE ~ WholeEntries(data_len)
      <4>1. n * FILE_INFO >= DATA_LEN
        <5> SUFFICES ASSUME ~ (n * FILE_INFO >= DATA_LEN) PROVE FALSE
          OBVIOUS
        <5>1. n * FILE_INFO \in 0 .. DATA_LEN - 1 /\ DATA_LEN \in Nat \ {0}
          BY <3>2, ListAssumption
        <5>2. data_len = n * FILE_INFO
          BY <3>3, <5>1, SmallMod
        <5> QED BY <3>2, <3>5, <5>2 DEF WholeEntries
      <4> QED BY <2>2, <3>1, <3>5, <4>1 DEF list, ListInv
    <3> QED BY <3>4, <3>5
  <2>3. CASE UNCHANGED listVars
    BY <2>3 DEF listVars, ListInv
  <2> QED BY <2>1, <2>2, <2>3 DEF ListNext
<1> QED BY <1>1, <1>2, PTL DEF ListSpec

\* For every table and entry size that share no factor with the range of
\* data_len, list() prints the whole list or none of it, and refuses only a
\* list that is too long for its length field.
THEOREM ListsAreWhole == ListSpec => []NeverTruncated
<1>1. ListInv => NeverTruncated
  BY DEF ListInv, NeverTruncated
<1> QED BY <1>1, ListInductive, PTL

-----------------------------------------------------------------------------
(* The pace of retransmissions *)

TimerTypeOK ==
  /\ state \in {"PKT_PENDING", "PKT_ACKED", "failed"}
  /\ send_time_ms \in 0 .. MaxTime /\ clock \in 0 .. MaxTime
  /\ retries \in Nat /\ sets \in Nat /\ age \in Nat /\ waited \in Nat

\* The true time that n timeouts account for.
Due(n) == (n - sets) * TIMEOUT_MS

\* Either the clock has run undisturbed since the packet was last sent, and
\* measures the true time, or it has been set, which has paid for the next
\* timeout in advance.
TimerInv ==
  /\ TimerTypeOK
  /\ \/ clock - send_time_ms = waited /\ Due(retries) + waited <= age
     \/ Due(retries + 1) <= age
  /\ state = "failed" => Due(retries + 1) <= age

\* Arithmetic of Due: one timeout more costs TIMEOUT_MS, one setting of the
\* clock earns it.
LEMMA DueSteps ==
  ASSUME NEW T \in Nat, NEW n \in Nat, NEW s \in Nat
  PROVE  /\ (n - s) * T \in Int
         /\ (n + 1 - s) * T = (n - s) * T + T
         /\ (n - (s + 1)) * T = (n - s) * T - T
         /\ (n + 1 - (s + 1)) * T = (n - s) * T
BY Z3

\* A clock that has not been set back gives the difference itself.
LEMMA NoWrapDifference ==
  ASSUME NEW now \in 0 .. MaxTime, NEW then \in 0 .. MaxTime, now - then \in Nat
  PROVE  (now - then) % WORD = now - then
BY TimerAssumption

LEMMA TimerInvInit == TimerInit => TimerInv
<1> SUFFICES ASSUME TimerInit PROVE TimerInv
  OBVIOUS
<1>1. Due(retries) = 0
  BY TimerAssumption DEF TimerInit, Due
<1>2. QED
  BY <1>1 DEF TimerInit, TimerInv, TimerTypeOK

LEMMA TimerInvStep == TimerInv /\ [TimerNext]_timerVars => TimerInv'
<1> SUFFICES ASSUME TimerInv, [TimerNext]_timerVars PROVE TimerInv'
  OBVIOUS
<1>1. TIMEOUT_MS \in Nat /\ TimerTypeOK
  BY TimerAssumption DEF TimerInv
<1>2. /\ Due(retries) \in Int /\ Due(retries + 1) = Due(retries) + TIMEOUT_MS
  BY <1>1, DueSteps DEF TimerTypeOK, Due
<1>3. CASE Tick
  <2>1. TimerTypeOK'
    BY <1>1, <1>3, TimerAssumption DEF Tick, TimerTypeOK, entry
  <2>2. Due(retries)' = Due(retries) /\ Due(retries + 1)' = Due(retries + 1)
    BY <1>3 DEF Tick, Due, entry
  <2>3. QED
    BY <1>1, <1>2, <1>3, <2>1, <2>2 DEF Tick, TimerInv, TimerTypeOK, entry
<1>4. CASE SetClock
  <2>1. TimerTypeOK'
    BY <1>1, <1>4 DEF SetClock, TimerTypeOK, entry
  <2>2. Due(retries + 1)' = Due(retries)
    BY <1>1, <1>4, DueSteps DEF SetClock, Due, entry, TimerTypeOK
  <2>3. Due(retries) <= age
    BY <1>1, <1>2 DEF TimerInv, TimerTypeOK
  <2>4. QED
    BY <1>4, <2>1, <2>2, <2>3 DEF SetClock, TimerInv, entry
<1>5. CASE check_timeouts
  <2>1. Due(retries + 1) <= age
    <3>1. CASE clock - send_time_ms = waited /\ Due(retries) + waited <= age
      <4>1. (clock - send_time_ms) % WORD = waited
        BY <1>1, <3>1, NoWrapDifference DEF TimerTypeOK
      <4>2. waited >= TIMEOUT_MS
        BY <1>5, <4>1 DEF check_timeouts, TimedOut
      <4>3. QED
        BY <1>1, <1>2, <3>1, <4>2 DEF TimerTypeOK
    <3>2. QED
      BY <3>1 DEF TimerInv
  <2>2. CASE retries >= MAX_RETRIES
    <3>1. retries' = retries /\ sets' = sets /\ age' = age /\ state' = "failed"
          /\ UNCHANGED <<send_time_ms, waited, clock>>
      BY <1>1, <1>5, <2>2, TimerAssumption DEF check_timeouts, TimerTypeOK
    <3>2. Due(retries)' = Due(retries) /\ Due(retries + 1)' = Due(retries + 1)
      BY <3>1 DEF Due
    <3>3. QED
      BY <1>1, <2>1, <3>1, <3>2 DEF TimerInv, TimerTypeOK
  <2>3. CASE retries < MAX_RETRIES
    <3>1. /\ retries' = retries + 1 /\ sets' = sets /\ age' = age /\ state' = state
          /\ send_time_ms' = clock /\ clock' = clock /\ waited' = 0
          /\ state = "PKT_PENDING"
      BY <1>1, <1>5, <2>3, TimerAssumption DEF check_timeouts, Retransmit, TimerTypeOK
    <3>2. Due(retries)' = Due(retries + 1)
      BY <3>1 DEF Due
    <3>3. clock' - send_time_ms' = waited'
      BY <1>1, <3>1 DEF TimerTypeOK
    <3>4. TimerTypeOK'
      BY <1>1, <3>1 DEF TimerTypeOK
    <3>5. Due(retries)' + waited' <= age'
      BY <1>2, <1>1, <2>1, <3>1, <3>2
    <3>6. QED
      BY <3>1, <3>3, <3>4, <3>5 DEF TimerInv
  <2>4. QED
    BY <1>1, <2>2, <2>3, TimerAssumption DEF TimerTypeOK
<1>6. CASE handle_ack
  <2>1. Due(retries)' = Due(retries) /\ Due(retries + 1)' = Due(retries + 1)
    BY <1>6 DEF handle_ack, Due
  <2>2. QED
    BY <1>1, <1>6, <2>1 DEF handle_ack, TimerInv, TimerTypeOK
<1>7. CASE UNCHANGED timerVars
  <2>1. Due(retries)' = Due(retries) /\ Due(retries + 1)' = Due(retries + 1)
    BY <1>7 DEF timerVars, entry, Due
  <2>2. QED
    BY <1>1, <1>7, <2>1 DEF timerVars, entry, TimerInv, TimerTypeOK
<1>8. QED
  BY <1>3, <1>4, <1>5, <1>6, <1>7 DEF TimerNext

\* However the clock is set, sr_sender_check_timeouts spends at most one retry
\* per setting ahead of its time, and gives up no earlier than that allows.
THEOREM Paced == TimerSpec => []TimeoutsPaced
<1>1. TimerInv => TimeoutsPaced
  <2> SUFFICES ASSUME TimerInv PROVE TimeoutsPaced
    OBVIOUS
  <2>1. /\ TIMEOUT_MS \in Nat /\ TimerTypeOK
        /\ Due(retries) \in Int /\ Due(retries + 1) = Due(retries) + TIMEOUT_MS
    BY TimerAssumption, DueSteps DEF TimerInv, TimerTypeOK, Due
  <2>2. CASE state = "failed"
    <3>1. Timeouts = retries + 1
      BY <2>2 DEF Timeouts
    <3>2. QED
      BY <2>2, <3>1 DEF TimerInv, TimeoutsPaced, Due
  <2>3. CASE state # "failed"
    <3>1. Timeouts = retries
      BY <2>1, <2>3 DEF Timeouts, TimerTypeOK
    <3>2. Due(retries) <= age
      BY <2>1 DEF TimerInv, TimerTypeOK
    <3>3. QED
      BY <3>1, <3>2 DEF TimeoutsPaced, Due
  <2>4. QED
    BY <2>2, <2>3
<1>2. QED
  BY <1>1, TimerInvInit, TimerInvStep, PTL DEF TimerSpec

\* As long as the clock has not been set it measures the true time.
Undisturbed ==
  /\ sets \in Nat /\ waited \in Nat
  /\ send_time_ms \in 0 .. MaxTime /\ clock \in 0 .. MaxTime
  /\ sets = 0 => ~ early /\ clock - send_time_ms = waited

\* sr_sender_check_timeouts sends no packet before its time while the time of
\* day goes forward as it should.
THEOREM NoneEarly == TimerSpec => []OnlyTimedOutSent
<1>1. TimerInit => Undisturbed
  BY DEF TimerInit, Undisturbed
<1>2. Undisturbed /\ [TimerNext]_timerVars => Undisturbed'
  <2> SUFFICES ASSUME Undisturbed, [TimerNext]_timerVars PROVE Undisturbed'
    OBVIOUS
  <2>1. CASE Tick
    BY <2>1, TimerAssumption DEF Tick, Undisturbed, entry
  <2>2. CASE SetClock
    <3>1. sets' \in Nat /\ sets' # 0
      BY <2>2 DEF SetClock, Undisturbed
    <3>2. /\ waited' \in Nat
          /\ send_time_ms' \in 0 .. MaxTime /\ clock' \in 0 .. MaxTime
      BY <2>2 DEF SetClock, Undisturbed, entry
    <3>3. QED
      BY <3>1, <3>2 DEF Undisturbed
  <2>3. CASE check_timeouts
    <3>1. sets = 0 => waited >= TIMEOUT_MS
      <4> SUFFICES ASSUME sets = 0 PROVE waited >= TIMEOUT_MS
        OBVIOUS
      <4>1. (clock - send_time_ms) % WORD = clock - send_time_ms
        BY NoWrapDifference DEF Undisturbed
      <4>2. QED
        BY <2>3, <4>1 DEF check_timeouts, TimedOut, Undisturbed
    <3>2. CASE retries >= MAX_RETRIES /\ UNCHANGED <<send_time_ms, waited, early>>
      BY <2>3, <3>2 DEF check_timeouts, Undisturbed
    <3>3. CASE Retransmit(clock)
      <4>1. sets = 0 => ~ (waited < TIMEOUT_MS)
        BY <3>1, TimerAssumption DEF Undisturbed
      <4>2. sets = 0 => ~ early'
        BY <3>3, <4>1, Zenon DEF Retransmit, Undisturbed
      <4>3. /\ sets' = sets /\ clock' = clock
            /\ send_time_ms' = clock /\ waited' = 0
        BY <2>3, <3>3 DEF check_timeouts, Retransmit
      <4>4. QED
        BY <4>2, <4>3 DEF Undisturbed
    <3>4. QED
      BY <2>3, <3>2, <3>3 DEF check_timeouts
  <2>4. CASE handle_ack
    BY <2>4 DEF handle_ack, Undisturbed
  <2>5. CASE UNCHANGED timerVars
    BY <2>5 DEF timerVars, entry, Undisturbed
  <2>6. QED
    BY <2>1, <2>2, <2>3, <2>4, <2>5 DEF TimerNext
<1>3. Undisturbed => OnlyTimedOutSent
  BY DEF Undisturbed, OnlyTimedOutSent
<1>4. QED
  BY <1>1, <1>2, <1>3, PTL DEF TimerSpec
=============================================================================
