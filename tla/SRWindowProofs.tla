--------------------------- MODULE SRWindowProofs ---------------------------
(***************************************************************************)
(* What the sr_* operators of SRWindow preserve and put on the wire, for   *)
(* every window size, retry limit and file: lemmas for the proofs about    *)
(* the modules that compose them.                                          *)
(***************************************************************************)
EXTENDS SRWindow, FiniteSetTheorems, WellFoundedInduction, TLAPS

-----------------------------------------------------------------------------
(* Slots *)

\* Division with remainder, the form the arithmetic steps below use.
LEMMA DivisionAlgorithm ==
  ASSUME NEW W \in Nat \ {0}, NEW a \in Nat
  PROVE  /\ a \div W \in Nat
         /\ a % W \in 0 .. W - 1
         /\ a = W * (a \div W) + (a % W)
OBVIOUS

\* A multiple of W in [0, W) is zero.
LEMMA SmallMultiple ==
  ASSUME NEW W \in Nat \ {0}, NEW d \in Int, 0 <= W * d, W * d < W
  PROVE  d = 0
<1>1. CASE d >= 1
  <2>1. W * d >= W
    BY <1>1, Z3
  <2> QED BY <2>1
<1>2. CASE d <= -1
  <2>1. W * d <= -W
    BY <1>2, Z3
  <2> QED BY <2>1
<1> QED BY <1>1, <1>2

\* seq % WINDOW_SIZE is a slot of the window.
LEMMA IdxType ==
  ASSUME NEW n \in Nat
  PROVE  Idx(n) \in Slots
BY WindowAssumption, DivisionAlgorithm, Zenon DEF Idx, Slots

\* Fewer than WINDOW_SIZE apart, two sequence numbers have different slots.
LEMMA IdxInjective ==
  ASSUME NEW a \in Nat, NEW b \in Nat,
         a < b + WINDOW_SIZE, b < a + WINDOW_SIZE, Idx(a) = Idx(b)
  PROVE  a = b
<1> DEFINE W == WINDOW_SIZE
           p == a \div W
           q == b \div W
<1>1. W \in Nat \ {0}
  BY WindowAssumption, Zenon
<1>2. /\ p \in Nat /\ q \in Nat /\ a % W \in Int
      /\ a = W * p + (a % W)
      /\ b = W * q + (a % W)
  <2>1. a % W = b % W
    BY Zenon DEF Idx
  <2>2. p \in Nat /\ a % W \in 0 .. W - 1 /\ a = W * p + (a % W)
    BY <1>1, DivisionAlgorithm, Zenon
  <2>3. q \in Nat /\ b = W * q + (b % W)
    BY <1>1, DivisionAlgorithm, Zenon
  <2> QED BY <2>1, <2>2, <2>3
<1> HIDE DEF W, p, q
<1>3. b - a = W * (q - p)
  BY <1>1, <1>2
<1>4. CASE a <= b
  <2>1. 0 <= b - a /\ b - a < W
    BY <1>1, <1>4 DEF W
  <2>2. q - p = 0
    BY <1>1, <1>2, <1>3, <2>1, SmallMultiple
  <2> QED BY <1>2, <2>2
<1>5. CASE b < a
  <2>1. a - b = W * (p - q)
    BY <1>1, <1>2
  <2>2. 0 <= a - b /\ a - b < W
    BY <1>1, <1>5 DEF W
  <2>3. p - q = 0
    BY <1>1, <1>2, <2>1, <2>2, SmallMultiple
  <2> QED BY <1>2, <2>3
<1> QED BY <1>4, <1>5

\* Min of a nonempty set of naturals is its least element.
LEMMA MinIsLeast ==
  ASSUME NEW S \in SUBSET Nat, S # {}
  PROVE  Min(S) \in S /\ \A y \in S : Min(S) <= y
<1> DEFINE R == OpToRel(<, Nat)
<1>1. R = {ss \in Nat \X Nat : ss[1] < ss[2]}
  BY Zenon DEF OpToRel
<1>2. IsWellFoundedOn(R, Nat)
  BY NatLessThanWellFounded, Zenon
<1> HIDE DEF R
<1>3. PICK x \in S : \A y \in S : ~ (<<y, x>> \in R)
  BY <1>2, WFMin, Zenon
<1>4. ASSUME NEW y \in S
      PROVE  x <= y
  <2>1. x \in Nat /\ y \in Nat
    BY Zenon
  <2>2. ASSUME y < x
        PROVE  <<y, x>> \in R
    BY <1>1, <2>1, <2>2, Zenon
  <2> QED BY <1>3, <2>1, <2>2
<1> QED BY <1>4, Zenon DEF Min

-----------------------------------------------------------------------------
(* Sender *)

\* A sender knows its file.
LEMMA SenderParts ==
  ASSUME NEW N, NEW F, NEW s \in SenderType(F, N)
  PROVE  s.num_chunks = N /\ s.file_data = F
BY Zenon DEF SenderType

\* Where the sending loop stops: everything before was free and in the window.
LEMMA SendStopFacts ==
  ASSUME NEW N \in Nat, NEW F \in [0 .. N - 1 -> Chunk],
         NEW s \in SenderType(F, N), SendWindowOK(s)
  PROVE  /\ SendStop(s) \in s.next_seq .. N
         /\ SendStop(s) <= s.base + WINDOW_SIZE
<1> DEFINE T == {n \in s.next_seq .. s.num_chunks :
                   \/ n = s.num_chunks
                   \/ n >= s.base + WINDOW_SIZE
                   \/ s.window[Idx(n)].state # "PKT_EMPTY"}
<1>1. /\ s.base \in 0 .. N /\ s.next_seq \in 0 .. N
      /\ s.num_chunks = N /\ N \in Nat
      /\ WINDOW_SIZE \in Nat \ {0}
      /\ s.next_seq <= s.base + WINDOW_SIZE
  BY WindowAssumption, Zenon DEF SenderType, SendWindowOK
<1>2. T \in SUBSET Nat /\ N \in T
  BY <1>1
<1>3. SendStop(s) \in T /\ \A y \in T : SendStop(s) <= y
  BY <1>2, MinIsLeast, Zenon DEF SendStop
<1>4. SendStop(s) \in s.next_seq .. N
  BY <1>1, <1>3, Zenon
<1>5. SendStop(s) <= s.base + WINDOW_SIZE
  <2>1. CASE s.base + WINDOW_SIZE <= N
    <3>1. s.base + WINDOW_SIZE \in T
      BY <1>1, <2>1
    <3> QED BY <1>3, <3>1, Zenon
  <2>2. CASE N < s.base + WINDOW_SIZE
    BY <1>1, <1>4, <2>2
  <2> QED BY <1>1, <2>1, <2>2
<1> QED BY <1>4, <1>5, Zenon

\* What one call of sr_sender_send_window makes of the sender s of the file F.
WindowSent(F, N, s, w) ==
  /\ w \in SenderType(F, N)
  /\ SenderOK(w)
  /\ w.base = s.base
  /\ s.next_seq <= w.next_seq
  /\ Acked(w) = Acked(s)
  /\ \A p \in FirstPackets(s) :
       /\ p \in DataPacket(N)
       /\ p.ok
       /\ p.seq_num < w.next_seq
       /\ p.seq_num \notin Acked(w)
       /\ p.data = F[p.seq_num]
  /\ \A n \in s.base .. s.next_seq - 1 :
       w.window[Idx(n)] = s.window[Idx(n)]
  /\ \A n \in s.next_seq .. w.next_seq - 1 :
       /\ w.window[Idx(n)].retries = 0
       /\ build_data_packet(n, F[n]) \in FirstPackets(s)

\* sr_sender_send_window fills free slots with the next chunks of the file.
LEMMA SendWindowLemma ==
  ASSUME NEW N \in Nat, NEW F \in [0 .. N - 1 -> Chunk],
         NEW s \in SenderType(F, N), SenderOK(s),
         NEW w, w = sr_sender_send_window(s)
  PROVE  WindowSent(F, N, s, w)
<1> DEFINE stop == SendStop(s)
           sent == s.next_seq .. stop - 1
<1>1. /\ s.base \in 0 .. N /\ s.next_seq \in 0 .. N
      /\ s.num_chunks = N /\ N \in Nat
      /\ WINDOW_SIZE \in Nat \ {0} /\ MAX_RETRIES \in Nat
      /\ s.file_data = F /\ F \in [0 .. N - 1 -> Chunk]
      /\ s.window \in [Slots -> SenderEntry] /\ s.chunks_acked \in Nat
  BY WindowAssumption, Zenon DEF SenderType
<1>2. SendWindowOK(s)
  BY Zenon DEF SenderOK
<1>3. stop \in s.next_seq .. N /\ stop <= s.base + WINDOW_SIZE
  BY <1>2, SendStopFacts, Zenon
<1>4. /\ s.base <= s.next_seq
      /\ s.next_seq <= s.base + WINDOW_SIZE
  BY <1>2, Zenon DEF SendWindowOK
<1> HIDE DEF stop
<1>5. /\ w.base = s.base /\ w.next_seq = stop /\ w.num_chunks = N
      /\ w.file_data = F /\ w.chunks_acked = s.chunks_acked
  BY <1>1, Zenon DEF sr_sender_send_window, SenderType, stop
<1>w. w.window = [i \in Slots |->
                    IF \E n \in sent : Idx(n) = i
                    THEN FreshEntry(s, CHOOSE n \in sent : Idx(n) = i)
                    ELSE s.window[i]]
  BY Zenon DEF sr_sender_send_window, FirstSends, SenderType, stop
<1>6. ASSUME NEW n \in sent
      PROVE  /\ w.window[Idx(n)].state = "PKT_PENDING"
             /\ w.window[Idx(n)].seq_num = n
             /\ w.window[Idx(n)].data = F[n]
             /\ w.window[Idx(n)].retries = 0
             /\ w.window[Idx(n)] \in SenderEntry
             /\ n \in 0 .. N - 1
  <2>1. n \in Nat /\ n < N /\ n < s.base + WINDOW_SIZE /\ n >= s.next_seq
    BY <1>1, <1>3
  <2>2. \A m \in sent : Idx(m) = Idx(n) => m = n
    <3>1. ASSUME NEW m \in sent, Idx(m) = Idx(n)
          PROVE  m = n
      <4>1. m \in Nat /\ m < n + WINDOW_SIZE /\ n < m + WINDOW_SIZE
        BY <1>1, <1>3, <1>4, <2>1
      <4>2. n \in Nat
        BY <2>1, Zenon
      <4> HIDE DEF sent
      <4> QED BY <3>1, <4>1, <4>2, IdxInjective, Zenon
    <3> QED BY <3>1, Zenon
  <2>3. (CHOOSE m \in sent : Idx(m) = Idx(n)) = n
    BY <2>2, Zenon
  <2>4. w.window[Idx(n)] = FreshEntry(s, n)
    BY <1>w, <2>1, <2>3, IdxType, Zenon
  <2>5. FreshEntry(s, n) = [state |-> "PKT_PENDING", seq_num |-> n,
                            data |-> F[n], retries |-> 0]
    BY <1>1, Zenon DEF FreshEntry
  <2>6. w.window[Idx(n)] \in SenderEntry
    BY <1>1, <2>1, <2>4, <2>5 DEF SenderEntry, PacketState
  <2> QED BY <1>1, <2>1, <2>4, <2>5, <2>6
<1>7. ASSUME NEW n \in s.base .. s.next_seq - 1
      PROVE  w.window[Idx(n)] = s.window[Idx(n)]
  <2>1. n \in Nat
    BY <1>1
  <2>2. ASSUME NEW m \in sent
        PROVE  Idx(m) # Idx(n)
    <3>1. m \in Nat /\ m # n /\ m < n + WINDOW_SIZE /\ n < m + WINDOW_SIZE
      BY <1>1, <1>3, <1>4
    <3> QED BY <2>1, <3>1, IdxInjective, Zenon
  <2> QED BY <1>w, <2>1, <2>2, IdxType, Zenon
<1>8. ASSUME NEW i \in Slots
      PROVE  \/ \E n \in sent : Idx(n) = i
             \/ w.window[i] = s.window[i]
  BY <1>w, Zenon
<1>9. w \in SenderType(F, N)
  <2>1. ASSUME NEW i \in Slots
        PROVE  w.window[i] \in SenderEntry
    BY <1>1, <1>6, <1>8, Zenon
  <2>2. w.window \in [Slots -> SenderEntry]
    BY <1>w, <2>1, Zenon
  <2>3. w = [s EXCEPT !.next_seq = w.next_seq, !.window = w.window]
    BY <1>5, <1>w, Zenon DEF sr_sender_send_window, SenderType
  <2>4. w.next_seq \in 0 .. N
    BY <1>1, <1>3, <1>5
  <2> QED BY <2>2, <2>3, <2>4, Zenon DEF SenderType
<1>10. Acked(w) = Acked(s)
  <2>1. ASSUME NEW n \in 0 .. N - 1
        PROVE  n \in Acked(w) <=> n \in Acked(s)
    <3>1. CASE n < s.base
      BY <1>1, <1>5, <3>1, Zenon DEF Acked
    <3>2. CASE n \in s.base .. s.next_seq - 1
      BY <1>1, <1>3, <1>5, <1>7, <3>2 DEF Acked
    <3>3. CASE n \in sent
      <4>1. w.window[Idx(n)].state = "PKT_PENDING"
        BY <1>6, <3>3, Zenon
      <4> QED BY <1>1, <1>3, <1>4, <1>5, <3>3, <4>1 DEF Acked
    <3>4. CASE n >= stop
      BY <1>1, <1>3, <1>4, <1>5, <3>4 DEF Acked
    <3> QED BY <1>1, <1>3, <3>1, <3>2, <3>3, <3>4
  <2> QED BY <1>1, <1>5, <2>1, Zenon DEF Acked
<1>11. SendWindowOK(w)
  <2>1. ASSUME NEW n \in w.base .. w.next_seq - 1
        PROVE  /\ w.window[Idx(n)].state # "PKT_EMPTY"
               /\ w.window[Idx(n)].seq_num = n
               /\ w.window[Idx(n)].data = F[n]
    <3>1. CASE n \in s.base .. s.next_seq - 1
      BY <1>2, <1>7, <3>1, SenderParts DEF SendWindowOK
    <3>2. CASE n \in sent
      BY <1>6, <3>2, Zenon
    <3> QED BY <1>1, <1>3, <1>4, <1>5, <3>1, <3>2
  <2>2. ASSUME NEW i \in Slots, w.window[i].state # "PKT_EMPTY"
        PROVE  \E n \in w.base .. w.next_seq - 1 : Idx(n) = i
    <3>1. CASE \E n \in sent : Idx(n) = i
      BY <1>1, <1>3, <1>4, <1>5, <3>1
    <3>2. CASE w.window[i] = s.window[i]
      <4>1. PICK n \in s.base .. s.next_seq - 1 : Idx(n) = i
        BY <1>2, <2>2, <3>2, Zenon DEF SendWindowOK
      <4> QED BY <1>1, <1>3, <1>5, <4>1
    <3> QED BY <1>8, <3>1, <3>2, Zenon
  <2>3. w.chunks_acked = Cardinality(Acked(w))
    BY <1>2, <1>5, <1>10, Zenon DEF SendWindowOK
  <2> QED BY <1>1, <1>3, <1>4, <1>5, <2>1, <2>2, <2>3, SMTT(20) DEF SendWindowOK
<1>12. SenderOK(w)
  <2>1. ASSUME w.base < w.next_seq
        PROVE  w.window[Idx(w.base)].state = "PKT_PENDING"
    <3>1. CASE s.base < s.next_seq
      <4>1. s.base \in s.base .. s.next_seq - 1
        BY <1>1, <3>1
      <4> QED BY <1>5, <1>7, <3>1, <4>1, Zenon DEF SenderOK
    <3>2. CASE s.base = s.next_seq
      <4>1. w.base \in sent
        BY <1>1, <1>3, <1>5, <2>1, <3>2
      <4> QED BY <1>6, <4>1, Zenon
    <3> QED BY <1>1, <1>4, <3>1, <3>2
  <2> QED BY <1>11, <2>1, Zenon DEF SenderOK
<1>13. ASSUME NEW p \in FirstPackets(s)
       PROVE  /\ p \in DataPacket(N)
              /\ p.ok
              /\ p.seq_num < w.next_seq
              /\ p.seq_num \notin Acked(w)
              /\ p.data = F[p.seq_num]
  <2>1. PICK n \in sent : p = build_data_packet(n, s.file_data[n])
    BY Zenon DEF FirstPackets, FirstSends, stop
  <2>2. p.seq_num = n /\ p.ok /\ p.data = F[n]
    BY <1>1, <2>1, Zenon DEF build_data_packet
  <2>3. p \in DataPacket(N)
    <3>1. n \in 0 .. N - 1
      BY <1>6, Zenon
    <3> QED BY <1>1, <2>1, <3>1, Zenon DEF DataPacket, build_data_packet
  <2>4. n \notin Acked(w)
    BY <1>1, <1>3, <1>4, <1>5, <1>6 DEF Acked
  <2> QED BY <1>1, <1>3, <1>5, <2>2, <2>3, <2>4
<1>14. ASSUME NEW n \in s.next_seq .. w.next_seq - 1
       PROVE  /\ w.window[Idx(n)].retries = 0
              /\ build_data_packet(n, F[n]) \in FirstPackets(s)
  <2>1. n \in sent
    BY <1>5, Zenon
  <2> QED BY <1>1, <1>6, <2>1, Zenon DEF FirstPackets, FirstSends, stop
<1> QED BY <1>1, <1>3, <1>5, <1>7, <1>9, <1>10, <1>12, <1>13, <1>14
           DEF WindowSent

\* The acknowledged chunks are finitely many.
LEMMA AckedFinite ==
  ASSUME NEW N \in Nat, NEW F \in [0 .. N - 1 -> Chunk],
         NEW s \in SenderType(F, N)
  PROVE  IsFiniteSet(Acked(s)) /\ Cardinality(Acked(s)) \in Nat
<1>1. Acked(s) \in SUBSET (0 .. N - 1)
  BY Zenon DEF Acked, SenderType
<1>2. IsFiniteSet(0 .. N - 1)
  BY FS_Interval
<1> QED BY <1>1, <1>2, FS_Subset, FS_CardinalityType, Zenon

\* Settling an entry adds that one chunk to the acknowledged ones.
LEMMA MarkAckedLemma ==
  ASSUME NEW N \in Nat, NEW F \in [0 .. N - 1 -> Chunk],
         NEW s \in SenderType(F, N), SendWindowOK(s),
         NEW ack \in Nat, AckInWindow(s, ack),
         NEW m, m = MarkAcked(s, ack)
  PROVE  /\ m \in SenderType(F, N)
         /\ SendWindowOK(m)
         /\ m.base = s.base
         /\ m.next_seq = s.next_seq
         /\ Acked(s) \subseteq Acked(m)
         /\ Acked(m) \subseteq Acked(s) \cup {ack}
         /\ \A n \in m.base .. m.next_seq - 1 :
              m.window[Idx(n)].state = "PKT_PENDING" =>
                n # ack /\ m.window[Idx(n)] = s.window[Idx(n)]
<1>1. CASE ~ AckHits(s, ack)
  <2>1. m = s
    BY <1>1, Zenon DEF MarkAcked
  <2>2. ASSUME NEW n \in s.base .. s.next_seq - 1,
               s.window[Idx(n)].state = "PKT_PENDING"
        PROVE  n # ack
    BY <1>1, <2>2, Zenon DEF AckHits, SendWindowOK
  <2> QED BY <2>1, <2>2, Zenon
<1>2. CASE AckHits(s, ack)
  <2> DEFINE k == Idx(ack)
             win == [s.window EXCEPT ![k].state = "PKT_ACKED"]
  <2>1. /\ s.base \in 0 .. N /\ s.next_seq \in 0 .. N
        /\ s.num_chunks = N /\ N \in Nat
        /\ WINDOW_SIZE \in Nat \ {0}
        /\ s.window \in [Slots -> SenderEntry] /\ s.chunks_acked \in Nat
        /\ s.base <= s.next_seq /\ s.next_seq <= s.base + WINDOW_SIZE
    BY WindowAssumption, Zenon DEF SenderType, SendWindowOK
  <2>2. k \in Slots /\ s.window[k] \in SenderEntry
    BY <2>1, IdxType, Zenon
  <2>3. ack \in s.base .. s.next_seq - 1
    <3>1. PICK n \in s.base .. s.next_seq - 1 : Idx(n) = k
      BY <1>2, <2>2, Zenon DEF SendWindowOK, AckHits
    <3>2. s.window[Idx(n)].seq_num = n
      BY Zenon DEF SendWindowOK
    <3> QED BY <1>2, <3>1, <3>2, Zenon DEF AckHits
  <2>4. /\ m = [s EXCEPT !.window = win, !.chunks_acked = s.chunks_acked + 1]
    BY <1>2, Zenon DEF MarkAcked, SenderType
  <2>5. win \in [Slots -> SenderEntry]
    BY <2>1, <2>2, Zenon DEF SenderEntry, PacketState
  <2>6. m \in SenderType(F, N)
    <3>1. s.chunks_acked + 1 \in Nat
      BY <2>1
    <3> HIDE DEF win
    <3> QED BY <2>4, <2>5, <3>1, Zenon DEF SenderType
  <2>7. /\ m.base = s.base /\ m.next_seq = s.next_seq
        /\ m.num_chunks = N /\ m.window = win
        /\ m.chunks_acked = s.chunks_acked + 1
    BY <2>1, <2>4, Zenon DEF SenderType
  <2>8. /\ win[k].state = "PKT_ACKED"
        /\ win[k].seq_num = s.window[k].seq_num
        /\ win[k].data = s.window[k].data
        /\ \A i \in Slots : i # k => win[i] = s.window[i]
    BY <2>1, <2>2, Zenon DEF SenderEntry
  <2> HIDE DEF win
  <2>9. ASSUME NEW n \in s.base .. s.next_seq - 1, n # ack
        PROVE  Idx(n) \in Slots /\ Idx(n) # k
    <3>1. n \in Nat /\ n < ack + WINDOW_SIZE /\ ack < n + WINDOW_SIZE
      BY <2>1, <2>3
    <3> QED BY <2>9, <3>1, IdxType, IdxInjective, Zenon
  <2>10. Acked(m) = Acked(s) \cup {ack}
    <3>1. ASSUME NEW n \in 0 .. N - 1, n # ack
          PROVE  n \in Acked(m) <=> n \in Acked(s)
      <4>1. CASE n \in s.base .. s.next_seq - 1
        BY <2>1, <2>7, <2>8, <2>9, <3>1, <4>1, Zenon DEF Acked
      <4>2. CASE n < s.base \/ n >= s.next_seq
        BY <2>1, <2>7, <4>2 DEF Acked
      <4> QED BY <2>1, <4>1, <4>2
    <3>2. ack \in Acked(m) /\ ack \in 0 .. N - 1
      BY <2>1, <2>3, <2>7, <2>8 DEF Acked
    <3> QED BY <2>1, <2>7, <3>1, <3>2, Zenon DEF Acked
  <2>11. ack \notin Acked(s)
    BY <1>2, <2>1, <2>3 DEF Acked, AckHits
  <2>12. m.chunks_acked = Cardinality(Acked(m))
    <3>1. Cardinality(Acked(m)) = Cardinality(Acked(s)) + 1
      BY <2>10, <2>11, AckedFinite, FS_AddElement, Zenon
    <3> QED BY <2>7, <3>1, Zenon DEF SendWindowOK
  <2>13. ASSUME NEW n \in m.base .. m.next_seq - 1
         PROVE  /\ m.window[Idx(n)].state # "PKT_EMPTY"
                /\ m.window[Idx(n)].seq_num = n
                /\ m.window[Idx(n)].data = F[n]
    <3>1. /\ s.window[Idx(n)].state # "PKT_EMPTY"
          /\ s.window[Idx(n)].seq_num = n
          /\ s.window[Idx(n)].data = F[n]
      BY <2>7, SenderParts DEF SendWindowOK
    <3>2. CASE n = ack
      BY <2>7, <2>8, <3>1, <3>2, Zenon
    <3>3. CASE n # ack
      BY <2>7, <2>8, <2>9, <3>1, <3>3, Zenon
    <3> QED BY <3>2, <3>3, Zenon
  <2>14. ASSUME NEW i \in Slots, m.window[i].state # "PKT_EMPTY"
         PROVE  \E n \in m.base .. m.next_seq - 1 : Idx(n) = i
    <3>1. s.window[i].state # "PKT_EMPTY"
      BY <1>2, <2>7, <2>8, <2>14, Zenon DEF AckHits
    <3> QED BY <2>7, <3>1, Zenon DEF SendWindowOK
  <2>15. SendWindowOK(m)
    BY <2>1, <2>6, SenderParts, <2>7, <2>12, <2>13, <2>14 DEF SendWindowOK
  <2>16. ASSUME NEW n \in m.base .. m.next_seq - 1,
                m.window[Idx(n)].state = "PKT_PENDING"
         PROVE  n # ack /\ m.window[Idx(n)] = s.window[Idx(n)]
    <3>1. n # ack
      BY <2>7, <2>8, <2>16, Zenon
    <3> QED BY <2>7, <2>8, <2>9, <3>1
  <2> QED BY <2>6, <2>7, <2>10, <2>15, <2>16, Zenon
<1> QED BY <1>1, <1>2, Zenon

\* Where the sliding loop stops: all before is acknowledged, and it stops at
\* the latest where the packets in flight end.
LEMMA SlideStopFacts ==
  ASSUME NEW N \in Nat, NEW F \in [0 .. N - 1 -> Chunk],
         NEW s \in SenderType(F, N), SendWindowOK(s)
  PROVE  /\ SlideStop(s) \in s.base .. s.next_seq
         /\ \A n \in s.base .. SlideStop(s) - 1 :
              s.window[Idx(n)].state = "PKT_ACKED"
         /\ SlideStop(s) < s.next_seq =>
              s.window[Idx(SlideStop(s))].state = "PKT_PENDING"
<1> DEFINE T == {n \in s.base .. s.num_chunks :
                   \/ n = s.num_chunks
                   \/ n = s.base + WINDOW_SIZE
                   \/ s.window[Idx(n)].state # "PKT_ACKED"}
           stop == SlideStop(s)
<1>1. /\ s.base \in 0 .. N /\ s.next_seq \in 0 .. N
      /\ s.num_chunks = N /\ N \in Nat
      /\ WINDOW_SIZE \in Nat \ {0}
      /\ s.window \in [Slots -> SenderEntry]
      /\ s.base <= s.next_seq /\ s.next_seq <= s.base + WINDOW_SIZE
  BY WindowAssumption, Zenon DEF SenderType, SendWindowOK
<1>2. T \in SUBSET Nat /\ N \in T
  BY <1>1
<1>3. stop \in T /\ \A y \in T : stop <= y
  BY <1>2, MinIsLeast, Zenon DEF SlideStop
<1>4. s.next_seq \in T
  <2>1. CASE s.next_seq = s.base + WINDOW_SIZE
    BY <1>1, <2>1
  <2>2. CASE s.next_seq < s.base + WINDOW_SIZE
    <3>1. Idx(s.next_seq) \in Slots
      BY <1>1, IdxType
    <3>2. ASSUME NEW n \in s.base .. s.next_seq - 1
          PROVE  Idx(n) # Idx(s.next_seq)
      <4>1. /\ n \in Nat /\ n # s.next_seq /\ s.next_seq \in Nat
            /\ n < s.next_seq + WINDOW_SIZE /\ s.next_seq < n + WINDOW_SIZE
        BY <1>1, <2>2
      <4> QED BY <4>1, IdxInjective, Zenon
    <3>3. s.window[Idx(s.next_seq)].state = "PKT_EMPTY"
      BY <3>1, <3>2, Zenon DEF SendWindowOK
    <3>4. s.next_seq \in s.base .. s.num_chunks
      BY <1>1
    <3> QED BY <3>3, <3>4, Zenon
  <2> QED BY <1>1, <2>1, <2>2, SMTT(20)
<1> HIDE DEF stop
<1>5. stop \in s.base .. s.next_seq
  BY <1>1, <1>3, <1>4
<1>6. ASSUME NEW n \in s.base .. stop - 1
      PROVE  s.window[Idx(n)].state = "PKT_ACKED"
  <2>1. n \notin T /\ n \in s.base .. s.num_chunks
    BY <1>1, <1>3, <1>5
  <2> QED BY <2>1, Zenon
<1>7. ASSUME stop < s.next_seq
      PROVE  s.window[Idx(stop)].state = "PKT_PENDING"
  <2>1. stop \in s.base .. s.next_seq - 1 /\ stop \in Nat
    BY <1>1, <1>5, <1>7
  <2>2. s.window[Idx(stop)].state # "PKT_ACKED"
    BY <1>1, <1>3, <2>1
  <2>3. s.window[Idx(stop)].state # "PKT_EMPTY"
    BY <2>1, Zenon DEF SendWindowOK
  <2>4. s.window[Idx(stop)] \in SenderEntry
    BY <1>1, <2>1, IdxType, Zenon
  <2> QED BY <2>2, <2>3, <2>4, Zenon DEF SenderEntry, PacketState
<1> QED BY <1>5, <1>6, <1>7, Zenon DEF stop

\* Sliding frees the slots behind the new base and forgets no acknowledgment.
LEMMA SlideLemma ==
  ASSUME NEW N \in Nat, NEW F \in [0 .. N - 1 -> Chunk],
         NEW s \in SenderType(F, N), SendWindowOK(s),
         NEW t, t = SlideSendWindow(s)
  PROVE  /\ t \in SenderType(F, N)
         /\ SenderOK(t)
         /\ s.base <= t.base
         /\ t.next_seq = s.next_seq
         /\ Acked(t) = Acked(s)
         /\ \A n \in t.base .. t.next_seq - 1 :
              t.window[Idx(n)] = s.window[Idx(n)]
<1> DEFINE stop == SlideStop(s)
           slid == s.base .. stop - 1
           win  == [i \in Slots |->
                      IF \E n \in slid : Idx(n) = i
                      THEN [s.window[i] EXCEPT !.state = "PKT_EMPTY"]
                      ELSE s.window[i]]
<1>1. /\ s.base \in 0 .. N /\ s.next_seq \in 0 .. N
      /\ s.num_chunks = N /\ N \in Nat
      /\ WINDOW_SIZE \in Nat \ {0}
      /\ s.window \in [Slots -> SenderEntry]
      /\ s.base <= s.next_seq /\ s.next_seq <= s.base + WINDOW_SIZE
  BY WindowAssumption, Zenon DEF SenderType, SendWindowOK
<1>2. /\ stop \in s.base .. s.next_seq
      /\ \A n \in slid : s.window[Idx(n)].state = "PKT_ACKED"
      /\ stop < s.next_seq => s.window[Idx(stop)].state = "PKT_PENDING"
  BY SlideStopFacts, Zenon
<1>3. t = [s EXCEPT !.base = stop, !.window = win]
  BY Zenon DEF SlideSendWindow
<1>4. win \in [Slots -> SenderEntry]
  BY <1>1, Zenon DEF SenderEntry, PacketState
<1> HIDE DEF stop
<1>5. t \in SenderType(F, N)
  <2>1. stop \in 0 .. N
    BY <1>1, <1>2
  <2> HIDE DEF win
  <2> QED BY <1>3, <1>4, <2>1, Zenon DEF SenderType
<1>6. /\ t.base = stop /\ t.next_seq = s.next_seq /\ t.window = win
      /\ t.num_chunks = N /\ t.chunks_acked = s.chunks_acked
  <2> HIDE DEF win
  <2> QED BY <1>1, <1>3, Zenon DEF SenderType
\* Slots ahead of the new base are untouched, slots behind it are free.
<1>7. ASSUME NEW n \in stop .. s.next_seq - 1
      PROVE  win[Idx(n)] = s.window[Idx(n)]
  <2>1. n \in Nat
    BY <1>1, <1>2
  <2>2. ASSUME NEW m \in slid
        PROVE  Idx(m) # Idx(n)
    <3>1. m \in Nat /\ m # n /\ m < n + WINDOW_SIZE /\ n < m + WINDOW_SIZE
      BY <1>1, <1>2
    <3> QED BY <2>1, <3>1, IdxInjective, Zenon
  <2> QED BY <2>1, <2>2, IdxType, Zenon
<1>8. ASSUME NEW i \in Slots, win[i].state # "PKT_EMPTY"
      PROVE  /\ ~ \E n \in slid : Idx(n) = i
             /\ win[i] = s.window[i]
  <2>1. s.window[i] \in SenderEntry
    BY <1>1, Zenon
  <2> QED BY <1>8, <2>1, Zenon DEF SenderEntry
<1> HIDE DEF win
<1>9. Acked(t) = Acked(s)
  <2>1. ASSUME NEW n \in 0 .. N - 1
        PROVE  n \in Acked(t) <=> n \in Acked(s)
    <3>1. CASE n < s.base
      BY <1>1, <1>2, <1>6, <3>1 DEF Acked
    <3>2. CASE n \in slid
      BY <1>1, <1>2, <1>6, <3>2 DEF Acked
    <3>3. CASE n \in stop .. s.next_seq - 1
      BY <1>1, <1>2, <1>6, <1>7, <3>3 DEF Acked
    <3>4. CASE n >= s.next_seq
      BY <1>1, <1>2, <1>6, <3>4 DEF Acked
    <3> QED BY <1>1, <1>2, <3>1, <3>2, <3>3, <3>4
  <2> QED BY <1>1, <1>6, <2>1, Zenon DEF Acked
<1>10. SendWindowOK(t)
  <2>1. ASSUME NEW n \in t.base .. t.next_seq - 1
        PROVE  /\ t.window[Idx(n)].state # "PKT_EMPTY"
               /\ t.window[Idx(n)].seq_num = n
               /\ t.window[Idx(n)].data = F[n]
    <3>1. n \in s.base .. s.next_seq - 1 /\ n \in stop .. s.next_seq - 1
      BY <1>1, <1>2, <1>6
    <3> QED BY <1>6, <1>7, <3>1, SenderParts DEF SendWindowOK
  <2>2. ASSUME NEW i \in Slots, t.window[i].state # "PKT_EMPTY"
        PROVE  \E n \in t.base .. t.next_seq - 1 : Idx(n) = i
    <3>1. s.window[i].state # "PKT_EMPTY" /\ ~ \E n \in slid : Idx(n) = i
      BY <1>6, <1>8, <2>2, Zenon
    <3>2. PICK n \in s.base .. s.next_seq - 1 : Idx(n) = i
      BY <3>1, Zenon DEF SendWindowOK
    <3>3. n \in stop .. s.next_seq - 1
      BY <1>1, <1>2, <3>1, <3>2
    <3> QED BY <1>6, <3>2, <3>3, Zenon
  <2>3. t.chunks_acked = Cardinality(Acked(t))
    BY <1>6, <1>9, Zenon DEF SendWindowOK
  <2>4. t.base <= t.next_seq /\ t.next_seq <= t.base + WINDOW_SIZE
    BY <1>1, <1>2, <1>6
  <2> QED BY <1>5, <2>1, <2>2, <2>3, <2>4, SenderParts DEF SendWindowOK
<1>11. SenderOK(t)
  <2>1. ASSUME t.base < t.next_seq
        PROVE  t.window[Idx(t.base)].state = "PKT_PENDING"
    <3>1. stop \in stop .. s.next_seq - 1
      BY <1>1, <1>2, <1>6, <2>1
    <3> QED BY <1>2, <1>6, <1>7, <2>1, <3>1, Zenon
  <2> QED BY <1>10, <2>1, Zenon DEF SenderOK
<1> QED BY <1>1, <1>2, <1>5, <1>6, <1>7, <1>9, <1>11

\* What is pending in t after the ACK k was pending in s, as it is now, and is
\* not k.
PendingKept(s, k, t) ==
  \A n \in t.base .. t.next_seq - 1 :
    t.window[Idx(n)].state = "PKT_PENDING" =>
      n # k /\ t.window[Idx(n)] = s.window[Idx(n)]

\* What sr_sender_handle_ack makes of it.
AckHandled(F, N, s, ack, t) ==
  /\ t \in SenderType(F, N)
  /\ SenderOK(t)
  /\ s.base <= t.base
  /\ t.next_seq = s.next_seq
  /\ Acked(s) \subseteq Acked(t)
  /\ Acked(t) \subseteq Acked(s) \cup {ack}
  /\ PendingKept(s, ack, t)

\* sr_sender_handle_ack acknowledges at most the chunk the ACK names.
LEMMA HandleAckLemma ==
  ASSUME NEW N \in Nat, NEW F \in [0 .. N - 1 -> Chunk],
         NEW s \in SenderType(F, N), SenderOK(s), NEW ack \in Nat,
         NEW t, t = sr_sender_handle_ack(s, ack)
  PROVE  AckHandled(F, N, s, ack, t)
<1>0. /\ s.base \in 0 .. N /\ s.next_seq \in 0 .. N
      /\ s.num_chunks = N /\ N \in Nat
      /\ WINDOW_SIZE \in Nat /\ s.next_seq <= s.base + WINDOW_SIZE
  BY WindowAssumption, Zenon DEF SenderType, SenderOK, SendWindowOK
<1>1. CASE ~ AckInWindow(s, ack)
  <2>1. t = s
    BY <1>1, Zenon DEF sr_sender_handle_ack
  <2>2. ack \notin s.base .. s.next_seq - 1
    BY <1>0, <1>1 DEF AckInWindow
  <2>3. PendingKept(s, ack, t)
    BY <1>0, <2>1, <2>2, Zenon DEF PendingKept
  <2> QED BY <1>0, <2>1, <2>3 DEF AckHandled
<1>2. CASE AckInWindow(s, ack)
  <2> DEFINE m == MarkAcked(s, ack)
  <2>1. /\ m \in SenderType(F, N) /\ SendWindowOK(m)
        /\ m.base = s.base /\ m.next_seq = s.next_seq
        /\ Acked(s) \subseteq Acked(m) /\ Acked(m) \subseteq Acked(s) \cup {ack}
        /\ \A n \in m.base .. m.next_seq - 1 :
             m.window[Idx(n)].state = "PKT_PENDING" =>
               n # ack /\ m.window[Idx(n)] = s.window[Idx(n)]
    BY <1>2, MarkAckedLemma DEF SenderOK
  <2>2. t = SlideSendWindow(m)
    BY <1>2, Zenon DEF sr_sender_handle_ack
  <2> HIDE DEF m
  <2>3. /\ t \in SenderType(F, N) /\ SenderOK(t)
        /\ m.base <= t.base /\ t.next_seq = m.next_seq /\ Acked(t) = Acked(m)
        /\ \A n \in t.base .. t.next_seq - 1 :
             t.window[Idx(n)] = m.window[Idx(n)]
    BY <2>1, <2>2, SlideLemma
  <2>4. \A n \in t.base .. t.next_seq - 1 : n \in m.base .. m.next_seq - 1
    BY <1>0, <2>1, <2>3 DEF SenderType
  <2>5. PendingKept(s, ack, t)
    BY <2>1, <2>3, <2>4, Zenon DEF PendingKept
  <2> QED BY <2>1, <2>3, <2>5, Zenon DEF AckHandled
<1> QED BY <1>1, <1>2, Zenon

\* What sr_sender_check_timeouts makes of it.
TimeoutsChecked(F, N, s, expired, t) ==
  /\ t \in SenderType(F, N)
  /\ SenderOK(t)
  /\ t.base = s.base
  /\ t.next_seq = s.next_seq
  /\ Acked(t) = Acked(s)
  /\ \A p \in RetransmittedPackets(s, expired) :
       /\ p \in DataPacket(N)
       /\ p.ok
       /\ p.seq_num < s.next_seq
       /\ p.seq_num \notin Acked(t)
       /\ p.data = F[p.seq_num]
  /\ \A n \in s.base .. s.next_seq - 1 :
       IF n \in Retransmits(s, expired)
       THEN /\ t.window[Idx(n)].retries = s.window[Idx(n)].retries + 1
            /\ build_data_packet(n, F[n])
                 \in RetransmittedPackets(s, expired)
       ELSE t.window[Idx(n)] = s.window[Idx(n)]

\* sr_sender_check_timeouts only counts retries; what it sends again is not
\* acknowledged.
LEMMA CheckTimeoutsLemma ==
  ASSUME NEW N \in Nat, NEW F \in [0 .. N - 1 -> Chunk],
         NEW s \in SenderType(F, N), SenderOK(s), NEW expired,
         NEW t, t = sr_sender_check_timeouts(s, expired)
  PROVE  TimeoutsChecked(F, N, s, expired, t)
<1> DEFINE sent == Retransmits(s, expired)
           win  == [i \in Slots |->
                      IF \E n \in sent : Idx(n) = i
                      THEN [s.window[i] EXCEPT !.retries = @ + 1]
                      ELSE s.window[i]]
<1>1. /\ s.base \in 0 .. N /\ s.next_seq \in 0 .. N
      /\ s.num_chunks = N /\ N \in Nat
      /\ MAX_RETRIES \in Nat
      /\ s.window \in [Slots -> SenderEntry]
  BY WindowAssumption, Zenon DEF SenderType
<1>2. ASSUME NEW n \in sent
      PROVE  /\ n \in s.base .. s.next_seq - 1
             /\ n \in Nat
             /\ Idx(n) \in Slots
             /\ s.window[Idx(n)].state = "PKT_PENDING"
             /\ s.window[Idx(n)].seq_num = n
             /\ s.window[Idx(n)].retries < MAX_RETRIES
  <2>1. /\ n \in s.base .. s.next_seq - 1
        /\ s.window[Idx(n)].state = "PKT_PENDING"
        /\ s.window[Idx(n)].seq_num = n
    BY Zenon DEF Retransmits, Due
  <2>2. n \in Nat
    BY <1>1, <2>1
  <2>3. Idx(n) \in Slots /\ s.window[Idx(n)] \in SenderEntry
    BY <1>1, <2>2, IdxType, Zenon
  <2>4. ~ Exhausted(s, n)
    BY <2>2 DEF Retransmits
  <2>5. s.window[Idx(n)].retries < MAX_RETRIES
    BY <1>1, <2>3, <2>4 DEF Exhausted, SenderEntry
  <2> QED BY <2>1, <2>2, <2>3, <2>5, Zenon
<1>3. t = [s EXCEPT !.window = win]
  BY Zenon DEF sr_sender_check_timeouts
<1> HIDE DEF sent
<1>4. ASSUME NEW i \in Slots
      PROVE  /\ win[i] \in SenderEntry
             /\ win[i].state = s.window[i].state
             /\ win[i].seq_num = s.window[i].seq_num
             /\ win[i].data = s.window[i].data
  <2>1. s.window[i] \in SenderEntry
    BY <1>1, Zenon
  <2>2. CASE \E n \in sent : Idx(n) = i
    <3>1. s.window[i].retries + 1 \in 0 .. MAX_RETRIES
      BY <1>1, <1>2, <2>1, <2>2 DEF SenderEntry
    <3>2. win[i] = [s.window[i] EXCEPT !.retries = s.window[i].retries + 1]
      BY <2>1, <2>2, Zenon DEF SenderEntry
    <3> QED BY <2>1, <3>1, <3>2, Zenon DEF SenderEntry
  <2>3. CASE ~ \E n \in sent : Idx(n) = i
    BY <2>1, <2>3, Zenon
  <2> QED BY <2>2, <2>3, Zenon
<1>5. win \in [Slots -> SenderEntry]
  BY <1>4, Zenon
<1> HIDE DEF win
<1>6. /\ t.base = s.base /\ t.next_seq = s.next_seq /\ t.window = win
      /\ t.num_chunks = N /\ t.chunks_acked = s.chunks_acked
      /\ t \in SenderType(F, N)
  BY <1>1, <1>3, <1>5, Zenon DEF SenderType
<1>7. \A n \in Nat : t.window[Idx(n)].state = s.window[Idx(n)].state
  BY <1>4, <1>6, IdxType, Zenon
<1>8. Acked(t) = Acked(s)
  BY <1>1, <1>6, <1>7 DEF Acked
<1>9. SenderOK(t)
  <2>1. ASSUME NEW n \in t.base .. t.next_seq - 1
        PROVE  /\ t.window[Idx(n)].state # "PKT_EMPTY"
               /\ t.window[Idx(n)].seq_num = n
               /\ t.window[Idx(n)].data = F[n]
    <3>1. n \in s.base .. s.next_seq - 1 /\ n \in Nat
      BY <1>1, <1>6
    <3> QED BY <1>4, <1>6, <3>1, IdxType, SenderParts DEF SenderOK, SendWindowOK
  <2>2. SendWindowOK(t)
    BY <1>4, <1>6, <1>8, <2>1, SenderParts DEF SenderOK, SendWindowOK
  <2> QED BY <1>1, <1>6, <1>7, <2>2 DEF SenderOK
<1>10. ASSUME NEW p \in RetransmittedPackets(s, expired)
       PROVE  /\ p \in DataPacket(N)
              /\ p.ok
              /\ p.seq_num < s.next_seq
              /\ p.seq_num \notin Acked(t)
              /\ p.data = F[p.seq_num]
  <2>1. PICK n \in sent : p = build_data_packet(s.window[Idx(n)].seq_num,
                                                s.window[Idx(n)].data)
    BY Zenon DEF RetransmittedPackets, sent
  <2>2. /\ n \in s.base .. s.next_seq - 1 /\ n \in 0 .. N - 1
        /\ s.window[Idx(n)].seq_num = n
        /\ s.window[Idx(n)].state = "PKT_PENDING"
    BY <1>1, <1>2
  <2>3. s.window[Idx(n)].data = F[n]
    BY <2>2, SenderParts DEF SenderOK, SendWindowOK
  <2>4. p = [seq_num |-> n, data |-> F[n], ok |-> TRUE]
    BY <2>1, <2>2, <2>3, Zenon DEF build_data_packet
  <2>5. p \in DataPacket(N)
    BY <2>2, <2>4, Zenon DEF DataPacket
  <2>6. n \notin Acked(t)
    BY <1>1, <1>8, <2>2 DEF Acked
  <2> QED BY <1>1, <2>2, <2>4, <2>5, <2>6
<1>11. ASSUME NEW n \in s.base .. s.next_seq - 1
       PROVE  IF n \in sent
              THEN /\ t.window[Idx(n)].retries = s.window[Idx(n)].retries + 1
                   /\ build_data_packet(n, F[n])
                        \in RetransmittedPackets(s, expired)
              ELSE t.window[Idx(n)] = s.window[Idx(n)]
  <2>1. /\ n \in Nat /\ Idx(n) \in Slots
        /\ s.window[Idx(n)] \in SenderEntry
        /\ s.window[Idx(n)].seq_num = n /\ s.window[Idx(n)].data = F[n]
    BY <1>1, IdxType, SenderParts DEF SenderOK, SendWindowOK
  <2>2. CASE n \in sent
    <3>1. win[Idx(n)] = [s.window[Idx(n)] EXCEPT !.retries = @ + 1]
      BY <2>1, <2>2, Zenon DEF win
    <3>2. build_data_packet(n, F[n]) \in RetransmittedPackets(s, expired)
      BY <2>1, <2>2, Zenon DEF RetransmittedPackets, sent
    <3> QED BY <1>6, <2>1, <2>2, <3>1, <3>2, Zenon DEF SenderEntry
  <2>3. CASE n \notin sent
    <3>1. ASSUME NEW m \in sent
          PROVE  Idx(m) # Idx(n)
      <4>1. m \in s.base .. s.next_seq - 1 /\ m \in Nat
        BY <1>2, Zenon
      <4>2. s.next_seq <= s.base + WINDOW_SIZE /\ WINDOW_SIZE \in Nat
        BY WindowAssumption, Zenon DEF SenderOK, SendWindowOK
      <4>3. m # n /\ m < n + WINDOW_SIZE /\ n < m + WINDOW_SIZE
        BY <1>1, <2>3, <4>1, <4>2
      <4> QED BY <2>1, <4>1, <4>3, IdxInjective, Zenon
    <3> QED BY <1>6, <2>1, <2>3, <3>1 DEF win
  <2> QED BY <2>2, <2>3, Zenon
<1> QED BY <1>6, <1>8, <1>9, <1>10, <1>11, Zenon DEF sent, TimeoutsChecked

-----------------------------------------------------------------------------
(* Receiver *)

\* A receiver knows the length of its file.
LEMMA ReceiverParts ==
  ASSUME NEW N, NEW r \in ReceiverType(N)
  PROVE  r.num_chunks = N
BY Zenon DEF ReceiverType

\* The chunks the receiver has are finitely many.
LEMMA HeldFinite ==
  ASSUME NEW N \in Nat, NEW r \in ReceiverType(N)
  PROVE  IsFiniteSet(Held(r)) /\ Cardinality(Held(r)) \in Nat
<1>1. Held(r) \in SUBSET (0 .. N - 1)
  BY Zenon DEF Held, ReceiverType
<1>2. IsFiniteSet(0 .. N - 1)
  BY FS_Interval
<1> QED BY <1>1, <1>2, FS_Subset, FS_CardinalityType, Zenon

\* A slot that is taken, and is the slot of a number of the window, holds the
\* packet of that number.
LEMMA SlotHoldsOwn ==
  ASSUME NEW N \in Nat, NEW F \in [0 .. N - 1 -> Chunk],
         NEW r \in ReceiverType(N), RecvWindowOK(r, F),
         NEW n \in r.base .. r.base + WINDOW_SIZE - 1,
         r.window[Idx(n)].received
  PROVE  /\ r.window[Idx(n)].seq_num = n
         /\ r.window[Idx(n)].data = F[n]
         /\ n < N
<1> DEFINE m == r.window[Idx(n)].seq_num
<1>1. n \in Nat /\ WINDOW_SIZE \in Nat \ {0} /\ r.base \in Nat
  BY WindowAssumption DEF ReceiverType
<1>2. /\ m \in r.base .. r.base + WINDOW_SIZE - 1
      /\ m < N /\ Idx(m) = Idx(n)
      /\ r.window[Idx(n)].data = F[m]
  BY <1>1, IdxType, ReceiverParts, Zenon DEF RecvWindowOK
<1> HIDE DEF m
<1>3. m \in Nat /\ m < n + WINDOW_SIZE /\ n < m + WINDOW_SIZE
  BY <1>1, <1>2
<1>4. m = n
  BY <1>1, <1>2, <1>3, IdxInjective, Zenon
<1> QED BY <1>2, <1>4, Zenon DEF m

\* Buffering adds the packet's chunk to those the receiver has.
LEMMA BufferLemma ==
  ASSUME NEW N \in Nat, NEW F \in [0 .. N - 1 -> Chunk],
         NEW r \in ReceiverType(N), RecvWindowOK(r, F),
         NEW p \in DataPacket(N), p.data = F[p.seq_num],
         r.base <= p.seq_num, p.seq_num < r.base + WINDOW_SIZE,
         NEW b, b = BufferData(r, p)
  PROVE  /\ b \in ReceiverType(N)
         /\ RecvWindowOK(b, F)
         /\ b.base = r.base
         /\ b.file_buffer = r.file_buffer
         /\ Held(b) = Held(r) \cup {p.seq_num}
<1> DEFINE q == p.seq_num
           k == Idx(q)
           e == [received |-> TRUE, seq_num |-> q, data |-> p.data]
           win == [r.window EXCEPT ![k] = e]
<1>1. /\ r.base \in 0 .. N /\ r.num_chunks = N
      /\ N \in Nat /\ WINDOW_SIZE \in Nat \ {0}
      /\ r.window \in [Slots -> ReceiverEntry] /\ r.chunks_received \in Nat
  BY WindowAssumption, Zenon DEF ReceiverType
<1>2. q \in 0 .. N - 1 /\ q \in Nat /\ p.data \in Chunk
  BY <1>1 DEF DataPacket
<1>3. k \in Slots
  BY <1>2, IdxType, Zenon
<1>4. q \in r.base .. r.base + WINDOW_SIZE - 1
  BY <1>1, <1>2
<1>5. CASE r.window[k].received
  <2>1. r.window[k].seq_num = q
    BY <1>4, <1>5, SlotHoldsOwn
  <2>2. q \in Held(r)
    BY <1>1, <1>2, <1>5, <2>1, Zenon DEF Held
  <2>3. b = r
    BY <1>5, Zenon DEF BufferData
  <2> QED BY <2>2, <2>3, Zenon
<1>6. CASE ~ r.window[k].received
  <2>1. b = [r EXCEPT !.window = win,
                      !.chunks_received = r.chunks_received + 1]
    BY <1>6, Zenon DEF BufferData, ReceiverType
  <2>2. win \in [Slots -> ReceiverEntry]
    BY <1>1, <1>2, <1>3, Zenon DEF ReceiverEntry
  <2>3. b \in ReceiverType(N)
    <3>1. r.chunks_received + 1 \in Nat
      BY <1>1
    <3> HIDE DEF win
    <3> QED BY <2>1, <2>2, <3>1, Zenon DEF ReceiverType
  <2>4. /\ win[k].received /\ win[k].seq_num = q /\ win[k].data = F[q]
        /\ \A i \in Slots : i # k => win[i] = r.window[i]
    BY <1>1, <1>3, Zenon
  <2> HIDE DEF win
  <2>5. /\ b.base = r.base /\ b.num_chunks = N /\ b.window = win
        /\ b.chunks_received = r.chunks_received + 1
        /\ b.file_buffer = r.file_buffer
    BY <1>1, <2>1, Zenon DEF ReceiverType
  <2>6. q \notin Held(r)
    BY <1>1, <1>2, <1>6 DEF Held
  <2>7. Held(b) = Held(r) \cup {q}
    <3>1. ASSUME NEW n \in 0 .. N - 1, n # q
          PROVE  n \in Held(b) <=> n \in Held(r)
      <4>1. Idx(n) \in Slots
        BY <1>1, IdxType
      <4>2. CASE Idx(n) = k
        BY <1>1, <1>6, <2>4, <2>5, <3>1, <4>2, Zenon DEF Held
      <4>3. CASE Idx(n) # k
        BY <1>1, <2>4, <2>5, <4>1, <4>3, Zenon DEF Held
      <4> QED BY <4>2, <4>3, Zenon
    <3>2. q \in Held(b)
      BY <1>2, <2>4, <2>5, Zenon DEF Held
    <3> QED BY <1>1, <1>2, <2>5, <3>1, <3>2, Zenon DEF Held
  <2>8. b.chunks_received = Cardinality(Held(b))
    <3>1. Cardinality(Held(b)) = Cardinality(Held(r)) + 1
      BY <2>6, <2>7, HeldFinite, FS_AddElement, Zenon
    <3> QED BY <2>5, <3>1, Zenon DEF RecvWindowOK
  <2>9. ASSUME NEW i \in Slots, b.window[i].received
        PROVE  /\ b.window[i].seq_num \in b.base .. b.base + WINDOW_SIZE - 1
               /\ b.window[i].seq_num < N
               /\ Idx(b.window[i].seq_num) = i
               /\ b.window[i].data = F[b.window[i].seq_num]
    <3>1. CASE i = k
      BY <1>1, <1>2, <1>4, <2>4, <2>5, <3>1
    <3>2. CASE i # k
      BY <2>4, <2>5, <2>9, <3>2, ReceiverParts DEF RecvWindowOK
    <3> QED BY <3>1, <3>2, Zenon
  <2>10. RecvWindowOK(b, F)
    BY <2>5, <2>8, <2>9, Zenon DEF RecvWindowOK
  <2> QED BY <2>3, <2>5, <2>7, <2>10, Zenon
<1> QED BY <1>5, <1>6, Zenon

\* Where the delivery loop stops: all before is buffered.
LEMMA DeliverStopFacts ==
  ASSUME NEW N \in Nat, NEW r \in ReceiverType(N)
  PROVE  /\ DeliverStop(r) \in r.base .. N
         /\ DeliverStop(r) <= r.base + WINDOW_SIZE
         /\ \A n \in r.base .. DeliverStop(r) - 1 : r.window[Idx(n)].received
         /\ \/ DeliverStop(r) = N
            \/ DeliverStop(r) = r.base + WINDOW_SIZE
            \/ ~ r.window[Idx(DeliverStop(r))].received
<1> DEFINE T == {n \in r.base .. r.num_chunks :
                   \/ n = r.num_chunks
                   \/ n = r.base + WINDOW_SIZE
                   \/ ~ r.window[Idx(n)].received}
           stop == DeliverStop(r)
<1>1. /\ r.base \in 0 .. N /\ r.num_chunks = N
      /\ N \in Nat /\ WINDOW_SIZE \in Nat \ {0}
  BY WindowAssumption, Zenon DEF ReceiverType
<1>2. T \in SUBSET Nat /\ N \in T
  BY <1>1
<1>3. stop \in T /\ \A y \in T : stop <= y
  BY <1>2, MinIsLeast, Zenon DEF DeliverStop
<1> HIDE DEF stop
<1>4. stop \in r.base .. N
  BY <1>1, <1>3, Zenon
<1>5. stop <= r.base + WINDOW_SIZE
  <2>1. CASE r.base + WINDOW_SIZE <= N
    <3>1. r.base + WINDOW_SIZE \in T
      BY <1>1, <2>1
    <3> QED BY <1>3, <3>1, Zenon
  <2>2. CASE N < r.base + WINDOW_SIZE
    BY <1>1, <1>4, <2>2
  <2> QED BY <1>1, <2>1, <2>2
<1>6. ASSUME NEW n \in r.base .. stop - 1
      PROVE  r.window[Idx(n)].received
  <2>1. n \notin T /\ n \in r.base .. r.num_chunks
    BY <1>1, <1>3, <1>4
  <2> QED BY <2>1, Zenon
<1> QED BY <1>1, <1>3, <1>4, <1>5, <1>6, Zenon DEF stop

\* Delivery extends the correct prefix and loses no chunk.
LEMMA DeliverLemma ==
  ASSUME NEW N \in Nat, NEW F \in [0 .. N - 1 -> Chunk],
         NEW r \in ReceiverType(N), RecvWindowOK(r, F),
         NEW t, t = DeliverInOrder(r)
  PROVE  /\ t \in ReceiverType(N)
         /\ ReceiverOK(t, F)
         /\ r.base <= t.base
         /\ \A i \in 0 .. r.base - 1 : t.file_buffer[i] = r.file_buffer[i]
         /\ Held(t) = Held(r)
<1> DEFINE stop == DeliverStop(r)
           slid == r.base .. stop - 1
           buf  == [i \in DOMAIN r.file_buffer |->
                      IF i \in slid THEN r.window[Idx(i)].data
                                    ELSE r.file_buffer[i]]
           win  == [i \in Slots |->
                      IF \E n \in slid : Idx(n) = i
                      THEN [r.window[i] EXCEPT !.received = FALSE]
                      ELSE r.window[i]]
<1>1. /\ r.base \in 0 .. N /\ r.num_chunks = N
      /\ N \in Nat /\ WINDOW_SIZE \in Nat \ {0}
      /\ r.window \in [Slots -> ReceiverEntry]
      /\ r.file_buffer \in [0 .. N - 1 -> Chunk \cup {NoData}]
      /\ F \in [0 .. N - 1 -> Chunk]
  BY WindowAssumption, Zenon DEF ReceiverType
<1>2. /\ stop \in r.base .. N
      /\ stop <= r.base + WINDOW_SIZE
      /\ \A n \in slid : r.window[Idx(n)].received
      /\ \/ stop = N
         \/ stop = r.base + WINDOW_SIZE
         \/ ~ r.window[Idx(stop)].received
  BY DeliverStopFacts, Zenon
<1>3. t = [r EXCEPT !.base = stop, !.file_buffer = buf, !.window = win]
  BY Zenon DEF DeliverInOrder
<1> HIDE DEF stop
<1>4. ASSUME NEW n \in slid
      PROVE  /\ n \in 0 .. N - 1
             /\ Idx(n) \in Slots
             /\ r.window[Idx(n)].seq_num = n
             /\ r.window[Idx(n)].data = F[n]
  <2>1. n \in r.base .. r.base + WINDOW_SIZE - 1 /\ n \in Nat
    BY <1>1, <1>2
  <2>2. /\ r.window[Idx(n)].seq_num = n
        /\ r.window[Idx(n)].data = F[n]
    BY <1>2, <2>1, SlotHoldsOwn
  <2> QED BY <1>1, <1>2, <2>1, <2>2, IdxType
<1>5. ASSUME NEW i \in 0 .. N - 1
      PROVE  /\ i \in slid => buf[i] = F[i]
             /\ i \notin slid => buf[i] = r.file_buffer[i]
  BY <1>1, <1>4, Zenon
<1>6. buf \in [0 .. N - 1 -> Chunk \cup {NoData}]
  <2>1. \A i \in 0 .. N - 1 : buf[i] \in Chunk \cup {NoData}
    BY <1>1, <1>5, Zenon
  <2> QED BY <1>1, <2>1, Zenon
<1>7. win \in [Slots -> ReceiverEntry]
  BY <1>1, Zenon DEF ReceiverEntry
<1>8. ASSUME NEW i \in Slots
      PROVE  /\ (\E n \in slid : Idx(n) = i) => ~ win[i].received
             /\ (~ \E n \in slid : Idx(n) = i) => win[i] = r.window[i]
  BY <1>1, Zenon DEF ReceiverEntry
<1> HIDE DEF buf, win
<1>9. /\ t.base = stop /\ t.num_chunks = N /\ t.window = win
      /\ t.file_buffer = buf /\ t.chunks_received = r.chunks_received
  BY <1>1, <1>3, Zenon DEF ReceiverType
<1>10. t \in ReceiverType(N)
  <2>1. stop \in 0 .. N
    BY <1>1, <1>2
  <2> QED BY <1>3, <1>6, <1>7, <2>1, Zenon DEF ReceiverType
<1>11. Held(t) = Held(r)
  <2>1. ASSUME NEW n \in 0 .. N - 1
        PROVE  n \in Held(t) <=> n \in Held(r)
    <3>1. CASE n < r.base
      BY <1>1, <1>2, <1>9, <3>1 DEF Held
    <3>2. CASE n \in slid
      BY <1>1, <1>2, <1>4, <1>9, <3>2 DEF Held
    <3>3. CASE n >= stop
      <4>1. Idx(n) \in Slots
        BY <1>1, IdxType
      <4>2. CASE \E m \in slid : Idx(m) = Idx(n)
        <5>1. PICK m \in slid : Idx(m) = Idx(n)
          BY <4>2, Zenon
        <5>2. m # n /\ r.window[Idx(n)].seq_num = m
          BY <1>1, <1>2, <1>4, <3>3, <5>1
        <5>3. ~ t.window[Idx(n)].received
          BY <1>8, <1>9, <4>1, <4>2, Zenon
        <5> QED BY <1>1, <1>2, <1>9, <3>3, <5>2, <5>3 DEF Held
      <4>3. CASE ~ \E m \in slid : Idx(m) = Idx(n)
        <5>1. t.window[Idx(n)] = r.window[Idx(n)]
          BY <1>8, <1>9, <4>1, <4>3, Zenon
        <5> QED BY <1>1, <1>2, <1>9, <3>3, <5>1 DEF Held
      <4> QED BY <4>2, <4>3, Zenon
    <3> QED BY <1>1, <1>2, <3>1, <3>2, <3>3
  <2> QED BY <1>1, <1>9, <2>1, Zenon DEF Held
<1>12. ASSUME NEW i \in Slots, t.window[i].received
       PROVE  /\ ~ \E n \in slid : Idx(n) = i
              /\ r.window[i].received
              /\ t.window[i] = r.window[i]
  BY <1>8, <1>9, <1>12, Zenon
<1>13. RecvWindowOK(t, F)
  <2>1. ASSUME NEW i \in Slots, t.window[i].received
        PROVE  /\ t.window[i].seq_num \in t.base .. t.base + WINDOW_SIZE - 1
               /\ t.window[i].seq_num < N
               /\ Idx(t.window[i].seq_num) = i
               /\ t.window[i].data = F[t.window[i].seq_num]
    <3>1. /\ ~ \E n \in slid : Idx(n) = i
          /\ r.window[i].received
          /\ t.window[i] = r.window[i]
      BY <1>12, <2>1, Zenon
    <3>2. /\ r.window[i].seq_num \in r.base .. r.base + WINDOW_SIZE - 1
          /\ r.window[i].seq_num < N
          /\ Idx(r.window[i].seq_num) = i
          /\ r.window[i].data = F[r.window[i].seq_num]
      BY <3>1, ReceiverParts, Zenon DEF RecvWindowOK
    <3>3. r.window[i].seq_num \notin slid
      BY <3>1, <3>2, Zenon
    <3> QED BY <1>1, <1>2, <1>9, <3>1, <3>2, <3>3, SMTT(20)
  <2>2. ASSUME NEW i \in 0 .. t.base - 1
        PROVE  t.file_buffer[i] = F[i]
    <3>1. i \in 0 .. N - 1 /\ (i \in slid \/ i \in 0 .. r.base - 1)
      BY <1>1, <1>2, <1>9
    <3>2. CASE i \in slid
      BY <1>5, <1>9, <3>1, <3>2, Zenon
    <3>3. CASE i \in 0 .. r.base - 1 /\ i \notin slid
      BY <1>5, <1>9, <3>1, <3>3, Zenon DEF RecvWindowOK
    <3> QED BY <3>1, <3>2, <3>3, Zenon
  <2>3. t.chunks_received = Cardinality(Held(t))
    BY <1>9, <1>11, Zenon DEF RecvWindowOK
  <2> QED BY <1>9, <2>1, <2>2, <2>3, Zenon DEF RecvWindowOK
<1>14. ReceiverOK(t, F)
  <2>1. ASSUME t.base < N, t.window[Idx(t.base)].received
        PROVE  FALSE
    <3>1. Idx(stop) \in Slots
      BY <1>1, <1>2, IdxType
    <3>2. /\ ~ \E n \in slid : Idx(n) = Idx(stop)
          /\ r.window[Idx(stop)].received
      BY <1>9, <1>12, <2>1, <3>1, Zenon
    <3>3. stop = r.base + WINDOW_SIZE
      BY <1>1, <1>2, <1>9, <2>1, <3>2
    <3>4. /\ r.window[Idx(stop)].seq_num \in r.base .. r.base + WINDOW_SIZE - 1
          /\ Idx(r.window[Idx(stop)].seq_num) = Idx(stop)
      BY <3>1, <3>2, Zenon DEF RecvWindowOK
    <3>5. r.window[Idx(stop)].seq_num \in slid
      BY <1>1, <3>3, <3>4
    <3> QED BY <3>2, <3>4, <3>5, Zenon
  <2> QED BY <1>9, <1>13, <2>1, Zenon DEF ReceiverOK
<1>15. ASSUME NEW i \in 0 .. r.base - 1
       PROVE  t.file_buffer[i] = r.file_buffer[i]
  BY <1>1, <1>5, <1>9
<1> QED BY <1>1, <1>2, <1>9, <1>10, <1>11, <1>14, <1>15

\* What sr_receiver_handle_data makes of the receiver r of the file F.
DataHandled(F, N, r, p, t) ==
  /\ t \in ReceiverType(N)
  /\ ReceiverOK(t, F)
  /\ r.base <= t.base
  /\ \A i \in 0 .. r.base - 1 : t.file_buffer[i] = r.file_buffer[i]
  /\ Held(r) \subseteq Held(t)
  /\ Held(t) \subseteq Held(r) \cup {p.seq_num}
  /\ DataAcked(r, p) => p.seq_num \in Held(t)

\* sr_receiver_handle_data: a packet that is acknowledged is held afterwards,
\* and nothing else changes hands.
LEMMA HandleDataLemma ==
  ASSUME NEW N \in Nat, NEW F \in [0 .. N - 1 -> Chunk],
         NEW r \in ReceiverType(N), ReceiverOK(r, F),
         NEW p \in DataPacket(N), p.ok => p.data = F[p.seq_num],
         NEW t, t = sr_receiver_handle_data(r, p)
  PROVE  DataHandled(F, N, r, p, t)
<1>1. /\ r.base \in 0 .. N /\ r.num_chunks = N
      /\ N \in Nat /\ p.seq_num \in 0 .. N - 1
  BY Zenon DEF ReceiverType, DataPacket
<1>2. CASE DataAcked(r, p) /\ p.seq_num >= r.base
  <2> DEFINE b == BufferData(r, p)
  <2>1. /\ p.data = F[p.seq_num]
        /\ r.base <= p.seq_num /\ p.seq_num < r.base + WINDOW_SIZE
        /\ RecvWindowOK(r, F)
    BY <1>1, <1>2, Zenon DEF DataAcked, ReceiverOK
  <2>2. /\ b \in ReceiverType(N) /\ RecvWindowOK(b, F)
        /\ b.base = r.base /\ b.file_buffer = r.file_buffer
        /\ Held(b) = Held(r) \cup {p.seq_num}
    BY <2>1, BufferLemma
  <2>3. t = DeliverInOrder(b)
    BY <1>2, Zenon DEF sr_receiver_handle_data
  <2> HIDE DEF b
  <2>4. /\ t \in ReceiverType(N)
        /\ ReceiverOK(t, F)
        /\ b.base <= t.base
        /\ \A i \in 0 .. b.base - 1 : t.file_buffer[i] = b.file_buffer[i]
        /\ Held(t) = Held(b)
    BY <2>2, <2>3, DeliverLemma, ZenonT(30)
  <2> QED BY <2>2, <2>4, Zenon DEF DataHandled
<1>3. CASE ~ (DataAcked(r, p) /\ p.seq_num >= r.base)
  <2>1. t = r
    BY <1>3, Zenon DEF sr_receiver_handle_data
  <2>2. DataAcked(r, p) => p.seq_num \in Held(r)
    BY <1>1, <1>3 DEF Held
  <2> QED BY <1>1, <2>1, <2>2 DEF DataHandled
<1> QED BY <1>2, <1>3, Zenon

\* A chunk the receiver does not have may as well be another one.
LEMMA OtherFileLemma ==
  ASSUME NEW N \in Nat, NEW F \in [0 .. N - 1 -> Chunk],
         NEW r \in ReceiverType(N), ReceiverOK(r, F),
         NEW n, n \notin Held(r),
         NEW G, \A m \in 0 .. N - 1 : m # n => G[m] = F[m]
  PROVE  ReceiverOK(r, G) /\ \A m \in Held(r) : G[m] = F[m]
<1>2. Held(r) \subseteq 0 .. N - 1
  BY ReceiverParts, Zenon DEF Held
<1>3. \A m \in Held(r) : G[m] = F[m]
  BY <1>2, Zenon
<1>4. RecvWindowOK(r, F)
  BY Zenon DEF ReceiverOK
<1>5. ASSUME NEW i \in Slots, r.window[i].received
      PROVE  r.window[i].data = G[r.window[i].seq_num]
  <2> DEFINE m == r.window[i].seq_num
  <2>1. /\ m \in r.base .. r.base + WINDOW_SIZE - 1 /\ m < N
        /\ Idx(m) = i /\ r.window[i].data = F[m]
    BY <1>4, <1>5, ReceiverParts, Zenon DEF RecvWindowOK
  <2>2. r.base \in Nat
    BY DEF ReceiverType
  <2> HIDE DEF m
  <2>3. m \in 0 .. N - 1
    BY <2>1, <2>2, WindowAssumption
  <2>4. r.window[Idx(m)].received /\ r.window[Idx(m)].seq_num = m
    BY <1>5, <2>1, Zenon DEF m
  <2>5. m \in Held(r)
    BY <2>3, <2>4, ReceiverParts, Zenon DEF Held
  <2> QED BY <1>3, <2>1, <2>5, Zenon DEF m
<1>6. ASSUME NEW i \in 0 .. r.base - 1
      PROVE  r.file_buffer[i] = G[i]
  <2>1. i \in 0 .. N - 1 /\ i < r.base
    BY DEF ReceiverType
  <2>2. i \in Held(r)
    BY <2>1, ReceiverParts, Zenon DEF Held
  <2> QED BY <1>3, <1>4, <2>2, Zenon DEF RecvWindowOK
<1>7. RecvWindowOK(r, G)
  BY <1>4, <1>5, <1>6, Zenon DEF RecvWindowOK
<1> QED BY <1>3, <1>7, Zenon DEF ReceiverOK

\* What sr_receiver_handle_data makes of any packet, whatever chunk it carries:
\* the receiver is in order for a file that agrees with the former one on what
\* it held, and a chunk it did not hold is the one the packet carries.
AnyDataHandled(F, N, r, p, t) ==
  \E G \in [0 .. N - 1 -> Chunk] :
    /\ DataHandled(G, N, r, p, t)
    /\ \A n \in Held(r) : G[n] = F[n]
    /\ \A n \in Held(t) \ Held(r) : p.ok /\ p.seq_num = n /\ G[n] = p.data

\* sr_receiver_handle_data, without the assumption that the packet carries the
\* chunk it names.
LEMMA AnyDataLemma ==
  ASSUME NEW N \in Nat, NEW F \in [0 .. N - 1 -> Chunk],
         NEW r \in ReceiverType(N), ReceiverOK(r, F),
         NEW p \in DataPacket(N),
         NEW t, t = sr_receiver_handle_data(r, p)
  PROVE  AnyDataHandled(F, N, r, p, t)
<1> DEFINE k == p.seq_num
<1>1. k \in 0 .. N - 1 /\ p.data \in Chunk /\ p.ok \in BOOLEAN
  BY Zenon DEF DataPacket
<1>2. CASE k \notin Held(r)
  <2>a. PICK G : G = [F EXCEPT ![k] = p.data]
    BY Zenon
  <2>1. G \in [0 .. N - 1 -> Chunk] /\ G[k] = p.data
    BY <1>1, <2>a, Zenon
  <2>2. ReceiverOK(r, G) /\ \A n \in Held(r) : G[n] = F[n]
    <3>1. \A m \in 0 .. N - 1 : m # k => G[m] = F[m]
      BY <2>a, Zenon
    <3> QED BY <1>2, <3>1, OtherFileLemma
  <2>3. DataHandled(G, N, r, p, t)
    BY <2>1, <2>2, HandleDataLemma, Zenon
  <2>4. ~ p.ok => t = r
    BY Zenon DEF sr_receiver_handle_data, DataAcked
  <2>5. Held(t) \subseteq Held(r) \cup {k}
    BY <2>3, Zenon DEF DataHandled
  <2> QED BY <2>1, <2>2, <2>3, <2>4, <2>5, Zenon DEF AnyDataHandled
<1>3. CASE k \in Held(r)
  <2> DEFINE q == [p EXCEPT !.data = F[k]]
  <2>1. q \in DataPacket(N) /\ q.seq_num = k /\ q.data = F[k] /\ q.ok = p.ok
    BY <1>1, Zenon DEF DataPacket
  <2> HIDE DEF q
  <2>2. DataAcked(r, q) <=> DataAcked(r, p)
    BY <2>1, Zenon DEF DataAcked
  <2>3. k < r.base \/ r.window[Idx(k)].received
    BY <1>3, Zenon DEF Held
  <2>4. k >= r.base => r.window[Idx(k)].received
    BY <1>1, <2>3 DEF ReceiverType
  <2>5. k >= r.base => BufferData(r, p) = BufferData(r, q)
    BY <2>1, <2>4, Zenon DEF BufferData
  <2>6. t = sr_receiver_handle_data(r, q)
    BY <2>1, <2>2, <2>5, Zenon DEF sr_receiver_handle_data
  <2>7. DataHandled(F, N, r, q, t)
    BY <2>1, <2>6, HandleDataLemma, Zenon
  <2>8. DataHandled(F, N, r, p, t)
    BY <2>1, <2>2, <2>7, Zenon DEF DataHandled
  <2>9. Held(t) \subseteq Held(r)
    BY <1>3, <2>8, Zenon DEF DataHandled
  <2> QED BY <2>8, <2>9, Zenon DEF AnyDataHandled
<1> QED BY <1>2, <1>3, Zenon
=============================================================================
