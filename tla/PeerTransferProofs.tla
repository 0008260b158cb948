------------------------ MODULE PeerTransferProofs --------------------------
(***************************************************************************)
(* Theorems about PeerTransfer, for any number of clients, files, gets and *)
(* faults: its types, the soundness of global_sender whatever ACKs arrive, *)
(* and that get saves only what the directory listed.                      *)
(***************************************************************************)
EXTENDS PeerTransfer, SRWindowProofs, SequenceTheorems

-----------------------------------------------------------------------------
(* Numbers in order *)

\* In a finite set of numbers every rank below its size is taken.
LEMMA RankTaken ==
  ASSUME NEW n \in Nat, NEW K \in SUBSET (0 .. n - 1),
         NEW i \in 1 .. Cardinality(K)
  PROVE  \E k \in K : Cardinality({j \in K : j < k}) = i - 1
<1> DEFINE Ranked(L) == \A l \in 1 .. Cardinality(L) :
                          \E k \in L : Cardinality({j \in L : j < k}) = l - 1
           P(m) == \A L \in SUBSET (0 .. m - 1) : Ranked(L)
           Bad == {m \in Nat : ~ P(m)}
<1>1. ASSUME NEW m \in Nat, m # 0, P(m - 1)
      PROVE  P(m)
  <2> SUFFICES ASSUME NEW L \in SUBSET (0 .. m - 1)
               PROVE  Ranked(L)
    BY Zenon
  <2>1. IsFiniteSet(L) /\ Cardinality(L) \in Nat
    <3>1. IsFiniteSet(0 .. m - 1)
      BY <1>1, FS_Interval
    <3> QED BY <3>1, FS_Subset, FS_CardinalityType, Zenon
  <2>2. CASE m - 1 \notin L
    <3>1. L \in SUBSET (0 .. (m - 1) - 1)
      BY <2>2
    <3> QED BY <1>1, <3>1, Zenon
  <2>3. CASE m - 1 \in L
    <3> DEFINE R == L \ {m - 1}
    <3>1. Cardinality(R) = Cardinality(L) - 1
      BY <2>1, <2>3, FS_RemoveElement, Zenon
    <3>2. R \in SUBSET (0 .. (m - 1) - 1)
      OBVIOUS
    <3>3. Ranked(R)
      BY <1>1, <3>2, Zenon
    <3>4. {j \in L : j < m - 1} = R
      <4> SUFFICES ASSUME NEW j \in L PROVE j < m - 1 <=> j # m - 1
        BY Zenon
      <4> QED BY <1>1
    <3>5. ASSUME NEW k \in R
          PROVE  {j \in L : j < k} = {j \in R : j < k}
      <4>1. ~ (m - 1 < k)
        BY <1>1, <3>2
      <4> QED BY <4>1, Zenon
    <3> HIDE DEF R
    <3> SUFFICES ASSUME NEW l \in 1 .. Cardinality(L)
                 PROVE  \E k \in L : Cardinality({j \in L : j < k}) = l - 1
      BY Zenon
    <3>6. CASE l = Cardinality(L)
      BY <2>3, <3>1, <3>4, <3>6, Zenon
    <3>7. CASE l # Cardinality(L)
      <4>1. l \in 1 .. Cardinality(R)
        BY <2>1, <3>1, <3>7
      <4>2. PICK k \in R : Cardinality({j \in R : j < k}) = l - 1
        BY <3>3, <4>1, Zenon
      <4>3. k \in L
        BY Zenon DEF R
      <4> QED BY <3>5, <4>2, <4>3, Zenon
    <3> QED BY <3>6, <3>7, Zenon
  <2> QED BY <2>2, <2>3, Zenon
<1>2. P(0)
  <2> SUFFICES ASSUME NEW L \in SUBSET (0 .. 0 - 1), NEW l \in 1 .. Cardinality(L)
               PROVE  FALSE
    BY Zenon
  <2>1. L = {}
    OBVIOUS
  <2>2. Cardinality(L) = 0
    BY <2>1, FS_EmptySet, Zenon
  <2> QED BY <2>2
<1> HIDE DEF P
<1>3. Bad = {}
  <2> SUFFICES ASSUME Bad # {} PROVE FALSE
    BY Zenon
  <2>1. Min(Bad) \in Bad /\ \A y \in Bad : Min(Bad) <= y
    BY MinIsLeast, Zenon
  <2>2. PICK m \in Bad : \A y \in Bad : m <= y
    BY <2>1, Zenon
  <2>3. m \in Nat /\ ~ P(m)
    BY <2>2, Zenon
  <2>4. m # 0
    BY <1>2, <2>3, Zenon
  <2>5. m - 1 \in Nat /\ ~ (m <= m - 1)
    BY <2>3, <2>4
  <2>6. P(m - 1)
    BY <2>2, <2>5, Zenon
  <2> QED BY <1>1, <2>3, <2>4, <2>6, Zenon
<1>4. P(n)
  BY <1>3, Zenon
<1> QED BY <1>4, Zenon DEF P

\* InOrder lists elements of its set.
LEMMA InOrderFacts ==
  ASSUME NEW n \in Nat, NEW K \in SUBSET (0 .. n - 1)
  PROVE  /\ Cardinality(K) \in Nat
         /\ InOrder(K) \in [1 .. Cardinality(K) -> K]
<1>1. Cardinality(K) \in Nat
  <2>1. IsFiniteSet(0 .. n - 1)
    BY FS_Interval
  <2> QED BY <2>1, FS_Subset, FS_CardinalityType, Zenon
<1>2. ASSUME NEW i \in 1 .. Cardinality(K)
      PROVE  (CHOOSE k \in K : Cardinality({j \in K : j < k}) = i - 1) \in K
  BY RankTaken, Zenon
<1> QED BY <1>1, <1>2, Zenon DEF InOrder

\* Some of the elements of a sequence, in their order, form a sequence.
LEMMA PickFacts ==
  ASSUME NEW S, NEW D, NEW out \in Seq(D), NEW K \in SUBSET DOMAIN out,
         \A k \in K : out[k] \in S
  PROVE  Pick(out, K) \in Seq(S)
<1>1. Len(out) + 1 \in Nat /\ K \in SUBSET (0 .. (Len(out) + 1) - 1)
  OBVIOUS
<1>2. /\ Cardinality(K) \in Nat
      /\ InOrder(K) \in [1 .. Cardinality(K) -> K]
  BY <1>1, InOrderFacts, Zenon
<1>3. Pick(out, K) \in [1 .. Cardinality(K) -> S]
  BY <1>2, Zenon DEF Pick
<1> QED BY <1>2, <1>3

\* A sequence without one of its elements.
LEMMA WithoutFacts ==
  ASSUME NEW S, NEW s \in Seq(S), NEW k \in DOMAIN s
  PROVE  Without(s, k) \in Seq(S)
<1>1. /\ k \in 1 .. Len(s) /\ Len(s) \in Nat
      /\ \A i \in 1 .. Len(s) : s[i] \in S
  OBVIOUS
<1>2. SubSeq(s, 1, k - 1) \in Seq(S)
  BY <1>1, SubSeqProperties
<1>3. SubSeq(s, k + 1, Len(s)) \in Seq(S)
  BY <1>1, SubSeqProperties
<1> QED BY <1>2, <1>3, ConcatProperties, Zenon DEF Without

-----------------------------------------------------------------------------
(* The network *)

\* What a client may send, to anybody.
AnyDatagram == UNION {Datagrams(q, Nat) : q \in Peer}

\* The type of a datagram tells its fields.
LEMMA DatagramFacts ==
  ASSUME NEW p, NEW d \in Datagrams(p, Nat)
  PROVE  /\ d.to = p
         /\ d.type = "UDP_FILE_START" => d \in FileStarts(p, Nat)
         /\ d.type = "UDP_DATA" => d \in Datas(p, Nat)
         /\ d.type = "UDP_ACK" => d \in Acks(p, Nat)
<1>1. CASE d \in Requests(p)
  <2>1. d.to = p /\ d.type = "UDP_REQUEST_FILE"
    BY <1>1, Zenon DEF Requests
  <2> QED BY <2>1, Zenon
<1>2. CASE d \in FileStarts(p, Nat)
  <2>1. d.to = p /\ d.type = "UDP_FILE_START"
    BY <1>2, Zenon DEF FileStarts
  <2> QED BY <1>2, <2>1, Zenon
<1>3. CASE d \in Datas(p, Nat)
  <2>1. d.to = p /\ d.type = "UDP_DATA"
    BY <1>3, Zenon DEF Datas
  <2> QED BY <1>3, <2>1, Zenon
<1>4. CASE d \in Acks(p, Nat)
  <2>1. d.to = p /\ d.type = "UDP_ACK"
    BY <1>4, Zenon DEF Acks
  <2> QED BY <1>4, <2>1, Zenon
<1> QED BY <1>1, <1>2, <1>3, <1>4, Zenon DEF Datagrams

\* Numbers are natural numbers, so that damage leaves datagrams.
LEMMA NumbersAreNat ==
  ASSUME NEW p
  PROVE  Datagrams(p, Number) \subseteq Datagrams(p, Nat)
<1>1. ASSUME NEW file \in Files \ {NoFile}
      PROVE  0 .. ChunksOf(file) \subseteq Nat
  OBVIOUS
<1>2. Number \subseteq Nat
  BY <1>1, Zenon DEF Number
<1>3. FileStarts(p, Number) \subseteq FileStarts(p, Nat)
  BY <1>2, Zenon DEF FileStarts
<1>4. Datas(p, Number) \subseteq Datas(p, Nat)
  BY <1>2, Zenon DEF Datas
<1>5. Acks(p, Number) \subseteq Acks(p, Nat)
  BY <1>2, Zenon DEF Acks
<1> QED BY <1>3, <1>4, <1>5, Zenon DEF Datagrams

\* A datagram whose checksum is wrong is a datagram.
LEMMA ChecksumWrong ==
  ASSUME NEW p, NEW x \in Datagrams(p, Nat), NEW d, d = [x EXCEPT !.ok = FALSE]
  PROVE  d \in Datagrams(p, Nat)
<1>1. CASE x \in Requests(p)
  <2>1. d \in Requests(p)
    BY <1>1, Zenon DEF Requests
  <2> QED BY <2>1, Zenon DEF Datagrams
<1>2. CASE x \in FileStarts(p, Nat)
  <2>1. d \in FileStarts(p, Nat)
    BY <1>2, Zenon DEF FileStarts
  <2> QED BY <2>1, Zenon DEF Datagrams
<1>3. CASE x \in Datas(p, Nat)
  <2>1. d \in Datas(p, Nat)
    BY <1>3, Zenon DEF Datas
  <2> QED BY <2>1, Zenon DEF Datagrams
<1>4. CASE x \in Acks(p, Nat)
  <2>1. d \in Acks(p, Nat)
    BY <1>4, Zenon DEF Acks
  <2> QED BY <2>1, Zenon DEF Datagrams
<1> QED BY <1>1, <1>2, <1>3, <1>4, Zenon DEF Datagrams

\* Sending appends to the queues of the addressees, and costs the faults that
\* it costs.
LEMMA TransmitInv ==
  ASSUME NEW p \in Peer, NEW c, Queues(c), NEW f \in Nat,
         NEW out \in Seq(AnyDatagram), Transmit(p, c, f, out)
  PROVE  Queues(chan') /\ faults' \in 0 .. MaxFaults
<1>1. PICK lost \in SUBSET DOMAIN out :
        /\ faults' = f + Cardinality(lost)
        /\ faults' <= MaxFaults
        /\ chan' = [c EXCEPT ![p] = [r \in Peer |->
             @[r] \o Pick(out, {k \in DOMAIN out \ lost :
                                 out[k].to = r /\ mode[r] # "left"})]]
  BY Zenon DEF Transmit
<1>2. faults' \in 0 .. MaxFaults
  <2>1. IsFiniteSet(DOMAIN out)
    BY FS_Interval
  <2>2. Cardinality(lost) \in Nat
    BY <2>1, FS_Subset, FS_CardinalityType, Zenon
  <2>3. MaxFaults \in Nat
    BY PeerAssumption, Zenon
  <2> QED BY <1>1, <2>2, <2>3
<1> DEFINE K(r) == {k \in DOMAIN out \ lost : out[k].to = r /\ mode[r] # "left"}
<1>3. \A q, r \in Peer : c[q][r] \in Seq(Datagrams(r, Nat))
  BY Zenon DEF Queues
<1>4. \A k \in DOMAIN out : out[k] \in AnyDatagram
  OBVIOUS
<1>5. ASSUME NEW r \in Peer
      PROVE  c[p][r] \o Pick(out, K(r)) \in Seq(Datagrams(r, Nat))
  <2>1. ASSUME NEW k \in K(r) PROVE out[k] \in Datagrams(r, Nat)
    <3>1. out[k] \in AnyDatagram /\ out[k].to = r
      BY <1>4, Zenon
    <3>2. PICK q \in Peer : out[k] \in Datagrams(q, Nat)
      BY <3>1, Zenon DEF AnyDatagram
    <3>3. out[k].to = q
      BY <3>2, DatagramFacts, Zenon
    <3> QED BY <3>1, <3>2, <3>3, Zenon
  <2>2. K(r) \in SUBSET DOMAIN out
    BY Zenon
  <2> HIDE DEF K
  <2>3. Pick(out, K(r)) \in Seq(Datagrams(r, Nat))
    BY <2>1, <2>2, PickFacts, Zenon
  <2> QED BY <1>3, <2>3, ConcatProperties, Zenon
<1> HIDE DEF K
<1>6. c = [q \in Peer |-> [r \in Peer |-> c[q][r]]]
  BY Zenon DEF Queues
<1>7. chan' = [q \in Peer |-> IF q = p
                              THEN [r \in Peer |-> c[p][r] \o Pick(out, K(r))]
                              ELSE c[q]]
  BY <1>1, <1>6, Zenon DEF K
<1>8. ASSUME NEW q \in Peer
      PROVE  /\ chan'[q] = [r \in Peer |-> chan'[q][r]]
             /\ \A r \in Peer : chan'[q][r] \in Seq(Datagrams(r, Nat))
  <2>1. CASE q = p
    <3>1. chan'[q] = [r \in Peer |-> c[p][r] \o Pick(out, K(r))]
      BY <1>7, <2>1, Zenon
    <3> QED BY <1>5, <3>1, Zenon
  <2>2. CASE q # p
    <3>1. chan'[q] = c[q]
      BY <1>7, <2>2, Zenon
    <3>2. c[q] = [r \in Peer |-> c[q][r]]
      BY <1>6, Zenon
    <3> QED BY <1>3, <3>1, <3>2, Zenon
  <2> QED BY <2>1, <2>2, Zenon
<1>9. chan' = [q \in Peer |-> chan'[q]]
  BY <1>7, Zenon
<1>10. chan' = [q \in Peer |-> [r \in Peer |-> chan'[q][r]]]
  BY <1>8, <1>9, Zenon
<1> QED BY <1>2, <1>8, <1>10, Zenon DEF Queues

\* Reading takes a datagram addressed to the reader and leaves queues.
LEMMA ReadFacts ==
  ASSUME NEW p \in Peer, Queues(chan), faults \in Nat, NEW r \in Reads(p)
  PROVE  /\ r.from \in Peer
         /\ Datagram(p, r) \in Datagrams(p, Nat)
         /\ Queues(AfterRead(p, r))
         /\ faults + ReadCost(r) \in Nat
<1>1. PICK q \in Peer : r \in [from : {q}, at : DOMAIN chan[q][p], copy : BOOLEAN]
  BY Zenon DEF Reads
<1>2. r.from = q /\ r.at \in DOMAIN chan[q][p] /\ r.copy \in BOOLEAN
  BY <1>1, Zenon
<1>3. \A x, y \in Peer : chan[x][y] \in Seq(Datagrams(y, Nat))
  BY Zenon DEF Queues
<1>4. chan[q][p] \in Seq(Datagrams(p, Nat))
  BY <1>3, Zenon
<1>5. chan[q][p][r.at] \in Datagrams(p, Nat)
  BY <1>2, <1>4
<1>6. Without(chan[q][p], r.at) \in Seq(Datagrams(p, Nat))
  BY <1>2, <1>4, WithoutFacts, Zenon
<1>7. ReadCost(r) \in Nat
  <2>1. r.at \in Nat
    BY <1>2, <1>4
  <2> QED BY <2>1 DEF ReadCost
<1> DEFINE c == AfterRead(p, r)
           n == IF r.copy THEN chan[q][p] ELSE Without(chan[q][p], r.at)
<1>8. n \in Seq(Datagrams(p, Nat))
  BY <1>4, <1>6, Zenon
<1> HIDE DEF n
<1>9. chan = [x \in Peer |-> [y \in Peer |-> chan[x][y]]]
  BY Zenon DEF Queues
<1>10. c = [x \in Peer |-> [y \in Peer |->
              IF x = q /\ y = p THEN n ELSE chan[x][y]]]
  BY <1>2, <1>9, Zenon DEF AfterRead, n
<1> HIDE DEF c
<1>11. \A x, y \in Peer : c[x][y] = IF x = q /\ y = p THEN n ELSE chan[x][y]
  BY <1>10, Zenon
<1>12. Queues(c)
  <2>1. \A x, y \in Peer : c[x][y] \in Seq(Datagrams(y, Nat))
    BY <1>3, <1>8, <1>11, Zenon
  <2>2. c = [x \in Peer |-> [y \in Peer |-> c[x][y]]]
    BY <1>10, <1>11, Zenon
  <2> QED BY <2>1, <2>2, Zenon DEF Queues
<1>13. faults + ReadCost(r) \in Nat
  BY <1>7
<1> QED BY <1>2, <1>5, <1>12, <1>13, Zenon DEF Datagram, c

\* Damage leaves a datagram for the same client.
LEMMA DamageInv ==
  ASSUME NEW p \in Peer, NEW q \in Peer, Queues(chan),
         NEW k \in DOMAIN chan[q][p],
         NEW d \in Damaged(chan[q][p][k]),
         chan' = [chan EXCEPT ![q][p][k] = d]
  PROVE  Queues(chan')
<1> DEFINE s == chan[q][p]
<1>1. \A x, y \in Peer : chan[x][y] \in Seq(Datagrams(y, Nat))
  BY Zenon DEF Queues
<1>2. s \in Seq(Datagrams(p, Nat)) /\ k \in DOMAIN s
  BY <1>1, Zenon
<1>3. s[k] \in Datagrams(p, Nat)
  BY <1>2
<1>4. d \in Datagrams(p, Nat)
  <2>1. PICK x : x = s[k]
    BY Zenon
  <2>2. CASE d \in Datagrams(x.to, Number)
    <3>1. x.to = p
      BY <1>3, <2>1, DatagramFacts, Zenon
    <3> QED BY <2>2, <3>1, NumbersAreNat, Zenon
  <2>3. CASE d = [x EXCEPT !.ok = FALSE]
    BY <1>3, <2>1, <2>3, ChecksumWrong, Zenon
  <2> QED BY <2>1, <2>2, <2>3, Zenon DEF Damaged
<1> DEFINE n == [s EXCEPT ![k] = d]
<1>5. n \in Seq(Datagrams(p, Nat))
  <2> HIDE DEF s
  <2> QED BY <1>2, <1>4
<1>6. chan = [x \in Peer |-> [y \in Peer |-> chan[x][y]]]
  BY Zenon DEF Queues
<1>7. chan' = [x \in Peer |-> [y \in Peer |->
                 IF x = q /\ y = p THEN n ELSE chan[x][y]]]
  BY <1>6, Zenon
<1> HIDE DEF n
<1>8. PICK c : c = chan'
  BY Zenon
<1>9. \A x, y \in Peer : c[x][y] = IF x = q /\ y = p THEN n ELSE chan[x][y]
  BY <1>7, <1>8
<1>10. \A x, y \in Peer : c[x][y] \in Seq(Datagrams(y, Nat))
  BY <1>1, <1>5, <1>9, Zenon
<1>11. c = [x \in Peer |-> [y \in Peer |-> c[x][y]]]
  BY <1>7, <1>8, <1>9, Zenon
<1>12. Queues(c)
  BY <1>10, <1>11, Zenon DEF Queues
<1> QED BY <1>8, <1>12, Zenon

-----------------------------------------------------------------------------
(* The transfer of an owner *)

\* A transfer between the calls of its event loop.
Live(t) == Transfer(t) /\ SenderOK(t.sr)

\* A transfer when poll is reached: there is a packet to wait for.
Busy(t) == Live(t) /\ t.sr.base < t.sr.next_seq

\* No transfer, or one between the calls.
Ready(t) == t = None \/ Live(t)

\* The file of a transfer, by its length.
LEMMA TransferFacts ==
  ASSUME NEW t, Transfer(t), NEW F, NEW N,
         F = t.sr.file_data, N = ChunksOf(t.sr.file_data)
  PROVE  /\ N \in Nat /\ F \in [0 .. N - 1 -> Chunk]
         /\ t.sr \in SenderType(F, N)
         /\ t.peer_addr \in Peer
BY Zenon DEF Transfer, IsFile

\* Replacing the sender of a transfer by a later state of it.
LEMMA TransferKept ==
  ASSUME NEW t, Transfer(t), NEW F, NEW N,
         F = t.sr.file_data, N = ChunksOf(t.sr.file_data),
         NEW s \in SenderType(F, N), NEW u, u = [t EXCEPT !.sr = s]
  PROVE  u.sr = s /\ Transfer(u)
<1>1. t = [sr |-> t.sr, peer_addr |-> t.peer_addr]
  BY Zenon DEF Transfer
<1>2. u = [sr |-> s, peer_addr |-> t.peer_addr]
  BY <1>1, Zenon
<1>3. u.sr = s /\ u.peer_addr = t.peer_addr
  BY <1>2, Zenon
<1>4. s.file_data = F
  BY SenderParts, Zenon
<1> QED BY <1>2, <1>3, <1>4, Zenon DEF Transfer

\* sr_sender_init: nothing sent, nothing acknowledged.
LEMMA SenderInitFacts ==
  ASSUME NEW F, IsFile(F), NEW q \in Peer, NEW t,
         t = [sr |-> sr_sender_init(F, ChunksOf(F)), peer_addr |-> q]
  PROVE  Live(t)
<1> DEFINE N == ChunksOf(F)
<1>1. PICK s : s = sr_sender_init(F, N)
  BY Zenon
<1>2. N \in Nat /\ F \in [0 .. N - 1 -> Chunk]
  BY Zenon DEF IsFile
<1> HIDE DEF N
<1>3. s \in SenderType(F, N)
  BY <1>1, <1>2, WindowAssumption
     DEF sr_sender_init, SenderType, SenderEntry, PacketState
<1>4. /\ s.base = 0 /\ s.next_seq = 0 /\ s.chunks_acked = 0
      /\ \A i \in Slots : s.window[i].state = "PKT_EMPTY"
      /\ s.num_chunks = N /\ s.file_data = F
  BY <1>1, Zenon DEF sr_sender_init
<1>5. Acked(s) = {}
  BY <1>2, <1>4 DEF Acked
<1>6. SenderOK(s)
  BY <1>4, <1>5, FS_EmptySet, WindowAssumption DEF SenderOK, SendWindowOK
<1>7. t.sr = s /\ t.peer_addr = q /\ t = [sr |-> t.sr, peer_addr |-> t.peer_addr]
  BY <1>1, Zenon DEF N
<1>8. Transfer(t)
  BY <1>3, <1>4, <1>7, Zenon DEF Transfer, N
<1> QED BY <1>6, <1>7, <1>8, Zenon DEF Live

\* As long as chunks are unacknowledged, filling the window leaves a packet to
\* wait for: with nothing in flight every slot is free.
LEMMA WindowInUse ==
  ASSUME NEW N \in Nat, NEW F \in [0 .. N - 1 -> Chunk],
         NEW s \in SenderType(F, N), SenderOK(s),
         NEW w, w = sr_sender_send_window(s), ~ sr_sender_is_complete(w)
  PROVE  w.base < w.next_seq
<1>1. WindowSent(F, N, s, w)
  BY SendWindowLemma, Zenon
<1>2. /\ w \in SenderType(F, N) /\ SenderOK(w) /\ w.base = s.base
      /\ s.next_seq <= w.next_seq
  BY <1>1, Zenon DEF WindowSent
<1>3. /\ s.base \in Nat /\ s.next_seq \in Nat /\ w.base \in Nat
      /\ w.next_seq \in Nat /\ s.base <= N /\ s.num_chunks = N /\ w.num_chunks = N
  BY <1>2 DEF SenderType
<1>4. s.base <= s.next_seq
  BY Zenon DEF SenderOK, SendWindowOK
<1>5. CASE s.base < s.next_seq
  BY <1>2, <1>3, <1>5
<1>6. CASE s.base = s.next_seq /\ s.base = N
  <2>1. Acked(w) = 0 .. N - 1
    BY <1>2, <1>3, <1>6 DEF Acked
  <2>2. Cardinality(0 .. N - 1) = N
    BY FS_Interval
  <2>3. w.chunks_acked = N
    BY <1>2, <2>1, <2>2, Zenon DEF SenderOK, SendWindowOK
  <2>4. sr_sender_is_complete(w)
    BY <1>3, <2>3 DEF sr_sender_is_complete
  <2> QED BY <2>4, Zenon
<1>7. CASE s.base = s.next_seq /\ s.base < N
  <2> DEFINE T == {n \in s.next_seq .. s.num_chunks :
                     \/ n = s.num_chunks
                     \/ n >= s.base + WINDOW_SIZE
                     \/ s.window[Idx(n)].state # "PKT_EMPTY"}
  <2>1. SendStop(s) \in T
    <3>1. T \in SUBSET Nat /\ N \in T
      BY <1>3, <1>7
    <3> QED BY <3>1, MinIsLeast, Zenon DEF SendStop
  <2>2. s.window[Idx(s.base)].state = "PKT_EMPTY"
    <3>1. Idx(s.base) \in Slots
      BY <1>3, IdxType, Zenon
    <3>2. ~ \E n \in s.base .. s.next_seq - 1 : Idx(n) = Idx(s.base)
      BY <1>3, <1>7
    <3> QED BY <3>1, <3>2, Zenon DEF SenderOK, SendWindowOK
  <2>3. s.base \notin T
    <3>1. s.base # s.num_chunks /\ ~ (s.base >= s.base + WINDOW_SIZE)
      BY <1>3, <1>7, WindowAssumption
    <3> QED BY <2>2, <3>1, Zenon
  <2>4. SendStop(s) # s.base /\ SendStop(s) \in s.next_seq .. s.num_chunks
    BY <2>1, <2>3, Zenon
  <2>5. w.next_seq = SendStop(s)
    BY Zenon DEF sr_sender_send_window, SenderType
  <2> QED BY <1>2, <1>3, <1>7, <2>4, <2>5
<1> QED BY <1>3, <1>4, <1>5, <1>6, <1>7

\* Packets of a file become datagrams.
LEMMA DataInOrderFacts ==
  ASSUME NEW q \in Peer, NEW N \in Nat, NEW packets,
         \A d \in packets : d \in DataPacket(N)
  PROVE  DataInOrder(q, packets) \in Seq(AnyDatagram)
<1> DEFINE K == {d.seq_num : d \in packets}
           pkt(n) == CHOOSE d \in packets : d.seq_num = n
<1>1. \A d \in packets : d.seq_num \in 0 .. N - 1 /\ d.data \in Chunk /\ d.ok \in BOOLEAN
  BY Zenon DEF DataPacket
<1>2. K \in SUBSET (0 .. N - 1)
  BY <1>1, Zenon
<1>3. \A n \in K : pkt(n) \in packets
  BY Zenon
<1> HIDE DEF K, pkt
<1>4. Cardinality(K) \in Nat /\ InOrder(K) \in [1 .. Cardinality(K) -> K]
  BY <1>2, InOrderFacts, Zenon
<1>5. ASSUME NEW d \in packets PROVE Data(q, d) \in AnyDatagram
  <2>1. d.seq_num \in Nat /\ d.data \in Chunk /\ d.ok \in BOOLEAN
    BY <1>1
  <2>2. Data(q, d) \in Datas(q, Nat)
    BY <2>1, Zenon DEF Data, Datas
  <2> QED BY <2>2, Zenon DEF AnyDatagram, Datagrams
<1>6. DataInOrder(q, packets) =
        [i \in 1 .. Cardinality(K) |-> Data(q, pkt(InOrder(K)[i]))]
  BY <1>4, Zenon DEF DataInOrder, K, pkt
<1>7. \A i \in 1 .. Cardinality(K) : Data(q, pkt(InOrder(K)[i])) \in AnyDatagram
  BY <1>3, <1>4, <1>5, Zenon
<1>8. DataInOrder(q, packets) \in [1 .. Cardinality(K) -> AnyDatagram]
  BY <1>6, <1>7, Zenon
<1> HIDE DEF AnyDatagram
<1> QED BY <1>4, <1>8

\* A turn of the loop sends packets of the file, and keeps the transfer only
\* with a packet to wait for.
LEMMA OutcomeFacts ==
  ASSUME NEW t, Live(t), NEW w, w = sr_sender_send_window(t.sr), NEW expired,
         NEW o, o = Outcome(t, w, expired)
  PROVE  /\ o.burst \in Seq(AnyDatagram)
         /\ o.after = None \/ Busy(o.after)
<1>1. PICK F, N : F = t.sr.file_data /\ N = ChunksOf(t.sr.file_data)
  BY Zenon
<1>2. PICK s : s = t.sr
  BY Zenon
<1>3. /\ N \in Nat /\ F \in [0 .. N - 1 -> Chunk]
      /\ s \in SenderType(F, N) /\ t.peer_addr \in Peer
  BY <1>1, <1>2, TransferFacts, Zenon DEF Live
<1>4. SenderOK(s)
  BY <1>2, Zenon DEF Live
<1>5. WindowSent(F, N, s, w)
  BY <1>2, <1>3, <1>4, SendWindowLemma, Zenon
<1>6. /\ w \in SenderType(F, N) /\ SenderOK(w)
      /\ \A d \in FirstPackets(s) : d \in DataPacket(N)
  BY <1>5, Zenon DEF WindowSent
<1>7. PICK u : u = sr_sender_check_timeouts(w, expired)
  BY Zenon
<1>8. TimeoutsChecked(F, N, w, expired, u)
  BY <1>3, <1>6, <1>7, CheckTimeoutsLemma, Zenon
<1>9. /\ u \in SenderType(F, N) /\ SenderOK(u)
      /\ u.base = w.base /\ u.next_seq = w.next_seq
      /\ \A d \in RetransmittedPackets(w, expired) : d \in DataPacket(N)
  BY <1>8, Zenon DEF TimeoutsChecked
<1>10. o.burst \in Seq(AnyDatagram)
  <2>1. DataInOrder(t.peer_addr, FirstPackets(s)) \in Seq(AnyDatagram)
    BY <1>3, <1>6, DataInOrderFacts, Zenon
  <2>2. DataInOrder(t.peer_addr, RetransmittedPackets(w, expired))
          \in Seq(AnyDatagram)
    BY <1>3, <1>9, DataInOrderFacts, Zenon
  <2>3. o.burst = DataInOrder(t.peer_addr, FirstPackets(s))
                    \o DataInOrder(t.peer_addr, RetransmittedPackets(w, expired))
    BY <1>2, Zenon DEF Outcome
  <2> QED BY <2>1, <2>2, <2>3, ConcatProperties, Zenon
<1>11. ASSUME o.after # None PROVE Busy(o.after)
  <2>1. /\ ~ sr_sender_is_complete(w)
        /\ o.after = [t EXCEPT !.sr = u]
    BY <1>7, <1>11, Zenon DEF Outcome
  <2>2. w.base < w.next_seq
    BY <1>2, <1>3, <1>4, <2>1, WindowInUse, Zenon
  <2>3. o.after.sr = u /\ Transfer(o.after)
    <3>1. Transfer(t) /\ u \in SenderType(F, N)
      BY <1>9, Zenon DEF Live
    <3>2. PICK v : v = o.after
      BY Zenon
    <3>3. v = [t EXCEPT !.sr = u]
      BY <2>1, <3>2, Zenon
    <3>4. v.sr = u /\ Transfer(v)
      BY <1>1, <3>1, <3>3, TransferKept
    <3> QED BY <3>2, <3>4, Zenon
  <2> QED BY <1>9, <2>2, <2>3, Zenon DEF Busy, Live
<1> QED BY <1>10, <1>11, Zenon

\* The transfers of all clients.
SendersOK ==
  /\ sender = [p \in Peer |-> sender[p]]
  /\ \A p \in Peer : sender[p] # None => Busy(sender[p])

\* The end of an iteration, whatever transfer it is reached with.
LEMMA EndIterationInv ==
  ASSUME NEW p \in Peer, NEW t, Ready(t), NEW c, Queues(c),
         NEW f \in Nat, NEW out \in Seq(AnyDatagram), NEW run, SendersOK,
         EndIteration(p, t, c, f, out, run)
  PROVE  /\ Queues(chan') /\ faults' \in 0 .. MaxFaults
         /\ SendersOK'
         /\ mode' = [mode EXCEPT ![p] = IF run THEN "poll" ELSE "left"]
<1>1. PICK step \in TransferStep(p, t) :
        /\ Transmit(p, c, f, out \o step.burst)
        /\ sender' = [sender EXCEPT ![p] = IF run THEN step.after ELSE None]
  BY Zenon DEF EndIteration
<1>2. /\ step.burst \in Seq(AnyDatagram)
      /\ step.after = None \/ Busy(step.after)
  <2>1. CASE t = None
    <3>1. TransferStep(p, t) = {[burst |-> << >>, after |-> None]}
      BY <2>1 DEF TransferStep
    <3>2. step.burst = << >> /\ step.after = None
      BY <3>1
    <3> QED BY <3>2, EmptySeq, Zenon
  <2>2. CASE t # None
    <3>1. TransferStep(p, t) =
            {Outcome(t, w, expired) : w \in {sr_sender_send_window(t.sr)},
                                      expired \in SUBSET Expirable(p, t)}
      BY <2>2 DEF TransferStep
    <3>2. PICK w, expired : /\ w = sr_sender_send_window(t.sr)
                            /\ step = Outcome(t, w, expired)
      BY <3>1
    <3> QED BY <2>2, <3>2, OutcomeFacts, Zenon DEF Ready
  <2> QED BY <2>1, <2>2, Zenon
<1>3. out \o step.burst \in Seq(AnyDatagram)
  BY <1>2, ConcatProperties, Zenon
<1>4. Queues(chan') /\ faults' \in 0 .. MaxFaults
  BY <1>1, <1>3, TransmitInv, Zenon
<1>5. SendersOK'
  <2>1. PICK x : x = IF run THEN step.after ELSE None
    BY Zenon
  <2>2. x = None \/ Busy(x)
    BY <1>2, <2>1, Zenon
  <2>3. sender' = [q \in Peer |-> IF q = p THEN x ELSE sender[q]]
    BY <1>1, <2>1, Zenon DEF SendersOK
  <2>4. \A q \in Peer : sender'[q] = IF q = p THEN x ELSE sender[q]
    BY <2>3, Zenon
  <2>5. sender' = [q \in Peer |-> sender'[q]]
    BY <2>3, <2>4, Zenon
  <2>6. ASSUME NEW q \in Peer, sender'[q] # None PROVE Busy(sender'[q])
    BY <2>2, <2>4, <2>6, Zenon DEF SendersOK
  <2> QED BY <2>5, <2>6, Zenon DEF SendersOK, Busy, Live, Transfer
<1> QED BY <1>4, <1>5, Zenon DEF EndIteration, LoopAgain

-----------------------------------------------------------------------------
(* The receiver of get *)

\* A receiver begins with nothing.
LEMMA ReceiverInitFacts ==
  ASSUME NEW n \in Nat
  PROVE  Receiver(sr_receiver_init(n))
<1>1. PICK r : r = sr_receiver_init(n)
  BY Zenon
<1>2. r.num_chunks = n
  BY <1>1, Zenon DEF sr_receiver_init
<1>3. r \in ReceiverType(n)
  BY <1>1, WindowAssumption DEF sr_receiver_init, ReceiverType, ReceiverEntry
<1> QED BY <1>1, <1>2, <1>3, Zenon DEF Receiver

\* Whatever chunk of whatever file a packet carries, the receiver stays one.
LEMMA HandleDataTyped ==
  ASSUME NEW r, Receiver(r), NEW d, d.seq_num \in Nat, d.data \in Chunk
  PROVE  Receiver(sr_receiver_handle_data(r, d))
<1>1. PICK N : N = r.num_chunks
  BY Zenon
<1>2. N \in Nat /\ r \in ReceiverType(N)
  BY <1>1, Zenon DEF Receiver
<1>3. PICK b : b = BufferData(r, d)
  BY Zenon
<1>4. b \in ReceiverType(N)
  <2>1. Idx(d.seq_num) \in Slots
    BY IdxType, Zenon
  <2>2. PICK e : e = [received |-> TRUE, seq_num |-> d.seq_num, data |-> d.data]
    BY Zenon
  <2>3. e \in ReceiverEntry
    BY <2>2, Zenon DEF ReceiverEntry
  <2>4. b = r \/ b = [r EXCEPT !.window[Idx(d.seq_num)] = e, !.chunks_received = @ + 1]
    BY <1>3, <2>2, Zenon DEF BufferData
  <2>5. CASE b # r
    <3>1. r.window \in [Slots -> ReceiverEntry] /\ r.chunks_received \in Nat
      BY <1>2, Zenon DEF ReceiverType
    <3>2. PICK window : window = [r.window EXCEPT ![Idx(d.seq_num)] = e]
      BY Zenon
    <3>3. window \in [Slots -> ReceiverEntry]
      BY <2>1, <2>3, <3>1, <3>2, Zenon
    <3>4. PICK n : n = r.chunks_received + 1
      BY Zenon
    <3>5. n \in Nat
      BY <3>1, <3>4
    <3>6. b = [r EXCEPT !.window = window, !.chunks_received = n]
      BY <1>2, <2>4, <2>5, <3>2, <3>4, Zenon DEF ReceiverType
    <3> QED BY <1>2, <3>3, <3>5, <3>6, Zenon DEF ReceiverType
  <2> QED BY <1>2, <2>5, Zenon
<1>5. PICK t : t = DeliverInOrder(b)
  BY Zenon
<1>6. t \in ReceiverType(N)
  <2>1. PICK stop : stop = DeliverStop(b)
    BY Zenon
  <2>2. stop \in b.base .. N
    BY <1>2, <1>4, <2>1, DeliverStopFacts, Zenon
  <2>3. b.base \in Nat
    BY <1>4 DEF ReceiverType
  <2>4. stop \in 0 .. N
    BY <1>2, <2>2, <2>3
  <2>5. PICK buffer : buffer = [i \in DOMAIN b.file_buffer |->
                                  IF i \in b.base .. stop - 1
                                  THEN b.window[Idx(i)].data
                                  ELSE b.file_buffer[i]]
    BY Zenon
  <2>6. b.file_buffer \in [0 .. N - 1 -> Chunk \cup {NoData}]
        /\ b.window \in [Slots -> ReceiverEntry]
    BY <1>4, Zenon DEF ReceiverType
  <2>7. buffer \in [0 .. N - 1 -> Chunk \cup {NoData}]
    <3>1. \A i \in 0 .. N - 1 : Idx(i) \in Slots
      BY <1>2, IdxType
    <3>2. \A e \in ReceiverEntry : e.data \in Chunk \cup {NoData}
      BY Zenon DEF ReceiverEntry
    <3> QED BY <2>5, <2>6, <3>1, <3>2, Zenon
  <2>8. PICK window : window = [i \in Slots |->
                        IF \E n \in b.base .. stop - 1 : Idx(n) = i
                        THEN [b.window[i] EXCEPT !.received = FALSE]
                        ELSE b.window[i]]
    BY Zenon
  <2>9. window \in [Slots -> ReceiverEntry]
    <3>1. \A e \in ReceiverEntry : [e EXCEPT !.received = FALSE] \in ReceiverEntry
      BY Zenon DEF ReceiverEntry
    <3> QED BY <2>6, <2>8, <3>1, Zenon
  <2>10. t = [b EXCEPT !.base = stop, !.file_buffer = buffer, !.window = window]
    BY <1>5, <2>1, <2>5, <2>8, Zenon DEF DeliverInOrder
  <2> QED BY <1>4, <2>4, <2>7, <2>9, <2>10, Zenon DEF ReceiverType
<1>7. sr_receiver_handle_data(r, d) = t \/ sr_receiver_handle_data(r, d) = r
  BY <1>3, <1>5, Zenon DEF sr_receiver_handle_data
<1>8. Receiver(t)
  BY <1>2, <1>6, ReceiverParts, Zenon DEF Receiver
<1> QED BY <1>7, <1>8, Zenon

\* What a receiver answers is an ACK or nothing.
LEMMA AckSeqFacts ==
  ASSUME NEW q \in Peer, NEW r, NEW d, d.seq_num \in Nat
  PROVE  AckSeq(q, sr_receiver_send_ack(r, d)) \in Seq(AnyDatagram)
<1>1. PICK acks : acks = sr_receiver_send_ack(r, d)
  BY Zenon
<1>2. CASE acks = {}
  <2>1. AckSeq(q, acks) = << >>
    BY <1>2, Zenon DEF AckSeq
  <2> QED BY <1>1, <2>1, EmptySeq, Zenon
<1>3. CASE acks # {}
  <2>1. acks = {build_ack_packet(d.seq_num)}
    BY <1>1, <1>3, Zenon DEF sr_receiver_send_ack
  <2>2. PICK a : a = CHOOSE x \in acks : TRUE
    BY Zenon
  <2>3. a = build_ack_packet(d.seq_num)
    BY <2>1, <2>2, Zenon
  <2>4. Ack(q, a) \in Acks(q, Nat)
    BY <2>3, Zenon DEF Ack, Acks, build_ack_packet
  <2>5. Ack(q, a) \in AnyDatagram
    BY <2>4, Zenon DEF AnyDatagram, Datagrams
  <2>6. AckSeq(q, acks) = <<Ack(q, a)>>
    BY <1>3, <2>2, Zenon DEF AckSeq
  <2> QED BY <1>1, <2>5, <2>6
<1> QED BY <1>2, <1>3, Zenon

-----------------------------------------------------------------------------
(* The inductive invariant *)

Modes == {"poll", "wait_start", "receiving", "recv", "left"}

\* What each client is doing, and what it remembers of it.
Sessions ==
  /\ mode \in [Peer -> Modes]
  /\ running \in [Peer -> BOOLEAN]
  /\ pollin \in [Peer -> BOOLEAN]
  /\ want \in [Peer -> Location \cup {None}]
  /\ rcv = [p \in Peer |-> rcv[p]]
  /\ \A p \in Peer :
       /\ IF mode[p] \in {"wait_start", "receiving"}
          THEN want[p] \in Location ELSE want[p] = None
       /\ IF mode[p] = "receiving" THEN Receiver(rcv[p]) ELSE rcv[p] = None

IInv ==
  /\ Sessions
  /\ SendersOK
  /\ disk \in [Peer -> [Path -> Files]]
  /\ Queues(chan)
  /\ faults \in 0 .. MaxFaults
  /\ gets \in 0 .. MaxGets

\* A location is that of a file in somebody's table.
LEMMA LocationFacts ==
  ASSUME NEW loc \in Location
  PROVE  /\ loc.peer \in Peer /\ loc.filename \in Path
         /\ loc.hash.sha256 \in Files
         /\ \E e \in Table[loc.peer] : /\ loc.file_id = e.file_id
                                       /\ loc.filename = e.file_name
                                       /\ loc.hash = e.hash
<1>0. PICK q \in Peer : \E e \in Table[q] :
        loc = [file_id |-> e.file_id, hash |-> e.hash, filename |-> e.file_name,
               peer |-> q]
  BY Zenon DEF Location
<1>1. PICK e \in Table[q] :
        loc = [file_id |-> e.file_id, hash |-> e.hash, filename |-> e.file_name,
               peer |-> q]
  BY <1>0, Zenon
<1>2. /\ loc.peer = q /\ loc.filename = e.file_name /\ loc.hash = e.hash
      /\ loc.file_id = e.file_id
  BY <1>1, Zenon
<1>3. e.file_name \in Path
  BY PeerAssumption, Zenon
<1>4. e.hash.sha256 \in Files
  BY DEF Files
<1> QED BY <1>2, <1>3, <1>4, Zenon

\* One client moves on; m, x and y are its mode, want and rcv afterwards.
LEMMA SessionMoves ==
  ASSUME Sessions, NEW p \in Peer, NEW m \in Modes, NEW x, NEW y,
         mode' = [mode EXCEPT ![p] = m],
         want' = [want EXCEPT ![p] = x],
         rcv' = [rcv EXCEPT ![p] = y],
         running' \in [Peer -> BOOLEAN], pollin' \in [Peer -> BOOLEAN],
         IF m \in {"wait_start", "receiving"} THEN x \in Location ELSE x = None,
         IF m = "receiving" THEN Receiver(y) ELSE y = None
  PROVE  Sessions'
<1>1. /\ mode \in [Peer -> Modes] /\ want \in [Peer -> Location \cup {None}]
      /\ rcv = [q \in Peer |-> rcv[q]]
  BY Zenon DEF Sessions
<1>2. \A q \in Peer : /\ mode'[q] = IF q = p THEN m ELSE mode[q]
                      /\ want'[q] = IF q = p THEN x ELSE want[q]
  BY <1>1, Zenon
<1>3. rcv' = [q \in Peer |-> IF q = p THEN y ELSE rcv[q]]
  BY <1>1, Zenon
<1>4. \A q \in Peer : rcv'[q] = IF q = p THEN y ELSE rcv[q]
  BY <1>3, Zenon
<1>5. rcv' = [q \in Peer |-> rcv'[q]]
  BY <1>3, <1>4, Zenon
<1>6. x \in Location \cup {None}
  BY Zenon
<1>7. mode' \in [Peer -> Modes] /\ want' \in [Peer -> Location \cup {None}]
  BY <1>1, <1>6, Zenon
<1>8. ASSUME NEW q \in Peer
      PROVE  /\ IF mode'[q] \in {"wait_start", "receiving"}
                THEN want'[q] \in Location ELSE want'[q] = None
             /\ IF mode'[q] = "receiving" THEN Receiver(rcv'[q]) ELSE rcv'[q] = None
  <2>1. CASE q = p
    <3>1. mode'[q] = m /\ want'[q] = x /\ rcv'[q] = y
      BY <1>2, <1>4, <2>1, Zenon
    <3> QED BY <3>1, Zenon
  <2>2. CASE q # p
    <3>1. mode'[q] = mode[q] /\ want'[q] = want[q] /\ rcv'[q] = rcv[q]
      BY <1>2, <1>4, <2>2, Zenon
    <3> QED BY <3>1, Zenon DEF Sessions
  <2> QED BY <2>1, <2>2, Zenon
<1> QED BY <1>5, <1>7, <1>8, Zenon DEF Sessions, Receiver, ReceiverType

\* A client that is not in get goes round its loop.
LEMMA LoopMoves ==
  ASSUME Sessions, NEW p \in Peer, mode[p] \in {"poll", "recv"},
         NEW m \in {"poll", "recv", "left"}, mode' = [mode EXCEPT ![p] = m],
         UNCHANGED <<want, rcv>>,
         running' \in [Peer -> BOOLEAN], pollin' \in [Peer -> BOOLEAN]
  PROVE  Sessions'
<1>1. want[p] = None /\ rcv[p] = None
  BY Zenon DEF Sessions
<1>2. m \in Modes /\ m \notin {"wait_start", "receiving"} /\ m # "receiving"
  BY Zenon DEF Modes
<1>3. want' = [want EXCEPT ![p] = None] /\ rcv' = [rcv EXCEPT ![p] = None]
  BY <1>1, Zenon DEF Sessions
<1> QED BY <1>2, <1>3, SessionMoves, Zenon

\* Transfers nobody touches.
LEMMA SendersSame ==
  ASSUME SendersOK, sender' = sender
  PROVE  SendersOK'
BY Zenon DEF SendersOK, Busy, Live, Transfer

\* What the conjuncts of the invariant say of one client.
LEMMA InvFacts ==
  ASSUME IInv, NEW p \in Peer
  PROVE  /\ Sessions /\ SendersOK /\ Queues(chan)
         /\ faults \in Nat /\ gets \in Nat
         /\ running[p] \in BOOLEAN /\ running \in [Peer -> BOOLEAN]
         /\ pollin \in [Peer -> BOOLEAN]
         /\ Ready(sender[p])
<1>1. Sessions /\ SendersOK /\ Queues(chan)
  BY Zenon DEF IInv
<1>2. running \in [Peer -> BOOLEAN] /\ pollin \in [Peer -> BOOLEAN]
  BY <1>1, Zenon DEF Sessions
<1>3. running[p] \in BOOLEAN
  BY <1>2, Zenon
<1>4. faults \in Nat /\ gets \in Nat
  BY DEF IInv
<1>5. Ready(sender[p])
  BY <1>1, Zenon DEF SendersOK, Busy, Ready
<1> QED BY <1>1, <1>2, <1>3, <1>4, <1>5, Zenon

\* Nothing is sent.
LEMMA NoneSent == << >> \in Seq(AnyDatagram)
BY EmptySeq, Zenon

\* An iteration ends outside get.
LEMMA IterationInv ==
  ASSUME IInv, NEW p \in Peer, mode[p] \in {"poll", "recv"},
         NEW t, Ready(t), NEW c, Queues(c), NEW f \in Nat,
         NEW out \in Seq(AnyDatagram), NEW run,
         EndIteration(p, t, c, f, out, run),
         running' \in [Peer -> BOOLEAN], UNCHANGED <<pollin, want, rcv, gets>>,
         disk' \in [Peer -> [Path -> Files]]
  PROVE  IInv'
<1>1. /\ Queues(chan') /\ faults' \in 0 .. MaxFaults /\ SendersOK'
      /\ mode' = [mode EXCEPT ![p] = IF run THEN "poll" ELSE "left"]
  <2>1. SendersOK
    BY Zenon DEF IInv
  <2>2. Queues(chan') /\ faults' \in 0 .. MaxFaults /\ SendersOK'
    BY <2>1, EndIterationInv, Zenon
  <2>3. mode' = [mode EXCEPT ![p] = IF run THEN "poll" ELSE "left"]
    BY Zenon DEF EndIteration, LoopAgain
  <2> QED BY <2>2, <2>3, Zenon
<1>2. PICK m : m = IF run THEN "poll" ELSE "left"
  BY Zenon
<1>3. m \in {"poll", "recv", "left"} /\ mode' = [mode EXCEPT ![p] = m]
  BY <1>1, <1>2, Zenon
<1>4. pollin' \in [Peer -> BOOLEAN]
  BY InvFacts, Zenon
<1>5. Sessions'
  BY <1>3, <1>4, InvFacts, LoopMoves, Zenon
<1>6. gets' \in 0 .. MaxGets
  BY Zenon DEF IInv
<1> QED BY <1>1, <1>5, <1>6, Zenon DEF IInv

-----------------------------------------------------------------------------
(* The steps of the event loop *)

\* poll times out.
LEMMA IdleInv ==
  ASSUME IInv, NEW p \in Peer, Idle(p)
  PROVE  IInv'
<1>1. /\ mode[p] \in {"poll", "recv"}
      /\ EndIteration(p, sender[p], chan, faults, << >>, TRUE)
      /\ running' = running /\ UNCHANGED <<pollin, want, rcv, gets>> /\ disk' = disk
  BY Zenon DEF Idle
<1>2. running' \in [Peer -> BOOLEAN] /\ disk' \in [Peer -> [Path -> Files]]
  BY <1>1, InvFacts, Zenon DEF IInv
<1> QED BY <1>1, <1>2, InvFacts, NoneSent, IterationInv, Zenon

\* A request is refused or answered, or its file gets shorter meanwhile.
LEMMA RequestInv ==
  ASSUME IInv, NEW p \in Peer, mode[p] \in {"poll", "recv"}, NEW r \in Reads(p),
         HandleRequest(p, r), UNCHANGED <<running, pollin, want, rcv, gets>>
  PROVE  IInv'
<1> DEFINE d == Datagram(p, r)
           c == AfterRead(p, r)
           f == faults + ReadCost(r)
<1>1. r.from \in Peer /\ Queues(c) /\ f \in Nat
  BY InvFacts, ReadFacts, Zenon
<1>2. /\ running' \in [Peer -> BOOLEAN] /\ pollin' \in [Peer -> BOOLEAN]
      /\ disk \in [Peer -> [Path -> Files]]
  BY InvFacts, Zenon DEF IInv
<1>3. ASSUME NEW e \in Offered(p, d)
      PROVE  /\ e.file_name \in Path
             /\ IsFile(disk[p][e.file_name])
             /\ <<FileStart(r.from, disk[p][e.file_name])>> \in Seq(AnyDatagram)
  <2>1. e \in Table[p] /\ disk[p][e.file_name] # NoFile
    BY Zenon DEF Offered, find_shared_file_by_id
  <2>2. e.file_name \in Path
    BY <2>1, PeerAssumption, Zenon
  <2>3. disk[p][e.file_name] \in Files
    BY <1>2, <2>2, Zenon
  <2>4. IsFile(disk[p][e.file_name])
    BY <2>1, <2>3, PeerAssumption, Zenon
  <2>5. ChunksOf(disk[p][e.file_name]) \in Nat
    BY <2>4, Zenon DEF IsFile
  <2>6. FileStart(r.from, disk[p][e.file_name]) \in FileStarts(r.from, Nat)
    BY <2>5, Zenon DEF FileStart, FileStarts
  <2>7. FileStart(r.from, disk[p][e.file_name]) \in AnyDatagram
    <3>1. FileStart(r.from, disk[p][e.file_name]) \in Datagrams(r.from, Nat)
      BY <2>6, Zenon DEF Datagrams
    <3> QED BY <1>1, <3>1, Zenon DEF AnyDatagram
  <2> QED BY <2>2, <2>4, <2>7
<1>4. ASSUME NEW out \in Seq(AnyDatagram), NEW g \in Nat,
             LoopAgain(p, running[p]), Transmit(p, c, g, out), sender' = sender,
             disk' \in [Peer -> [Path -> Files]]
      PROVE  IInv'
  <2>1. Queues(chan') /\ faults' \in 0 .. MaxFaults
    BY <1>1, <1>4, TransmitInv, Zenon
  <2>2. SendersOK'
    BY <1>4, InvFacts, SendersSame, Zenon
  <2>3. PICK m : m = IF running[p] THEN "poll" ELSE "left"
    BY Zenon
  <2>4. m \in {"poll", "recv", "left"} /\ mode' = [mode EXCEPT ![p] = m]
    BY <1>4, <2>3, Zenon DEF LoopAgain
  <2>5. Sessions'
    BY <1>2, <2>4, InvFacts, LoopMoves, Zenon
  <2>6. gets' \in 0 .. MaxGets
    BY Zenon DEF IInv
  <2> QED BY <1>4, <2>1, <2>2, <2>5, <2>6, Zenon DEF IInv
<1>5. CASE /\ LoopAgain(p, running[p])
           /\ Transmit(p, c, f, << >>)
           /\ UNCHANGED <<sender, disk>>
  BY <1>1, <1>2, <1>4, <1>5, NoneSent, Zenon
<1>6. CASE /\ \E e \in Offered(p, d) :
                LET file == disk[p][e.file_name]
                IN  EndIteration(p,
                      [sr |-> sr_sender_init(file, ChunksOf(file)),
                       peer_addr |-> r.from], c, f,
                      <<FileStart(r.from, file)>>, running[p])
           /\ UNCHANGED disk
  <2>1. PICK e \in Offered(p, d) :
          EndIteration(p,
            [sr |-> sr_sender_init(disk[p][e.file_name], ChunksOf(disk[p][e.file_name])),
             peer_addr |-> r.from], c, f,
            <<FileStart(r.from, disk[p][e.file_name])>>, running[p])
    BY <1>6, Zenon
  <2>2. PICK t : t = [sr |-> sr_sender_init(disk[p][e.file_name],
                                            ChunksOf(disk[p][e.file_name])),
                      peer_addr |-> r.from]
    BY Zenon
  <2>3. Ready(t)
    BY <1>1, <1>3, <2>2, SenderInitFacts, Zenon DEF Ready
  <2>4. EndIteration(p, t, c, f, <<FileStart(r.from, disk[p][e.file_name])>>, running[p])
    BY <2>1, <2>2, Zenon
  <2>5. disk' \in [Peer -> [Path -> Files]]
    BY <1>2, <1>6, Zenon
  <2> QED BY <1>1, <1>2, <1>3, <2>3, <2>4, <2>5, IterationInv, Zenon
<1>7. CASE \E e \in Offered(p, d) : ShortRead(p, r, e)
  <2>1. PICK e \in Offered(p, d) : ShortRead(p, r, e)
    BY <1>7, Zenon
  <2>2. PICK less \in NewContent \ {NoFile} :
          disk' = [disk EXCEPT ![p][e.file_name] = less]
    BY <2>1, Zenon DEF ShortRead
  <2>3. /\ LoopAgain(p, running[p]) /\ sender' = sender
        /\ Transmit(p, c, faults + ReadCost(r) + 1,
                    <<FileStart(r.from, disk[p][e.file_name])>>)
    BY <2>1, Zenon DEF ShortRead
  <2>4. faults + ReadCost(r) + 1 \in Nat
    BY <1>1
  <2>5. less \in Files
    BY DEF Files
  <2>6. disk' \in [Peer -> [Path -> Files]]
    BY <1>2, <1>3, <2>2, <2>5, Zenon
  <2> QED BY <1>3, <1>4, <2>3, <2>4, <2>6, Zenon
<1> QED BY <1>5, <1>6, <1>7, Zenon DEF HandleRequest

\* An ACK is applied to the active transfer, if there is one.
LEMMA AckInv ==
  ASSUME IInv, NEW p \in Peer, mode[p] \in {"poll", "recv"}, NEW r \in Reads(p),
         Datagram(p, r).type = "UDP_ACK", HandleAck(p, r),
         UNCHANGED <<running, pollin, want, rcv, gets>>
  PROVE  IInv'
<1>1. /\ Datagram(p, r) \in Datagrams(p, Nat) /\ Queues(AfterRead(p, r))
      /\ faults + ReadCost(r) \in Nat
  BY InvFacts, ReadFacts, Zenon
<1>2. PICK a : a = Datagram(p, r).ack_num
  BY Zenon
<1>3. a \in Nat
  <2>1. Datagram(p, r) \in Acks(p, Nat)
    BY <1>1, DatagramFacts, Zenon
  <2> QED BY <1>2, <2>1, Zenon DEF Acks
<1>4. PICK u : u = IF sender[p] = None THEN None
                   ELSE [sender[p] EXCEPT !.sr = sr_sender_handle_ack(@, a)]
  BY Zenon
<1>5. Ready(u)
  <2>1. CASE sender[p] = None
    BY <1>4, <2>1, Zenon DEF Ready
  <2>2. CASE sender[p] # None
    <3>1. PICK t : t = sender[p]
      BY Zenon
    <3>2. Transfer(t) /\ SenderOK(t.sr)
      BY <2>2, <3>1, InvFacts, Zenon DEF Live, Ready
    <3>3. PICK F, N : F = t.sr.file_data /\ N = ChunksOf(t.sr.file_data)
      BY Zenon
    <3>4. N \in Nat /\ F \in [0 .. N - 1 -> Chunk] /\ t.sr \in SenderType(F, N)
      BY <3>2, <3>3, TransferFacts, Zenon
    <3>5. PICK s : s = sr_sender_handle_ack(t.sr, a)
      BY Zenon
    <3>6. AckHandled(F, N, t.sr, a, s)
      BY <1>3, <3>2, <3>4, <3>5, HandleAckLemma, Zenon
    <3>7. s \in SenderType(F, N) /\ SenderOK(s)
      BY <3>6, Zenon DEF AckHandled
    <3>8. u = [t EXCEPT !.sr = s]
      BY <1>4, <2>2, <3>1, <3>5, Zenon
    <3>9. u.sr = s /\ Transfer(u)
      BY <3>2, <3>3, <3>7, <3>8, TransferKept
    <3> QED BY <3>7, <3>9, Zenon DEF Live, Ready
  <2> QED BY <2>1, <2>2, Zenon
<1>6. EndIteration(p, u, AfterRead(p, r), faults + ReadCost(r), << >>, running[p])
  BY <1>2, <1>4, Zenon DEF HandleAck
<1>7. /\ running' \in [Peer -> BOOLEAN] /\ disk' \in [Peer -> [Path -> Files]]
  BY InvFacts, Zenon DEF IInv, HandleAck
<1> QED BY <1>1, <1>5, <1>6, <1>7, NoneSent, IterationInv, Zenon

\* Another datagram is dropped.
LEMMA IgnoreInv ==
  ASSUME IInv, NEW p \in Peer, mode[p] \in {"poll", "recv"}, NEW r \in Reads(p),
         IgnoreDatagram(p, r), UNCHANGED <<running, pollin, want, rcv, gets>>
  PROVE  IInv'
<1>1. Queues(AfterRead(p, r)) /\ faults + ReadCost(r) \in Nat
  BY InvFacts, ReadFacts, Zenon
<1>2. EndIteration(p, sender[p], AfterRead(p, r), faults + ReadCost(r), << >>,
                   running[p])
  BY Zenon DEF IgnoreDatagram
<1>3. /\ running' \in [Peer -> BOOLEAN] /\ disk' \in [Peer -> [Path -> Files]]
  BY InvFacts, Zenon DEF IInv, IgnoreDatagram
<1> QED BY <1>1, <1>2, <1>3, InvFacts, NoneSent, IterationInv, Zenon

\* The event loop reads a datagram.
LEMMA HandleUdpInv ==
  ASSUME IInv, NEW p \in Peer, HandleUdp(p)
  PROVE  IInv'
<1>1. /\ mode[p] \in {"poll", "recv"} /\ UNCHANGED <<running, pollin, want, rcv, gets>>
  BY Zenon DEF HandleUdp
<1>2. PICK r \in Reads(p) :
        CASE Datagram(p, r).type = "UDP_REQUEST_FILE" -> HandleRequest(p, r)
          [] Datagram(p, r).type = "UDP_ACK" -> HandleAck(p, r)
          [] OTHER -> IgnoreDatagram(p, r)
  BY Zenon DEF HandleUdp
<1>3. PICK type : type = Datagram(p, r).type
  BY Zenon
<1>4. \/ HandleRequest(p, r)
      \/ Datagram(p, r).type = "UDP_ACK" /\ HandleAck(p, r)
      \/ IgnoreDatagram(p, r)
  <2>1. CASE type = "UDP_REQUEST_FILE"
    BY <1>2, <1>3, <2>1, Zenon
  <2>2. CASE type = "UDP_ACK"
    BY <1>2, <1>3, <2>2, Zenon
  <2>3. CASE type \notin {"UDP_REQUEST_FILE", "UDP_ACK"}
    BY <1>2, <1>3, <2>3, Zenon
  <2> QED BY <2>1, <2>2, <2>3, Zenon
<1> QED BY <1>1, <1>4, RequestInv, AckInv, IgnoreInv, Zenon

-----------------------------------------------------------------------------
(* Commands *)

\* get has returned.
LEMMA ReturnedInv ==
  ASSUME IInv, NEW p \in Peer, NEW res, NEW c, Queues(c), NEW f \in Nat,
         NEW out \in Seq(AnyDatagram), Returned(p, res, c, f, out),
         disk' \in [Peer -> [Path -> Files]], UNCHANGED gets
  PROVE  IInv'
<1>1. PICK run : run = (running[p] /\ res = 0)
  BY Zenon
<1>2. /\ running' = [running EXCEPT ![p] = run]
      /\ pollin' = [pollin EXCEPT ![p] = FALSE]
      /\ want' = [want EXCEPT ![p] = None] /\ rcv' = [rcv EXCEPT ![p] = None]
  BY <1>1, Zenon DEF Returned
<1>3. running' \in [Peer -> BOOLEAN] /\ pollin' \in [Peer -> BOOLEAN]
  <2>1. run \in BOOLEAN
    BY <1>1, Zenon
  <2> QED BY <1>2, <2>1, InvFacts, Zenon
<1>4. \E m \in {"recv", "poll", "left"} : mode' = [mode EXCEPT ![p] = m]
  <2>1. CASE pollin[p]
    BY <2>1, Zenon DEF Returned
  <2>2. CASE ~ pollin[p]
    <3>1. mode' = [mode EXCEPT ![p] = IF run THEN "poll" ELSE "left"]
      BY <1>1, <2>2, Zenon DEF Returned, EndIteration, LoopAgain
    <3> QED BY <3>1, Zenon
  <2> QED BY <2>1, <2>2, Zenon
<1>5. Sessions'
  <2>1. PICK m \in {"recv", "poll", "left"} : mode' = [mode EXCEPT ![p] = m]
    BY <1>4, Zenon
  <2>2. m \in Modes /\ m \notin {"wait_start", "receiving"} /\ m # "receiving"
    BY Zenon DEF Modes
  <2> QED BY <1>2, <1>3, <2>1, <2>2, InvFacts, SessionMoves, Zenon
<1>6. Queues(chan') /\ faults' \in 0 .. MaxFaults /\ SendersOK'
  <2>1. CASE pollin[p]
    <3>1. Transmit(p, c, f, out) /\ sender' = sender
      BY <2>1, Zenon DEF Returned
    <3> QED BY <3>1, InvFacts, TransmitInv, SendersSame, Zenon
  <2>2. CASE ~ pollin[p]
    <3>1. EndIteration(p, sender[p], c, f, out, run)
      BY <1>1, <2>2, Zenon DEF Returned
    <3>2. PICK t : t = sender[p]
      BY Zenon
    <3>3. SendersOK /\ Ready(t) /\ EndIteration(p, t, c, f, out, run)
      BY <3>1, <3>2, InvFacts, Zenon
    <3> QED BY <3>3, EndIterationInv, ZenonT(30)
  <2> QED BY <2>1, <2>2, Zenon
<1>7. gets' \in 0 .. MaxGets
  BY Zenon DEF IInv
<1> QED BY <1>5, <1>6, <1>7, Zenon DEF IInv

\* What is saved, if anything, has the hash the directory gave, and goes where
\* the directory said.
Saves(p) ==
  \/ UNCHANGED disk
  \/ \E file : /\ disk' = [disk EXCEPT ![p][want[p].filename] = file]
               /\ compute_sha256(file) = want[p].hash

\* The end of get, whether or not the file is saved.
LEMMA FinishGetInv ==
  ASSUME IInv, NEW p \in Peer, want[p] \in Location, NEW file, NEW c, Queues(c),
         NEW f \in Nat, NEW out \in Seq(AnyDatagram),
         FinishGet(p, file, c, f, out), UNCHANGED gets
  PROVE  IInv' /\ Saves(p)
<1>1. disk \in [Peer -> [Path -> Files]]
  BY Zenon DEF IInv
<1>2. \E res : Returned(p, res, c, f, out)
  BY Zenon DEF FinishGet
<1>3. Saves(p)
  BY Zenon DEF FinishGet, Saves
<1>4. disk' \in [Peer -> [Path -> Files]]
  <2>1. CASE disk' = disk
    BY <1>1, <2>1, Zenon
  <2>2. CASE disk' # disk
    <3>1. PICK g : /\ disk' = [disk EXCEPT ![p][want[p].filename] = g]
                   /\ compute_sha256(g) = want[p].hash
      BY <1>3, <2>2, Zenon DEF Saves
    <3>2. want[p].filename \in Path /\ want[p].hash.sha256 \in Files
      BY LocationFacts, Zenon
    <3>3. compute_sha256(g).sha256 = g
      BY Zenon DEF compute_sha256
    <3>4. g \in Files
      BY <3>1, <3>2, <3>3, Zenon
    <3> QED BY <1>1, <3>1, <3>2, <3>4, Zenon
  <2> QED BY <2>1, <2>2, Zenon
<1> QED BY <1>2, <1>3, <1>4, ReturnedInv, Zenon

\* get goes on with a receiver, or has everything.
LEMMA ReceivingInv ==
  ASSUME IInv, NEW p \in Peer, mode[p] \in {"wait_start", "receiving"},
         NEW r, Receiver(r), NEW c, Queues(c), NEW f \in Nat,
         NEW out \in Seq(AnyDatagram), Receiving(p, r, c, f, out), UNCHANGED gets
  PROVE  IInv' /\ Saves(p)
<1>1. want[p] \in Location
  BY InvFacts, Zenon DEF Sessions
<1>2. CASE sr_receiver_is_complete(r)
  <2>1. FinishGet(p, r.file_buffer, c, f, out)
    BY <1>2, Zenon DEF Receiving
  <2> QED BY <1>1, <2>1, FinishGetInv, Zenon
<1>3. CASE ~ sr_receiver_is_complete(r)
  <2>1. /\ rcv' = [rcv EXCEPT ![p] = r]
        /\ mode' = [mode EXCEPT ![p] = "receiving"]
        /\ Transmit(p, c, f, out)
        /\ running' = running /\ pollin' = pollin /\ want' = want
        /\ sender' = sender /\ disk' = disk
    BY <1>3, Zenon DEF Receiving
  <2>2. Queues(chan') /\ faults' \in 0 .. MaxFaults
    BY <2>1, TransmitInv, Zenon
  <2>3. SendersOK'
    BY <2>1, InvFacts, SendersSame, Zenon
  <2>4. want' = [want EXCEPT ![p] = want[p]]
    BY <2>1, InvFacts, Zenon DEF Sessions
  <2>5. running' \in [Peer -> BOOLEAN] /\ pollin' \in [Peer -> BOOLEAN]
    BY <2>1, InvFacts, Zenon
  <2>6. "receiving" \in Modes
    BY Zenon DEF Modes
  <2>7. Sessions'
    BY <1>1, <2>1, <2>4, <2>5, <2>6, InvFacts, SessionMoves, Zenon
  <2>8. disk' \in [Peer -> [Path -> Files]] /\ gets' \in 0 .. MaxGets
    BY <2>1, Zenon DEF IInv
  <2>9. IInv'
    BY <2>2, <2>3, <2>7, <2>8, Zenon DEF IInv
  <2> QED BY <2>1, <2>9, Zenon DEF Saves
<1> QED BY <1>2, <1>3, Zenon

\* The answer to the request, or whatever is read in its place.
LEMMA AwaitStartInv ==
  ASSUME IInv, NEW p \in Peer, AwaitStart(p)
  PROVE  IInv' /\ Saves(p)
<1>1. PICK r \in Reads(p) :
        LET d == Datagram(p, r)
            c == AfterRead(p, r)
            f == faults + ReadCost(r)
        IN  CASE StartResult(p, r.from, d) = "return 1" ->
                   UNCHANGED disk /\ Returned(p, 1, c, f, << >>)
              [] StartResult(p, r.from, d) = "return 0" ->
                   UNCHANGED disk /\ Returned(p, 0, c, f, << >>)
              [] OTHER ->
                   Receiving(p, sr_receiver_init(d.num_chunks), c, f, << >>)
  BY Zenon DEF AwaitStart
<1>2. mode[p] = "wait_start" /\ UNCHANGED gets
  BY Zenon DEF AwaitStart
<1>3. PICK d, c, f, s : /\ d = Datagram(p, r) /\ c = AfterRead(p, r)
                        /\ f = faults + ReadCost(r)
                        /\ s = StartResult(p, r.from, d)
  BY Zenon
<1>4. d \in Datagrams(p, Nat) /\ Queues(c) /\ f \in Nat
  BY <1>3, InvFacts, ReadFacts, Zenon
<1>5. s \in {"return 1", "return 0", "start"}
  BY <1>3, Zenon DEF StartResult
<1>6. CASE s \in {"return 1", "return 0"}
  <2>1. disk' = disk /\ \E res : Returned(p, res, c, f, << >>)
    <3>1. CASE s = "return 1"
      BY <1>1, <1>3, <3>1, Zenon
    <3>2. CASE s = "return 0"
      <4>1. s # "return 1"
        BY <3>2, Zenon
      <4> QED BY <1>1, <1>3, <3>2, <4>1, Zenon
    <3> QED BY <1>6, <3>1, <3>2, Zenon
  <2>2. disk' \in [Peer -> [Path -> Files]]
    BY <2>1, Zenon DEF IInv
  <2>3. IInv'
    BY <1>2, <1>4, <2>1, <2>2, NoneSent, ReturnedInv, Zenon
  <2> QED BY <2>1, <2>3, Zenon DEF Saves
<1>7. CASE s = "start"
  <2>1. Receiving(p, sr_receiver_init(d.num_chunks), c, f, << >>)
    <3>1. s # "return 1" /\ s # "return 0"
      BY <1>7, Zenon
    <3> QED BY <1>1, <1>3, <3>1, Zenon
  <2>2. d.type = "UDP_FILE_START"
    BY <1>3, <1>7, Zenon DEF StartResult
  <2>3. d \in FileStarts(p, Nat)
    BY <1>4, <2>2, DatagramFacts, Zenon
  <2>4. d.num_chunks \in Nat
    BY <2>3, Zenon DEF FileStarts
  <2>5. Receiver(sr_receiver_init(d.num_chunks))
    BY <2>4, ReceiverInitFacts, Zenon
  <2> QED BY <1>2, <1>4, <2>1, <2>5, NoneSent, ReceivingInv, Zenon
<1> QED BY <1>5, <1>6, <1>7, Zenon

\* The loop of get reads a datagram.
LEMMA ReceiveDataInv ==
  ASSUME IInv, NEW p \in Peer, ReceiveData(p)
  PROVE  IInv' /\ Saves(p)
<1>1. PICK r \in Reads(p) :
        LET d == Datagram(p, r)
            c == AfterRead(p, r)
            f == faults + ReadCost(r)
        IN  IF ForReceiver(p, r.from, d)
            THEN Receiving(p, sr_receiver_handle_data(rcv[p], d), c, f,
                           AckSeq(r.from, sr_receiver_send_ack(rcv[p], d)))
            ELSE Receiving(p, rcv[p], c, f, << >>)
  BY Zenon DEF ReceiveData
<1>2. mode[p] = "receiving" /\ UNCHANGED gets
  BY Zenon DEF ReceiveData
<1>3. PICK d, c, f : /\ d = Datagram(p, r) /\ c = AfterRead(p, r)
                     /\ f = faults + ReadCost(r)
  BY Zenon
<1>4. r.from \in Peer /\ d \in Datagrams(p, Nat) /\ Queues(c) /\ f \in Nat
  BY <1>3, InvFacts, ReadFacts, Zenon
<1>5. Receiver(rcv[p])
  BY <1>2, InvFacts, Zenon DEF Sessions
<1>6. CASE ForReceiver(p, r.from, d)
  <2>1. Receiving(p, sr_receiver_handle_data(rcv[p], d), c, f,
                  AckSeq(r.from, sr_receiver_send_ack(rcv[p], d)))
    BY <1>1, <1>3, <1>6, Zenon
  <2>2. d \in Datas(p, Nat)
    BY <1>4, <1>6, DatagramFacts, Zenon DEF ForReceiver
  <2>3. d.seq_num \in Nat /\ d.data \in Chunk
    BY <2>2, Zenon DEF Datas
  <2>4. Receiver(sr_receiver_handle_data(rcv[p], d))
    BY <1>5, <2>3, HandleDataTyped, Zenon
  <2>5. AckSeq(r.from, sr_receiver_send_ack(rcv[p], d)) \in Seq(AnyDatagram)
    BY <1>4, <2>3, AckSeqFacts, Zenon
  <2> QED BY <1>2, <1>4, <2>1, <2>4, <2>5, ReceivingInv, Zenon
<1>7. CASE ~ ForReceiver(p, r.from, d)
  <2>1. Receiving(p, rcv[p], c, f, << >>)
    BY <1>1, <1>3, <1>7, Zenon
  <2> QED BY <1>2, <1>4, <1>5, <2>1, NoneSent, ReceivingInv, Zenon
<1> QED BY <1>6, <1>7, Zenon

\* get asks the owner of the file for it.
LEMMA GetInv ==
  ASSUME IInv, NEW p \in Peer, get(p)
  PROVE  IInv'
<1>1. PICK loc \in Location, b \in PollUdp(p) :
        /\ want' = [want EXCEPT ![p] = loc]
        /\ pollin' = [pollin EXCEPT ![p] = b]
        /\ Transmit(p, chan, faults, <<Request(loc)>>)
  BY Zenon DEF get
<1>2. /\ mode[p] = "poll" /\ gets < MaxGets /\ gets' = gets + 1
      /\ mode' = [mode EXCEPT ![p] = "wait_start"]
      /\ running' = running /\ rcv' = rcv /\ sender' = sender /\ disk' = disk
  BY Zenon DEF get
<1>3. <<Request(loc)>> \in Seq(AnyDatagram)
  <2>1. loc.peer \in Peer
    BY LocationFacts, Zenon
  <2>2. Request(loc) \in Requests(loc.peer)
    BY Zenon DEF Requests, Request
  <2>3. Request(loc) \in Datagrams(loc.peer, Nat)
    BY <2>2, Zenon DEF Datagrams
  <2>4. Request(loc) \in AnyDatagram
    BY <2>1, <2>3, Zenon DEF AnyDatagram
  <2> QED BY <2>4
<1>4. Queues(chan') /\ faults' \in 0 .. MaxFaults
  BY <1>1, <1>3, InvFacts, TransmitInv, Zenon
<1>5. running' \in [Peer -> BOOLEAN] /\ pollin' \in [Peer -> BOOLEAN]
  <2>1. b \in BOOLEAN
    BY Zenon DEF PollUdp
  <2> QED BY <1>1, <1>2, <2>1, InvFacts, Zenon
<1>6. rcv' = [rcv EXCEPT ![p] = None]
  <2>1. rcv[p] = None /\ rcv = [q \in Peer |-> rcv[q]]
    BY <1>2, InvFacts, Zenon DEF Sessions
  <2> QED BY <1>2, <2>1, Zenon
<1>7. "wait_start" \in Modes /\ "wait_start" # "receiving"
  BY Zenon DEF Modes
<1>8. Sessions'
  BY <1>1, <1>2, <1>5, <1>6, <1>7, InvFacts, SessionMoves, Zenon
<1>9. SendersOK' /\ disk' \in [Peer -> [Path -> Files]]
  BY <1>2, InvFacts, SendersSame, Zenon DEF IInv
<1>10. gets' \in 0 .. MaxGets
  BY <1>2, PeerAssumption DEF IInv
<1> QED BY <1>4, <1>8, <1>9, <1>10, Zenon DEF IInv

\* quit clears running; the iteration goes on.
LEMMA QuitInv ==
  ASSUME IInv, NEW p \in Peer, quit(p)
  PROVE  IInv'
<1>1. /\ mode[p] \in {"poll", "recv"} /\ running' = [running EXCEPT ![p] = FALSE]
      /\ UNCHANGED <<pollin, want, rcv, gets>> /\ disk' = disk
  BY Zenon DEF quit
<1>2. /\ running' \in [Peer -> BOOLEAN] /\ pollin' \in [Peer -> BOOLEAN]
      /\ disk' \in [Peer -> [Path -> Files]]
  BY <1>1, InvFacts, Zenon DEF IInv
<1>3. CASE EndIteration(p, sender[p], chan, faults, << >>, FALSE)
  BY <1>1, <1>2, <1>3, InvFacts, NoneSent, IterationInv, Zenon
<1>4. CASE /\ mode' = [mode EXCEPT ![p] = "recv"]
           /\ UNCHANGED <<sender, chan, faults>>
  <2>1. Sessions'
    BY <1>1, <1>2, <1>4, InvFacts, LoopMoves, Zenon
  <2>2. SendersOK'
    BY <1>4, InvFacts, SendersSame, Zenon
  <2> QED BY <1>1, <1>2, <1>4, <2>1, <2>2, Zenon DEF IInv
<1> QED BY <1>3, <1>4, Zenon DEF quit

\* Steps of the environment: no client moves.
LEMMA EnvironmentInv ==
  ASSUME IInv, UNCHANGED <<mode, running, pollin, want, rcv, sender, gets>>,
         disk' \in [Peer -> [Path -> Files]], Queues(chan'),
         faults' \in 0 .. MaxFaults
  PROVE  IInv'
<1>1. Sessions'
  BY Zenon DEF IInv, Sessions, Receiver, ReceiverType
<1>2. SendersOK'
  BY SendersSame, Zenon DEF IInv
<1> QED BY <1>1, <1>2, Zenon DEF IInv

\* A user changes a file.
LEMMA EditFileInv ==
  ASSUME IInv, NEW p \in Peer, EditFile(p)
  PROVE  IInv'
<1>1. PICK path \in Path, file \in NewContent :
        disk' = [disk EXCEPT ![p][path] = file]
  BY Zenon DEF EditFile
<1>2. /\ faults < MaxFaults /\ faults' = faults + 1 /\ chan' = chan
      /\ UNCHANGED <<mode, running, pollin, want, rcv, sender, gets>>
  BY Zenon DEF EditFile
<1>3. file \in Files
  BY DEF Files
<1>4. disk' \in [Peer -> [Path -> Files]]
  BY <1>1, <1>3, Zenon DEF IInv
<1>5. faults' \in 0 .. MaxFaults
  BY <1>2, PeerAssumption DEF IInv
<1>6. Queues(chan')
  BY <1>2, Zenon DEF IInv
<1> QED BY <1>2, <1>4, <1>5, <1>6, EnvironmentInv, Zenon

\* A datagram is damaged on its way.
LEMMA DamageStepInv ==
  ASSUME IInv, NEW p \in Peer, NEW q \in Peer, Damage(q, p)
  PROVE  IInv'
<1>1. PICK k \in DOMAIN chan[q][p] :
        \E d \in Damaged(chan[q][p][k]) : chan' = [chan EXCEPT ![q][p][k] = d]
  BY Zenon DEF Damage
<1>2. /\ faults < MaxFaults /\ faults' = faults + 1 /\ disk' = disk
      /\ UNCHANGED <<mode, running, pollin, want, rcv, sender, gets>>
  BY Zenon DEF Damage
<1>3. Queues(chan')
  BY <1>1, InvFacts, DamageInv, Zenon
<1>4. faults' \in 0 .. MaxFaults
  BY <1>2, PeerAssumption DEF IInv
<1>5. disk' \in [Peer -> [Path -> Files]]
  BY <1>2, Zenon DEF IInv
<1> QED BY <1>2, <1>3, <1>4, <1>5, EnvironmentInv, Zenon

-----------------------------------------------------------------------------
(* Theorems *)

\* The initial states.
LEMMA InitInv ==
  ASSUME Init
  PROVE  IInv
<1>1. Sessions
  BY Zenon DEF Init, Sessions, Modes
<1>2. SendersOK
  BY Zenon DEF Init, SendersOK
<1>3. disk \in [Peer -> [Path -> Files]]
  BY PeerAssumption, Zenon DEF Init
<1>4. Queues(chan)
  <2>1. chan = [q \in Peer |-> [p \in Peer |-> << >>]]
    BY Zenon DEF Init
  <2>2. \A q, p \in Peer : chan[q][p] = << >>
    BY <2>1, Zenon
  <2>3. chan = [q \in Peer |-> [p \in Peer |-> chan[q][p]]]
    BY <2>1, <2>2, Zenon
  <2>4. \A p \in Peer : << >> \in Seq(Datagrams(p, Nat))
    BY EmptySeq, Zenon
  <2> QED BY <2>2, <2>3, <2>4, Zenon DEF Queues
<1>5. faults \in 0 .. MaxFaults /\ gets \in 0 .. MaxGets
  BY PeerAssumption DEF Init
<1> QED BY <1>1, <1>2, <1>3, <1>4, <1>5, Zenon DEF IInv

\* Every step preserves the invariant.
LEMMA NextInv ==
  ASSUME IInv, [Next]_vars
  PROVE  IInv'
<1>1. CASE UNCHANGED vars
  <2>1. /\ UNCHANGED <<mode, running, pollin, want, rcv, sender, gets>>
        /\ disk' = disk /\ chan' = chan /\ faults' = faults
    BY <1>1, Zenon DEF vars
  <2>2. /\ disk' \in [Peer -> [Path -> Files]] /\ Queues(chan')
        /\ faults' \in 0 .. MaxFaults
    BY <2>1, Zenon DEF IInv
  <2> QED BY <2>1, <2>2, EnvironmentInv, Zenon
<1>2. CASE \E p \in Peer : Proceed(p)
  BY <1>2, IdleInv, HandleUdpInv, AwaitStartInv, ReceiveDataInv, Zenon
     DEF Proceed
<1>3. CASE \E p \in Getter : get(p)
  BY <1>3, PeerAssumption, GetInv, Zenon
<1>4. CASE \E p \in Quitter : quit(p)
  BY <1>4, PeerAssumption, QuitInv, Zenon
<1>5. CASE \E p \in Editor : EditFile(p)
  BY <1>5, PeerAssumption, EditFileInv, Zenon
<1>6. CASE \E p, q \in Peer : Damage(q, p)
  BY <1>6, DamageStepInv, Zenon
<1> QED BY <1>1, <1>2, <1>3, <1>4, <1>5, <1>6, Zenon DEF Next

\* The invariant of PeerTransfer: what a client remembers fits what it is doing,
\* and its transfer, if it has one, is sound and waits for a packet.
THEOREM Invariance == Spec => []IInv
<1>1. Init => IInv
  BY InitInv, Zenon
<1>2. IInv /\ [Next]_vars => IInv'
  BY NextInv, Zenon
<1> QED BY <1>1, <1>2, PTL DEF Spec

\* Type correctness of the clients: inside get, and only there, a client has
\* the location of a shared file, and a receiver while it is in the loop; every
\* queued datagram is one its addressee knows how to read; and whatever requests,
\* stale packets and damage do, only whole files are found on a disk.
THEOREM TypeCorrect == Spec => []TypeOK
<1>1. ASSUME IInv
      PROVE  TypeOK
  <2>1. sender = [p \in Peer |-> sender[p]]
    BY <1>1, Zenon DEF IInv, SendersOK
  <2>2. \A p \in Peer : sender[p] # None => Transfer(sender[p])
    BY <1>1, Zenon DEF IInv, SendersOK, Busy, Live
  <2> QED BY <1>1, <2>1, <2>2, Zenon DEF IInv, Sessions, Modes, TypeOK
<1> QED BY <1>1, Invariance, PTL

\* What SenderSound says of one sender.
Sound(s) ==
  /\ s.base < s.next_seq /\ s.next_seq <= s.base + WINDOW_SIZE
  /\ \A n \in s.base .. s.next_seq - 1 :
       /\ s.window[Idx(n)].state # "PKT_EMPTY"
       /\ s.window[Idx(n)].seq_num = n
       /\ s.window[Idx(n)].data = s.file_data[n]
  /\ s.window[Idx(s.base)].state = "PKT_PENDING"
  /\ s.chunks_acked = Cardinality(Acked(s))

\* For any number of clients, requests, ACKs and faults global_sender stays
\* sound: an ACK of an earlier transfer or of another client acknowledges at
\* most a packet that is in the window, and a transfer that is active when poll
\* is reached has a packet to wait for.
THEOREM SendersStaySound == Spec => []SenderSound
<1>1. ASSUME NEW s, SenderOK(s), s.base < s.next_seq
      PROVE  Sound(s)
  BY <1>1, Zenon DEF SenderOK, SendWindowOK, Sound
<1>2. IInv => \A p \in Peer : sender[p] # None => Sound(sender[p].sr)
  BY <1>1, Zenon DEF IInv, SendersOK, Busy, Live
<1>3. IInv => SenderSound
  BY <1>2, Zenon DEF SenderSound, Sound
<1> QED BY <1>3, Invariance, PTL

\* The step SavedAsShared allows.
SaveStep ==
  \A p \in Peer, path \in Path :
    disk'[p][path] # disk[p][path] /\ want'[p] # want[p] =>
      \E q \in Peer : \E e \in Table[q] :
        /\ want[p].peer = q /\ want[p].file_id = e.file_id
        /\ path = e.file_name
        /\ compute_sha256(disk'[p][path]) = e.hash

\* Whatever arrived in whatever order, what get saves has the hash, and goes
\* under the name, that the directory listed for the file it asked for.
THEOREM SavesOnlyShared == Spec => SavedAsShared
<1>1. ASSUME UNCHANGED disk \/ UNCHANGED want
      PROVE  SaveStep
  BY <1>1, Zenon DEF SaveStep
<1>2. ASSUME IInv, NEW p \in Peer, mode[p] \in {"wait_start", "receiving"}, Saves(p)
      PROVE  SaveStep
  <2>1. CASE UNCHANGED disk
    BY <1>1, <2>1, Zenon
  <2>2. CASE ~ UNCHANGED disk
    <3>1. PICK file : /\ disk' = [disk EXCEPT ![p][want[p].filename] = file]
                      /\ compute_sha256(file) = want[p].hash
      BY <1>2, <2>2, Zenon DEF Saves
    <3>2. disk \in [Peer -> [Path -> Files]] /\ want[p] \in Location
      BY <1>2, Zenon DEF IInv, Sessions
    <3>3. PICK e \in Table[want[p].peer] : /\ want[p].file_id = e.file_id
                                           /\ want[p].filename = e.file_name
                                           /\ want[p].hash = e.hash
      BY <3>2, LocationFacts, Zenon
    <3>4. want[p].peer \in Peer /\ want[p].filename \in Path
      BY <3>2, LocationFacts, Zenon
    <3>5. ASSUME NEW q \in Peer, NEW path \in Path,
                 disk'[q][path] # disk[q][path]
          PROVE  q = p /\ path = want[p].filename /\ disk'[q][path] = file
      BY <3>1, <3>2, <3>4, <3>5, Zenon
    <3> SUFFICES ASSUME NEW q \in Peer, NEW path \in Path,
                        disk'[q][path] # disk[q][path]
                 PROVE  \E o \in Peer : \E x \in Table[o] :
                          /\ want[q].peer = o /\ want[q].file_id = x.file_id
                          /\ path = x.file_name
                          /\ compute_sha256(disk'[q][path]) = x.hash
      BY Zenon DEF SaveStep
    <3>6. q = p /\ path = want[p].filename /\ disk'[q][path] = file
      BY <3>5, Zenon
    <3> QED BY <3>1, <3>3, <3>4, <3>6, Zenon
  <2> QED BY <2>1, <2>2, Zenon
<1>3. ASSUME IInv, Next
      PROVE  SaveStep
  <2>1. ASSUME NEW p \in Peer, Idle(p) \/ HandleUdp(p)
        PROVE  SaveStep
    BY <1>1, <2>1, Zenon DEF Idle, HandleUdp
  <2>2. ASSUME NEW p \in Peer, AwaitStart(p) \/ ReceiveData(p)
        PROVE  SaveStep
    <3>1. mode[p] \in {"wait_start", "receiving"}
      BY <2>2, Zenon DEF AwaitStart, ReceiveData
    <3> QED BY <1>2, <1>3, <2>2, <3>1, AwaitStartInv, ReceiveDataInv, Zenon
  <2>3. ASSUME NEW p, get(p) \/ quit(p) \/ EditFile(p)
        PROVE  SaveStep
    BY <1>1, <2>3, Zenon DEF get, quit, EditFile
  <2>4. ASSUME NEW p, NEW q, Damage(q, p)
        PROVE  SaveStep
    BY <1>1, <2>4, Zenon DEF Damage
  <2> QED BY <1>3, <2>1, <2>2, <2>3, <2>4, Zenon DEF Next, Proceed
<1>4. IInv /\ [Next]_vars => [SaveStep]_vars
  BY <1>3, Zenon
<1> QED BY <1>4, Invariance, PTL DEF Spec, SavedAsShared, SaveStep
=============================================================================
