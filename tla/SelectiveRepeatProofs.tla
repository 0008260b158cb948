----------------------- MODULE SelectiveRepeatProofs ------------------------
(***************************************************************************)
(* Proofs about SelectiveRepeat and DamagedTransfer for every window size, *)
(* retry limit, file and bound on faults: the inductive invariants action  *)
(* by action, from what SRWindowProofs says of each sr_* operator.         *)
(***************************************************************************)
EXTENDS DamagedTransfer, SRWindowProofs

-----------------------------------------------------------------------------
(* The initial state *)

\* Both ends start with empty windows.
LEMMA InitInv == Init => TypeOK /\ Inv
<1> SUFFICES ASSUME Init
             PROVE  TypeOK /\ Inv
  BY Zenon
<1> USE WindowAssumption, TransferAssumption
<1>1. snd \in SenderType(FileData, NumChunks)
  BY DEF Init, sr_sender_init, SenderType, SenderEntry, PacketState
<1>2. rcv \in ReceiverType(NumChunks)
  BY DEF Init, sr_receiver_init, ReceiverType, ReceiverEntry
<1>3. TypeOK
  BY <1>1, <1>2 DEF Init, TypeOK
<1>4. Acked(snd) = {}
  BY DEF Init, sr_sender_init, Acked
<1>5. SenderOK(snd)
  <2>1. /\ snd.base = 0 /\ snd.next_seq = 0 /\ snd.chunks_acked = 0
        /\ \A i \in Slots : snd.window[i].state = "PKT_EMPTY"
    BY Zenon DEF Init, sr_sender_init
  <2> QED BY <1>4, <2>1, FS_EmptySet DEF SenderOK, SendWindowOK
<1>6. /\ rcv.base = 0 /\ rcv.chunks_received = 0 /\ rcv.num_chunks = NumChunks
      /\ \A i \in Slots : ~ rcv.window[i].received
  BY Zenon DEF Init, sr_receiver_init
<1>7. Held(rcv) = {}
  BY <1>6, IdxType DEF Held
<1>8. ReceiverOK(rcv, FileData)
  BY <1>6, <1>7, IdxType, FS_EmptySet DEF ReceiverOK, RecvWindowOK
<1>9. Inv
  BY <1>4, <1>5, <1>7, <1>8, Zenon DEF Init, Inv, AckedIsHeld
<1> QED BY <1>3, <1>9, Zenon

-----------------------------------------------------------------------------
(* The steps *)

\* The packets that carry the chunk they name are finitely many.
LEMMA GoodPacketsFinite ==
  ASSUME NEW P, P \subseteq {build_data_packet(n, FileData[n]) :
                              n \in 0 .. NumChunks - 1}
  PROVE  IsFiniteSet(P) /\ Cardinality(P) \in Nat
<1> DEFINE D == 0 .. NumChunks - 1
           G == {build_data_packet(n, FileData[n]) : n \in D}
           f == [n \in D |-> build_data_packet(n, FileData[n])]
<1>1. IsFiniteSet(D)
  BY FS_Interval, TransferAssumption
<1>2. f \in Surjection(D, G)
  BY Zenon DEF Surjection
<1>3. IsFiniteSet(G)
  BY <1>1, <1>2, FS_Surjection
<1> QED BY <1>3, FS_Subset, FS_CardinalityType, Zenon

\* The part of the loop guarded by transfer_active, started with sender s.
LEMMA TransferStepLemma ==
  ASSUME TypeOK,
         NEW s \in SenderType(FileData, NumChunks), SenderOK(s),
         NEW expired, TransferStep(s, expired)
  PROVE  /\ snd' \in SenderType(FileData, NumChunks)
         /\ SenderOK(snd')
         /\ snd'.base = s.base
         /\ s.next_seq <= snd'.next_seq
         /\ Acked(snd') = Acked(s)
         /\ data_net' \subseteq DataPacket(NumChunks)
         /\ \A p \in data_net' \ data_net :
              /\ p.ok /\ p.seq_num < snd'.next_seq
              /\ p.seq_num \notin Acked(snd')
              /\ p.data = FileData[p.seq_num]
         /\ faults' \in 0 .. MaxFaults
         /\ transfer' \in {"active", "done", "aborted"}
         /\ transfer' = "done" => sr_sender_is_complete(snd')
<1> DEFINE w   == sr_sender_send_window(s)
           out == FirstPackets(s) \cup RetransmittedPackets(w, expired)
<1>1. /\ w \in SenderType(FileData, NumChunks) /\ SenderOK(w) /\ w.base = s.base
      /\ s.next_seq <= w.next_seq /\ Acked(w) = Acked(s)
      /\ \A p \in FirstPackets(s) :
           /\ p \in DataPacket(NumChunks)
           /\ p.ok
           /\ p.seq_num < w.next_seq
           /\ p.seq_num \notin Acked(w)
           /\ p.data = FileData[p.seq_num]
  <2>1. WindowSent(FileData, NumChunks, s, w)
    BY SendWindowLemma, TransferAssumption, Zenon
  <2> HIDE DEF w
  <2> QED BY <2>1, Zenon DEF WindowSent
<1>2. PICK kept \in SUBSET out : /\ LossySend(out, kept)
                                 /\ data_net' = data_net \cup kept
  BY Zenon DEF TransferStep
<1>3. /\ snd' = sr_sender_check_timeouts(w, expired)
      /\ transfer' = IF TimeoutsFail(w, expired) THEN "aborted"
                     ELSE IF sr_sender_is_complete(snd') THEN "done"
                     ELSE "active"
  BY Zenon DEF TransferStep
<1> HIDE DEF w
<1>4. /\ snd' \in SenderType(FileData, NumChunks) /\ SenderOK(snd') /\ snd'.base = w.base
      /\ snd'.next_seq = w.next_seq /\ Acked(snd') = Acked(w)
      /\ \A p \in RetransmittedPackets(w, expired) :
           /\ p \in DataPacket(NumChunks)
           /\ p.ok
           /\ p.seq_num < w.next_seq
           /\ p.seq_num \notin Acked(snd')
           /\ p.data = FileData[p.seq_num]
  <2>1. TimeoutsChecked(FileData, NumChunks, w, expired, snd')
    BY <1>1, <1>3, CheckTimeoutsLemma, TransferAssumption, Zenon
  <2> QED BY <2>1, Zenon DEF TimeoutsChecked
<1>5. ASSUME NEW p \in out
      PROVE  /\ p \in DataPacket(NumChunks)
             /\ p.ok
             /\ p.seq_num < snd'.next_seq
             /\ p.seq_num \notin Acked(snd')
             /\ p.data = FileData[p.seq_num]
  BY <1>1, <1>4, Zenon
<1> HIDE DEF out
<1>6. faults' \in 0 .. MaxFaults
  <2>1. ASSUME NEW p \in out
        PROVE  \E n \in 0 .. NumChunks - 1 :
                 p = build_data_packet(n, FileData[n])
    BY <1>5, Zenon DEF DataPacket, build_data_packet
  <2>2. Cardinality(out \ kept) \in Nat
    BY <2>1, GoodPacketsFinite, Zenon
  <2> QED BY <1>2, <2>2, TransferAssumption DEF LossySend, TypeOK
<1>7. /\ data_net' \subseteq DataPacket(NumChunks)
      /\ \A p \in data_net' \ data_net :
           /\ p.ok /\ p.seq_num < snd'.next_seq
           /\ p.seq_num \notin Acked(snd')
           /\ p.data = FileData[p.seq_num]
  BY <1>2, <1>5, Zenon DEF TypeOK
<1> QED BY <1>1, <1>3, <1>4, <1>6, <1>7, Zenon

\* Reading a packet leaves no packet in flight that was not there before.
LEMMA AfterReadSubset ==
  ASSUME NEW net, NEW p, NEW rest \in AfterRead(net, p)
  PROVE  rest \subseteq net
BY Zenon DEF AfterRead

\* What every step keeps of the progress made: the action of NoRegress.
KeepsProgress ==
  /\ snd.base <= snd'.base
  /\ snd.next_seq <= snd'.next_seq
  /\ Acked(snd) \subseteq Acked(snd')
  /\ rcv.base <= rcv'.base
  /\ Held(rcv) \subseteq Held(rcv')
  /\ \A i \in 0 .. rcv.base - 1 : rcv'.file_buffer[i] = rcv.file_buffer[i]

\* What every step may put on the wire: the action of OnlyUnackedSent.
SendsUnacked ==
  \A p \in data_net' \ data_net : p.seq_num \notin Acked(snd')

\* An iteration of the owner's loop, s being the sender after the ACK (if any)
\* has been handled.
LEMMA OwnerStepInv ==
  ASSUME TypeOK, Inv,
         NEW s \in SenderType(FileData, NumChunks), SenderOK(s),
         snd.base <= s.base, s.next_seq = snd.next_seq,
         Acked(snd) \subseteq Acked(s), Acked(s) \subseteq Held(rcv),
         NEW expired, TransferStep(s, expired),
         ack_net' \subseteq ack_net, rcv' = rcv, getting' = getting
  PROVE  TypeOK' /\ Inv' /\ KeepsProgress /\ SendsUnacked
<1>1. /\ snd' \in SenderType(FileData, NumChunks)
      /\ SenderOK(snd')
      /\ snd'.base = s.base
      /\ s.next_seq <= snd'.next_seq
      /\ Acked(snd') = Acked(s)
      /\ data_net' \subseteq DataPacket(NumChunks)
      /\ \A p \in data_net' \ data_net :
           /\ p.ok /\ p.seq_num < snd'.next_seq
           /\ p.seq_num \notin Acked(snd')
           /\ p.data = FileData[p.seq_num]
      /\ faults' \in 0 .. MaxFaults
      /\ transfer' \in {"active", "done", "aborted"}
      /\ transfer' = "done" => sr_sender_is_complete(snd')
  BY TransferStepLemma, Zenon
<1>2. TypeOK'
  BY <1>1, Zenon DEF TypeOK
<1>2a. snd.next_seq \in Nat /\ snd'.next_seq \in Nat
  BY <1>1, TransferAssumption DEF TypeOK, SenderType
<1>2b. \A p \in data_net' :
         p.ok /\ p.seq_num < snd'.next_seq /\ p.data = FileData[p.seq_num]
  <2>1. ASSUME NEW p \in data_net
        PROVE  p.ok /\ p.seq_num < snd'.next_seq /\ p.data = FileData[p.seq_num]
    <3>1. p.seq_num \in Int /\ p.ok /\ p.seq_num < snd.next_seq
      BY DEF TypeOK, Inv, DataPacket
    <3>2. p.data = FileData[p.seq_num]
      BY Zenon DEF Inv
    <3> QED BY <1>1, <1>2a, <3>1, <3>2
  <2> QED BY <1>1, <2>1, Zenon
<1>3. \A n \in Held(rcv) : n < snd'.next_seq
  <2>1. \A n \in Held(rcv) : n \in Int /\ n < snd.next_seq
    BY DEF Inv, Held
  <2> QED BY <1>1, <1>2a, <2>1
<1>4. Inv'
  BY <1>1, <1>2b, <1>3, Zenon DEF Inv, AckedIsHeld
<1>5. KeepsProgress
  <2>1. rcv.base \in Nat
    BY TransferAssumption DEF TypeOK, ReceiverType
  <2> QED BY <1>1, <2>1 DEF KeepsProgress
<1> QED BY <1>1, <1>2, <1>4, <1>5, Zenon DEF SendsUnacked

\* Every action preserves the invariant and the progress made.
LEMMA NextInv ==
  TypeOK /\ Inv /\ [Next]_vars => TypeOK' /\ Inv' /\ KeepsProgress /\ SendsUnacked
<1> SUFFICES ASSUME TypeOK, Inv, [Next]_vars
             PROVE  TypeOK' /\ Inv' /\ KeepsProgress /\ SendsUnacked
  BY Zenon
<1>0. /\ snd \in SenderType(FileData, NumChunks) /\ SenderOK(snd)
      /\ rcv \in ReceiverType(NumChunks) /\ ReceiverOK(rcv, FileData)
      /\ snd.base \in Nat /\ snd.next_seq \in Nat /\ rcv.base \in Nat
  BY TransferAssumption DEF TypeOK, Inv, SenderType, ReceiverType
<1>1. CASE SenderIdle
  <2>1. PICK expired : TransferStep(snd, expired)
    BY <1>1, Zenon DEF SenderIdle
  <2>2. rcv' = rcv /\ getting' = getting /\ ack_net' \subseteq ack_net
    BY <1>1, Zenon DEF SenderIdle
  <2>3. Acked(snd) \subseteq Held(rcv)
    BY Zenon DEF Inv, AckedIsHeld
  <2>4. snd.base <= snd.base
    BY <1>0
  <2> QED BY <1>0, <2>1, <2>2, <2>3, <2>4, OwnerStepInv, Zenon
<1>2. ASSUME NEW a \in ack_net, SenderAck(a)
      PROVE  TypeOK' /\ Inv' /\ KeepsProgress /\ SendsUnacked
  <2> DEFINE k == a.ack_num
             s == sr_sender_handle_ack(snd, k)
  <2>1. PICK expired : TransferStep(s, expired)
    BY <1>2, Zenon DEF SenderAck
  <2>2. k \in Nat /\ k \in Held(rcv)
    BY TransferAssumption DEF TypeOK, Inv, AckPacket
  <2> HIDE DEF k
  <2>3. /\ s \in SenderType(FileData, NumChunks) /\ SenderOK(s)
        /\ snd.base <= s.base /\ s.next_seq = snd.next_seq
        /\ Acked(snd) \subseteq Acked(s)
        /\ Acked(s) \subseteq Acked(snd) \cup {k}
    <3>1. AckHandled(FileData, NumChunks, snd, k, s)
      BY <1>0, <2>2, HandleAckLemma, TransferAssumption, Zenon
    <3> HIDE DEF s
    <3> QED BY <3>1, Zenon DEF AckHandled
  <2> HIDE DEF s
  <2>4. Acked(s) \subseteq Held(rcv)
    BY <2>2, <2>3, Zenon DEF Inv, AckedIsHeld
  <2>5. ack_net' \subseteq ack_net /\ rcv' = rcv /\ getting' = getting
    BY <1>2, AfterReadSubset, Zenon DEF SenderAck
  <2> QED BY <2>1, <2>3, <2>4, <2>5, OwnerStepInv, Zenon
<1>3. ASSUME NEW a \in ack_net, LateAck(a)
      PROVE  TypeOK' /\ Inv' /\ KeepsProgress /\ SendsUnacked
  <2>1. ack_net' \subseteq ack_net
    BY <1>3, AfterReadSubset, Zenon DEF LateAck
  <2>2. /\ snd' = snd /\ transfer' = transfer /\ rcv' = rcv
        /\ getting' = getting /\ data_net' = data_net /\ faults' = faults
    BY <1>3, Zenon DEF LateAck
  <2>3. TypeOK' /\ Inv'
    BY <2>1, <2>2, Zenon DEF TypeOK, Inv, AckedIsHeld
  <2> QED BY <1>0, <2>2, <2>3 DEF KeepsProgress, SendsUnacked
<1>4. ASSUME NEW p \in data_net, ReceiveData(p)
      PROVE  TypeOK' /\ Inv' /\ KeepsProgress /\ SendsUnacked
  <2>1. p \in DataPacket(NumChunks) /\ p.ok /\ p.data = FileData[p.seq_num]
        /\ p.seq_num < snd.next_seq
    BY Zenon DEF TypeOK, Inv
  <2>2. rcv' = sr_receiver_handle_data(rcv, p)
    BY <1>4, Zenon DEF ReceiveData
  <2>3. /\ rcv' \in ReceiverType(NumChunks) /\ ReceiverOK(rcv', FileData)
        /\ rcv.base <= rcv'.base
        /\ \A i \in 0 .. rcv.base - 1 : rcv'.file_buffer[i] = rcv.file_buffer[i]
        /\ Held(rcv) \subseteq Held(rcv')
        /\ Held(rcv') \subseteq Held(rcv) \cup {p.seq_num}
        /\ DataAcked(rcv, p) => p.seq_num \in Held(rcv')
    <3>1. DataHandled(FileData, NumChunks, rcv, p, rcv')
      BY <1>0, <2>1, <2>2, HandleDataLemma, TransferAssumption, Zenon
    <3> QED BY <3>1, Zenon DEF DataHandled
  <2>4. PICK kept \in SUBSET sr_receiver_send_ack(rcv, p) :
          /\ LossySend(sr_receiver_send_ack(rcv, p), kept)
          /\ ack_net' = ack_net \cup kept
    BY <1>4, Zenon DEF ReceiveData
  <2>5. ASSUME NEW a \in kept
        PROVE  a \in AckPacket(NumChunks) /\ a.ack_num \in Held(rcv')
    <3>1. DataAcked(rcv, p) /\ a = [ack_num |-> p.seq_num, ok |-> TRUE]
      BY Zenon DEF sr_receiver_send_ack, build_ack_packet
    <3>2. p.seq_num \in 0 .. NumChunks - 1
      BY <2>1, Zenon DEF DataPacket
    <3> QED BY <2>3, <3>1, <3>2, Zenon DEF AckPacket
  <2>6. faults' \in 0 .. MaxFaults
    <3>1. IsFiniteSet(sr_receiver_send_ack(rcv, p))
      BY FS_Singleton, FS_EmptySet, Zenon DEF sr_receiver_send_ack
    <3>2. Cardinality(sr_receiver_send_ack(rcv, p) \ kept) \in Nat
      BY <3>1, FS_Subset, FS_CardinalityType, Zenon
    <3> QED BY <2>4, <3>2, TransferAssumption DEF LossySend, TypeOK
  <2>7. /\ snd' = snd /\ transfer' = transfer
        /\ data_net' \subseteq data_net
        /\ getting' = IF sr_receiver_is_complete(rcv') THEN "complete" ELSE getting
        /\ getting = "receiving"
    BY <1>4, AfterReadSubset, Zenon DEF ReceiveData
  <2>8. TypeOK'
    BY <2>3, <2>4, <2>5, <2>6, <2>7, Zenon DEF TypeOK
  <2>9. Inv'
    BY <2>1, <2>3, <2>4, <2>5, <2>7, Zenon DEF Inv, AckedIsHeld
  <2> QED BY <1>0, <2>3, <2>7, <2>8, <2>9 DEF KeepsProgress, SendsUnacked
<1>5. ASSUME NEW p \in data_net, LateData(p)
      PROVE  TypeOK' /\ Inv' /\ KeepsProgress /\ SendsUnacked
  <2>1. data_net' \subseteq data_net
    BY <1>5, AfterReadSubset, Zenon DEF LateData
  <2>2. /\ snd' = snd /\ transfer' = transfer /\ rcv' = rcv
        /\ getting' = getting /\ ack_net' = ack_net /\ faults' = faults
    BY <1>5, Zenon DEF LateData
  <2>3. TypeOK' /\ Inv'
    BY <2>1, <2>2, Zenon DEF TypeOK, Inv, AckedIsHeld
  <2> QED BY <1>0, <2>1, <2>2, <2>3 DEF KeepsProgress, SendsUnacked
<1>6. CASE UNCHANGED vars
  <2>1. TypeOK' /\ Inv'
    BY <1>6, Zenon DEF vars, TypeOK, Inv, AckedIsHeld
  <2> QED BY <1>0, <1>6, <2>1 DEF vars, KeepsProgress, SendsUnacked
<1> QED BY <1>1, <1>2, <1>3, <1>4, <1>5, <1>6, Zenon DEF Next

-----------------------------------------------------------------------------
(* What the invariant implies *)

\* The receiver's base is between the sender's base and next_seq.
LEMMA InvWindows == TypeOK /\ Inv => WindowsOverlap
<1> SUFFICES ASSUME TypeOK, Inv
             PROVE  WindowsOverlap
  BY Zenon
<1>1. /\ snd.base \in 0 .. NumChunks /\ snd.next_seq \in 0 .. NumChunks
      /\ rcv.base \in 0 .. NumChunks /\ NumChunks \in Nat
      /\ WINDOW_SIZE \in Nat /\ snd.num_chunks = NumChunks
      /\ rcv.num_chunks = NumChunks
  BY WindowAssumption, TransferAssumption, Zenon
     DEF TypeOK, SenderType, ReceiverType
<1>2. snd.base <= rcv.base
  <2>1. ASSUME rcv.base < snd.base
        PROVE  FALSE
    <3>1. rcv.base \in Acked(snd)
      BY <1>1, <2>1 DEF Acked
    <3>2. rcv.base \in Held(rcv)
      BY <3>1, Zenon DEF Inv, AckedIsHeld
    <3>3. rcv.base < NumChunks
      BY <1>1, <2>1
    <3>4. ~ rcv.window[Idx(rcv.base)].received
      BY <1>1, <3>3, ReceiverParts, Zenon DEF TypeOK, Inv, ReceiverOK
    <3> QED BY <1>1, <3>2, <3>4 DEF Held
  <2> QED BY <1>1, <2>1
<1>3. rcv.base <= snd.next_seq
  <2>1. ASSUME snd.next_seq < rcv.base
        PROVE  FALSE
    <3>1. snd.next_seq \in Held(rcv)
      BY <1>1, <2>1 DEF Held
    <3> QED BY <1>1, <3>1 DEF Inv
  <2> QED BY <1>1, <2>1
<1>4. ASSUME NEW p \in data_net
      PROVE  p.seq_num < rcv.base + WINDOW_SIZE
  <2>1. p.seq_num \in Int /\ p.seq_num < snd.next_seq
    BY DEF TypeOK, Inv, DataPacket
  <2>2. snd.next_seq <= snd.base + WINDOW_SIZE
    BY Zenon DEF Inv, SenderOK, SendWindowOK
  <2> QED BY <1>1, <1>2, <2>1, <2>2
<1> QED BY <1>2, <1>3, <1>4, Zenon DEF WindowsOverlap

\* chunks_acked reaches num_chunks exactly when every chunk is acknowledged.
LEMMA InvComplete ==
  TypeOK /\ Inv => (sr_sender_is_complete(snd) <=> Acked(snd) = 0 .. NumChunks - 1)
<1> SUFFICES ASSUME TypeOK, Inv
             PROVE  sr_sender_is_complete(snd) <=> Acked(snd) = 0 .. NumChunks - 1
  BY Zenon
<1>1. /\ snd \in SenderType(FileData, NumChunks) /\ NumChunks \in Nat
      /\ snd.num_chunks = NumChunks
      /\ snd.chunks_acked = Cardinality(Acked(snd))
  BY TransferAssumption, Zenon
     DEF TypeOK, Inv, SenderType, SenderOK, SendWindowOK
<1>2. Acked(snd) \in SUBSET (0 .. NumChunks - 1)
  BY <1>1, Zenon DEF Acked
<1>3. IsFiniteSet(0 .. NumChunks - 1) /\ Cardinality(0 .. NumChunks - 1) = NumChunks
  BY <1>1, FS_Interval
<1>4. /\ Cardinality(Acked(snd)) <= NumChunks
      /\ Cardinality(Acked(snd)) = NumChunks => Acked(snd) = 0 .. NumChunks - 1
  <2> DEFINE A == Acked(snd)
             B == 0 .. NumChunks - 1
  <2>1. IsFiniteSet(B) /\ A \in SUBSET B /\ Cardinality(B) = NumChunks
    BY <1>2, <1>3, Zenon
  <2> HIDE DEF A, B
  <2>2. Cardinality(A) <= NumChunks /\ (Cardinality(A) = NumChunks => A = B)
    BY <2>1, FS_Subset, Zenon
  <2> QED BY <2>2, Zenon DEF A, B
<1>5. Cardinality(Acked(snd)) \in Nat
  BY <1>1, AckedFinite, TransferAssumption, Zenon DEF TypeOK
<1> QED BY <1>1, <1>3, <1>4, <1>5 DEF sr_sender_is_complete

\* A finished sender means a finished receiver with the right file.
LEMMA InvDone == TypeOK /\ Inv => DoneMeansDelivered
<1> SUFFICES ASSUME TypeOK, Inv, transfer = "done"
             PROVE  getting = "complete" /\ rcv.file_buffer = FileData
  BY Zenon DEF DoneMeansDelivered
<1>1. /\ rcv.base \in 0 .. NumChunks /\ NumChunks \in Nat
      /\ rcv.num_chunks = NumChunks
      /\ rcv.file_buffer \in [0 .. NumChunks - 1 -> Chunk \cup {NoData}]
      /\ FileData \in [0 .. NumChunks - 1 -> Chunk]
  BY TransferAssumption, Zenon DEF TypeOK, ReceiverType
<1>2. 0 .. NumChunks - 1 \subseteq Held(rcv)
  BY InvComplete, Zenon DEF Inv, AckedIsHeld
<1>3. rcv.base = NumChunks
  <2>1. ASSUME rcv.base < NumChunks
        PROVE  FALSE
    <3>1. rcv.base \in Held(rcv)
      BY <1>1, <1>2, <2>1
    <3>2. ~ rcv.window[Idx(rcv.base)].received
      BY <2>1, ReceiverParts, Zenon DEF TypeOK, Inv, ReceiverOK
    <3> QED BY <1>1, <3>1, <3>2 DEF Held
  <2> QED BY <1>1, <2>1
<1>4. getting = "complete"
  BY <1>1, <1>3 DEF Inv, sr_receiver_is_complete
<1>5. \A i \in 0 .. NumChunks - 1 : rcv.file_buffer[i] = FileData[i]
  BY <1>3, Zenon DEF Inv, ReceiverOK, RecvWindowOK
<1> QED BY <1>1, <1>4, <1>5

\* The slot of next_seq is free while the window is open.
LEMMA InvSlot == TypeOK /\ Inv => SlotFree
<1> SUFFICES ASSUME TypeOK, Inv, snd.next_seq < snd.base + WINDOW_SIZE
             PROVE  snd.window[Idx(snd.next_seq)].state = "PKT_EMPTY"
  BY Zenon DEF SlotFree
<1>1. /\ snd.base \in Nat /\ snd.next_seq \in Nat /\ WINDOW_SIZE \in Nat
      /\ SendWindowOK(snd)
  BY WindowAssumption, TransferAssumption DEF TypeOK, SenderType, Inv, SenderOK
<1>2. ASSUME NEW n \in snd.base .. snd.next_seq - 1
      PROVE  Idx(n) # Idx(snd.next_seq)
  <2>1. /\ n \in Nat /\ n # snd.next_seq
        /\ n < snd.next_seq + WINDOW_SIZE /\ snd.next_seq < n + WINDOW_SIZE
    BY <1>1
  <2> QED BY <1>1, <2>1, IdxInjective, Zenon
<1>3. Idx(snd.next_seq) \in Slots
  BY <1>1, IdxType, Zenon
<1> QED BY <1>1, <1>2, <1>3, Zenon DEF SendWindowOK

\* The counters are exact and the two completion tests agree.
LEMMA InvCounters == TypeOK /\ Inv => CountersExact
<1> SUFFICES ASSUME TypeOK, Inv
             PROVE  CountersExact
  BY Zenon
<1>1. /\ snd.base \in 0 .. NumChunks /\ snd.next_seq \in 0 .. NumChunks
      /\ NumChunks \in Nat /\ snd.num_chunks = NumChunks
  BY TransferAssumption, Zenon DEF TypeOK, SenderType
<1>2. ASSUME snd.base = NumChunks
      PROVE  Acked(snd) = 0 .. NumChunks - 1
  BY <1>1, <1>2 DEF Acked
<1>3. ASSUME Acked(snd) = 0 .. NumChunks - 1, snd.base < NumChunks
      PROVE  FALSE
  <2>1. snd.base \in Acked(snd)
    BY <1>1, <1>3
  <2>2. /\ snd.base < snd.next_seq
        /\ snd.window[Idx(snd.base)].state = "PKT_ACKED"
    BY <1>1, <2>1 DEF Acked
  <2>3. snd.window[Idx(snd.base)].state = "PKT_PENDING"
    BY <2>2, Zenon DEF Inv, SenderOK
  <2> QED BY <2>2, <2>3, Zenon
<1>4. sr_sender_is_complete(snd) <=> snd.base = NumChunks
  BY <1>1, <1>2, <1>3, InvComplete
<1>5. /\ snd.chunks_acked = Cardinality(Acked(snd))
      /\ rcv.chunks_received = Cardinality(Held(rcv))
  BY Zenon DEF Inv, SenderOK, SendWindowOK, ReceiverOK, RecvWindowOK
<1> QED BY <1>4, <1>5, Zenon DEF CountersExact

-----------------------------------------------------------------------------
(* Losses under a timely network *)

\* What a turn of the loop does to a pending entry: nothing; or its packet is
\* sent, for the first time or once more, and is in flight or lost.
LEMMA SentOrLost ==
  ASSUME TypeOK, NEW s \in SenderType(FileData, NumChunks), SenderOK(s),
         NEW expired, \A n \in expired : n < s.next_seq,
         TransferStep(s, expired)
  PROVE  /\ faults <= faults'
         /\ data_net \subseteq data_net'
         /\ \A n \in snd'.base .. snd'.next_seq - 1 :
              snd'.window[Idx(n)].state = "PKT_PENDING" =>
                \/ n < s.next_seq /\ snd'.window[Idx(n)] = s.window[Idx(n)]
                \/ /\ \/ n >= s.next_seq /\ snd'.window[Idx(n)].retries = 0
                      \/ /\ n < s.next_seq /\ n \in expired
                         /\ s.window[Idx(n)].state = "PKT_PENDING"
                         /\ snd'.window[Idx(n)].retries
                              = s.window[Idx(n)].retries + 1
                   /\ (\E p \in data_net' : p.seq_num = n) \/ faults + 1 <= faults'
         /\ transfer' = "aborted" =>
              \E n \in expired :
                /\ n \in s.base .. s.next_seq - 1
                /\ s.window[Idx(n)].state = "PKT_PENDING"
                /\ s.window[Idx(n)].retries >= MAX_RETRIES
<1> DEFINE w   == sr_sender_send_window(s)
           out == FirstPackets(s) \cup RetransmittedPackets(w, expired)
<1>1. /\ w \in SenderType(FileData, NumChunks) /\ SenderOK(w) /\ w.base = s.base
      /\ s.next_seq <= w.next_seq
      /\ \A p \in FirstPackets(s) : p \in DataPacket(NumChunks) /\ p.ok
                                    /\ p.data = FileData[p.seq_num]
      /\ \A n \in s.base .. s.next_seq - 1 : w.window[Idx(n)] = s.window[Idx(n)]
      /\ \A n \in s.next_seq .. w.next_seq - 1 :
           /\ w.window[Idx(n)].retries = 0
           /\ build_data_packet(n, FileData[n]) \in FirstPackets(s)
  <2>1. WindowSent(FileData, NumChunks, s, w)
    BY SendWindowLemma, TransferAssumption, Zenon
  <2> HIDE DEF w
  <2> QED BY <2>1, Zenon DEF WindowSent
<1>2. PICK kept \in SUBSET out : /\ LossySend(out, kept)
                                 /\ data_net' = data_net \cup kept
  BY Zenon DEF TransferStep
<1>3. /\ snd' = sr_sender_check_timeouts(w, expired)
      /\ transfer' = IF TimeoutsFail(w, expired) THEN "aborted"
                     ELSE IF sr_sender_is_complete(snd') THEN "done"
                     ELSE "active"
  BY Zenon DEF TransferStep
<1> HIDE DEF w
<1>4. /\ snd'.base = w.base /\ snd'.next_seq = w.next_seq
      /\ \A p \in RetransmittedPackets(w, expired) :
           p \in DataPacket(NumChunks) /\ p.ok /\ p.data = FileData[p.seq_num]
      /\ \A n \in w.base .. w.next_seq - 1 :
           IF n \in Retransmits(w, expired)
           THEN /\ snd'.window[Idx(n)].retries = w.window[Idx(n)].retries + 1
                /\ build_data_packet(n, FileData[n])
                     \in RetransmittedPackets(w, expired)
           ELSE snd'.window[Idx(n)] = w.window[Idx(n)]
  <2>1. PICK t : t = sr_sender_check_timeouts(w, expired)
    BY Zenon
  <2>2. /\ t.base = w.base /\ t.next_seq = w.next_seq
        /\ \A p \in RetransmittedPackets(w, expired) :
             p \in DataPacket(NumChunks) /\ p.ok /\ p.data = FileData[p.seq_num]
        /\ \A n \in w.base .. w.next_seq - 1 :
             IF n \in Retransmits(w, expired)
             THEN /\ t.window[Idx(n)].retries = w.window[Idx(n)].retries + 1
                  /\ build_data_packet(n, FileData[n])
                       \in RetransmittedPackets(w, expired)
             ELSE t.window[Idx(n)] = w.window[Idx(n)]
    <3>1. TimeoutsChecked(FileData, NumChunks, w, expired, t)
      BY <1>1, <2>1, CheckTimeoutsLemma, TransferAssumption, Zenon
    <3> QED BY <3>1, Zenon DEF TimeoutsChecked
  <2> QED BY <1>3, <2>1, <2>2, Zenon
<1>5. \A p \in out : p \in DataPacket(NumChunks) /\ p.ok /\ p.data = FileData[p.seq_num]
  BY <1>1, <1>4, Zenon
<1>6. /\ s.base \in Nat /\ s.next_seq \in Nat /\ w.next_seq \in Nat
      /\ faults \in Nat
  BY <1>1, TransferAssumption DEF SenderType, TypeOK
<1>7. \A n \in Nat : build_data_packet(n, FileData[n]) \in out =>
        (\E p \in data_net' : p.seq_num = n) \/ faults + 1 <= faults'
  <2> SUFFICES ASSUME NEW n \in Nat, build_data_packet(n, FileData[n]) \in out
               PROVE  (\E p \in data_net' : p.seq_num = n) \/ faults + 1 <= faults'
    BY Zenon
  <2> DEFINE x == build_data_packet(n, FileData[n])
  <2>1. CASE x \in kept
    BY <1>2, <2>1 DEF build_data_packet
  <2>2. CASE x \notin kept
    <3> HIDE DEF out
    <3>1. \A p \in out : \E m \in 0 .. NumChunks - 1 :
            p = build_data_packet(m, FileData[m])
      BY <1>5 DEF DataPacket, build_data_packet
    <3>2. IsFiniteSet(out \ kept) /\ Cardinality(out \ kept) \in Nat
      BY <3>1, GoodPacketsFinite, Zenon
    <3>3. x \in out \ kept
      BY <2>2, Zenon
    <3>4. Cardinality(out \ kept) # 0
      BY <3>2, <3>3, FS_EmptySet, Zenon
    <3> QED BY <1>2, <1>6, <3>2, <3>4 DEF LossySend
  <2> QED BY <2>1, <2>2, Zenon
<1>8. faults <= faults'
  <2> HIDE DEF out
  <2>1. \A p \in out : \E m \in 0 .. NumChunks - 1 :
          p = build_data_packet(m, FileData[m])
    BY <1>5 DEF DataPacket, build_data_packet
  <2>2. Cardinality(out \ kept) \in Nat
    BY <2>1, GoodPacketsFinite, Zenon
  <2> QED BY <1>2, <1>6, <2>2 DEF LossySend
<1>9. ASSUME NEW n \in snd'.base .. snd'.next_seq - 1,
             snd'.window[Idx(n)].state = "PKT_PENDING"
      PROVE  \/ n < s.next_seq /\ snd'.window[Idx(n)] = s.window[Idx(n)]
             \/ /\ \/ n >= s.next_seq /\ snd'.window[Idx(n)].retries = 0
                   \/ /\ n < s.next_seq /\ n \in expired
                      /\ s.window[Idx(n)].state = "PKT_PENDING"
                      /\ snd'.window[Idx(n)].retries
                           = s.window[Idx(n)].retries + 1
                /\ (\E p \in data_net' : p.seq_num = n) \/ faults + 1 <= faults'
  <2>1. /\ n \in Nat /\ n \in w.base .. w.next_seq - 1
        /\ \/ n \in s.base .. s.next_seq - 1
           \/ n \in s.next_seq .. w.next_seq - 1
    BY <1>1, <1>4, <1>6
  <2>2. CASE n \in s.next_seq .. w.next_seq - 1
    <3>1. n \notin Retransmits(w, expired)
      BY <1>6, <2>2 DEF Retransmits, Due
    <3>2. snd'.window[Idx(n)].retries = 0
      BY <1>1, <1>4, <2>1, <2>2, <3>1, Zenon
    <3>3. build_data_packet(n, FileData[n]) \in out
      BY <1>1, <2>2, Zenon
    <3> QED BY <1>6, <1>7, <2>1, <2>2, <3>2, <3>3
  <2>3. CASE n \in s.base .. s.next_seq - 1 /\ n \notin Retransmits(w, expired)
    BY <1>1, <1>4, <1>6, <2>1, <2>3, SMTT(20)
  <2>4. CASE n \in s.base .. s.next_seq - 1 /\ n \in Retransmits(w, expired)
    <3>1. n \in expired /\ w.window[Idx(n)].state = "PKT_PENDING"
      BY <2>4, Zenon DEF Retransmits, Due
    <3>2. build_data_packet(n, FileData[n]) \in out
      BY <1>4, <2>1, <2>4, Zenon
    <3> QED BY <1>1, <1>4, <1>6, <1>7, <2>1, <2>4, <3>1, <3>2, Zenon
  <2> QED BY <2>1, <2>2, <2>3, <2>4, Zenon
<1>10. ASSUME transfer' = "aborted"
       PROVE  \E n \in expired :
                /\ n \in s.base .. s.next_seq - 1
                /\ s.window[Idx(n)].state = "PKT_PENDING"
                /\ s.window[Idx(n)].retries >= MAX_RETRIES
  <2>1. PICK n \in Due(w, expired) : Exhausted(w, n)
    BY <1>3, <1>10, Zenon DEF TimeoutsFail
  <2>2. /\ n \in expired /\ n \in w.base .. w.next_seq - 1
        /\ w.window[Idx(n)].state = "PKT_PENDING"
        /\ w.window[Idx(n)].retries >= MAX_RETRIES
    BY <2>1, Zenon DEF Due, Exhausted
  <2>3. n \in s.base .. s.next_seq - 1
    BY <1>1, <1>6, <2>2
  <2> QED BY <1>1, <2>2, <2>3, Zenon
<1> QED BY <1>2, <1>8, <1>9, <1>10, Zenon

\* An iteration of the owner's loop that has read the ACK of k, if any.
LEMMA OwnerLosses ==
  ASSUME TypeOK, Inv, LossInv, Timely, transfer = "active", getting' = getting,
         NEW s \in SenderType(FileData, NumChunks), SenderOK(s),
         snd.base <= s.base, s.next_seq = snd.next_seq, NEW k,
         PendingKept(snd, k, s),
         \A a \in ack_net : a \in ack_net' \/ a.ack_num = k,
         NEW expired \in SUBSET Expirable, TransferStep(s, expired)
  PROVE  LossInv'
<1>1. ASSUME NEW n \in expired
      PROVE  n \in snd.base .. snd.next_seq - 1 /\ ~ InFlight(n)
  BY Zenon DEF Expirable
<1>2. /\ s.base \in Nat /\ s.next_seq \in Nat /\ snd.base \in Nat
      /\ faults \in Nat /\ faults' \in Nat /\ MAX_RETRIES \in Nat
      /\ snd' \in SenderType(FileData, NumChunks) /\ snd'.base = s.base /\ snd'.next_seq \in Nat
  <2>1. snd' \in SenderType(FileData, NumChunks) /\ snd'.base = s.base /\ faults' \in 0 .. MaxFaults
    BY TransferStepLemma, Zenon
  <2> QED BY <2>1, WindowAssumption, TransferAssumption DEF SenderType, TypeOK
<1>3. \A n \in expired : n < s.next_seq
  BY <1>1, <1>2
<1>4. /\ faults <= faults'
      /\ data_net \subseteq data_net'
      /\ \A n \in snd'.base .. snd'.next_seq - 1 :
           snd'.window[Idx(n)].state = "PKT_PENDING" =>
             \/ n < s.next_seq /\ snd'.window[Idx(n)] = s.window[Idx(n)]
             \/ /\ \/ n >= s.next_seq /\ snd'.window[Idx(n)].retries = 0
                   \/ /\ n < s.next_seq /\ n \in expired
                      /\ s.window[Idx(n)].state = "PKT_PENDING"
                      /\ snd'.window[Idx(n)].retries
                           = s.window[Idx(n)].retries + 1
                /\ (\E p \in data_net' : p.seq_num = n) \/ faults + 1 <= faults'
      /\ transfer' = "aborted" =>
           \E n \in expired :
             /\ n \in s.base .. s.next_seq - 1
             /\ s.window[Idx(n)].state = "PKT_PENDING"
             /\ s.window[Idx(n)].retries >= MAX_RETRIES
  BY <1>3, SentOrLost, Zenon
\* The account of a packet that is pending for s.
<1>5. ASSUME NEW n \in s.base .. s.next_seq - 1,
             s.window[Idx(n)].state = "PKT_PENDING", getting = "receiving"
      PROVE  /\ n # k
             /\ s.window[Idx(n)].retries \in Nat
             /\ IF InFlight(n) THEN s.window[Idx(n)].retries <= faults
                               ELSE s.window[Idx(n)].retries < faults
  <2>1. n \in snd.base .. snd.next_seq - 1 /\ n \in Nat
    BY <1>2
  <2>2. n # k /\ s.window[Idx(n)] = snd.window[Idx(n)]
    BY <1>5, Zenon DEF PendingKept
  <2>3. s.window[Idx(n)].retries \in Nat
    BY <2>1, IdxType, WindowAssumption DEF SenderType, SenderEntry
  <2> QED BY <1>5, <2>1, <2>2, <2>3, Zenon DEF LossInv
<1>6. AbortNeedsLosses'
  <2> SUFFICES ASSUME transfer' = "aborted", getting' = "receiving"
               PROVE  faults' > MAX_RETRIES
    BY Zenon DEF AbortNeedsLosses
  <2>1. PICK n \in expired :
          /\ n \in s.base .. s.next_seq - 1
          /\ s.window[Idx(n)].state = "PKT_PENDING"
          /\ s.window[Idx(n)].retries >= MAX_RETRIES
    BY <1>4, Zenon
  <2>2. s.window[Idx(n)].retries < faults /\ s.window[Idx(n)].retries \in Nat
    <3>1. getting = "receiving" /\ ~ InFlight(n)
      BY <1>1, Zenon
    <3> QED BY <1>5, <2>1, <3>1, Zenon
  <2> QED BY <1>2, <1>4, <2>1, <2>2
<1>7. ASSUME getting' = "receiving",
             NEW n \in snd'.base .. snd'.next_seq - 1,
             snd'.window[Idx(n)].state = "PKT_PENDING"
      PROVE  IF InFlight(n)' THEN snd'.window[Idx(n)].retries <= faults'
                             ELSE snd'.window[Idx(n)].retries < faults'
  <2>1. n \in Nat /\ n >= s.base
    BY <1>2
  <2>2. CASE n < s.next_seq /\ snd'.window[Idx(n)] = s.window[Idx(n)]
    <3>1. n \in s.base .. s.next_seq - 1 /\ s.window[Idx(n)].state = "PKT_PENDING"
      BY <1>2, <1>7, <2>1, <2>2
    <3>2. /\ n # k
          /\ s.window[Idx(n)].retries \in Nat
          /\ IF InFlight(n) THEN s.window[Idx(n)].retries <= faults
                            ELSE s.window[Idx(n)].retries < faults
      BY <1>5, <1>7, <3>1, Zenon
    <3>3. InFlight(n) => InFlight(n)'
      BY <1>4, <3>2, Zenon DEF InFlight
    <3>4. faults \in Nat /\ faults' \in Nat /\ faults <= faults'
      BY <1>2, <1>4, Zenon
    <3> QED BY <2>2, <3>2, <3>3, <3>4
  <2>3. CASE /\ n >= s.next_seq /\ snd'.window[Idx(n)].retries = 0
             /\ (\E p \in data_net' : p.seq_num = n) \/ faults + 1 <= faults'
    <3>1. (\E p \in data_net' : p.seq_num = n) => InFlight(n)'
      BY Zenon DEF InFlight
    <3> QED BY <1>2, <1>4, <2>3, <3>1
  <2>4. CASE /\ n < s.next_seq /\ n \in expired
             /\ s.window[Idx(n)].state = "PKT_PENDING"
             /\ snd'.window[Idx(n)].retries = s.window[Idx(n)].retries + 1
             /\ (\E p \in data_net' : p.seq_num = n) \/ faults + 1 <= faults'
    <3>1. n \in s.base .. s.next_seq - 1
      BY <1>2, <2>1, <2>4
    <3>2. s.window[Idx(n)].retries < faults /\ s.window[Idx(n)].retries \in Nat
      BY <1>1, <1>5, <1>7, <2>4, <3>1, Zenon
    <3>3. (\E p \in data_net' : p.seq_num = n) => InFlight(n)'
      BY Zenon DEF InFlight
    <3>4. faults \in Nat /\ faults' \in Nat /\ faults <= faults'
      BY <1>2, <1>4, Zenon
    <3> QED BY <2>4, <3>2, <3>3, <3>4
  <2> QED BY <1>4, <1>7, <2>2, <2>3, <2>4, Zenon
<1> QED BY <1>6, <1>7, Zenon DEF LossInv

\* Every action keeps the account.
LEMMA LossNext == TypeOK /\ Inv /\ LossInv /\ [Next]_vars => LossInv'
<1> SUFFICES ASSUME TypeOK, Inv, LossInv, [Next]_vars, Timely
             PROVE  LossInv'
  BY Zenon DEF LossInv
<1>0. /\ snd \in SenderType(FileData, NumChunks) /\ SenderOK(snd) /\ snd.base \in Nat
      /\ snd.next_seq \in Nat /\ faults \in Nat /\ MAX_RETRIES \in Nat
  BY WindowAssumption, TransferAssumption DEF TypeOK, Inv, SenderType
<1>1. CASE SenderIdle
  <2>1. PICK expired \in SUBSET Expirable : TransferStep(snd, expired)
    BY <1>1, Zenon DEF SenderIdle
  <2>2. transfer = "active" /\ getting' = getting /\ ack_net' = ack_net
    BY <1>1, Zenon DEF SenderIdle
  <2>3. PendingKept(snd, -1, snd)
    BY <1>0 DEF PendingKept
  <2>4. snd.base <= snd.base
    BY <1>0
  <2> QED BY <1>0, <2>1, <2>2, <2>3, <2>4, OwnerLosses, Zenon
<1>2. ASSUME NEW a \in ack_net, SenderAck(a)
      PROVE  LossInv'
  <2> DEFINE k == a.ack_num
  <2>0. PICK s : s = sr_sender_handle_ack(snd, k)
    BY Zenon
  <2>1. PICK expired \in SUBSET Expirable : TransferStep(s, expired)
    BY <1>2, <2>0, Zenon DEF SenderAck
  <2>2. k \in Nat
    BY TransferAssumption DEF TypeOK, AckPacket
  <2>3. \A b \in ack_net : b \in ack_net' \/ b.ack_num = k
    BY <1>2, Zenon DEF SenderAck, AfterRead
  <2> HIDE DEF k
  <2>4. /\ s \in SenderType(FileData, NumChunks) /\ SenderOK(s)
        /\ snd.base <= s.base /\ s.next_seq = snd.next_seq
        /\ PendingKept(snd, k, s)
    <3>1. AckHandled(FileData, NumChunks, snd, k, s)
      BY <1>0, <2>0, <2>2, HandleAckLemma, TransferAssumption, Zenon
    <3> QED BY <3>1, Zenon DEF AckHandled
  <2>5. transfer = "active" /\ getting' = getting
    BY <1>2, Zenon DEF SenderAck
  <2> QED BY <2>1, <2>3, <2>4, <2>5, OwnerLosses, Zenon
<1>3. ASSUME NEW a \in ack_net, LateAck(a)
      PROVE  LossInv'
  BY <1>3, Zenon DEF LateAck, LossInv, AbortNeedsLosses
<1>4. ASSUME NEW p \in data_net, ReceiveData(p)
      PROVE  LossInv'
  <2> DEFINE acks == sr_receiver_send_ack(rcv, p)
  <2>1. /\ snd' = snd /\ transfer' = transfer /\ getting = "receiving"
        /\ data_net' = data_net \ {p}
    BY <1>4, Zenon DEF ReceiveData, AfterRead
  <2>2. PICK kept \in SUBSET acks : /\ LossySend(acks, kept)
                                    /\ ack_net' = ack_net \cup kept
    BY <1>4, Zenon DEF ReceiveData
  <2>3. acks = {build_ack_packet(p.seq_num)}
    <3>1. p \in DataPacket(NumChunks) /\ p.ok /\ rcv.num_chunks = NumChunks
      BY Zenon DEF TypeOK, Inv, ReceiverType
    <3>2. p.seq_num < rcv.base + WINDOW_SIZE
      BY InvWindows, Zenon DEF WindowsOverlap
    <3>3. p.seq_num < NumChunks
      BY <3>1, TransferAssumption DEF DataPacket
    <3> QED BY <3>1, <3>2, <3>3, Zenon DEF sr_receiver_send_ack, DataAcked
  <2> HIDE DEF acks
  <2>4. /\ faults' \in Nat /\ faults <= faults'
        /\ kept = {} => faults + 1 <= faults'
    <3> DEFINE x == build_ack_packet(p.seq_num)
    <3>1. IsFiniteSet({x}) /\ Cardinality({x}) = 1
      BY FS_Singleton, Zenon
    <3>2. Cardinality(acks \ kept) \in Nat
      BY <2>3, <3>1, FS_Subset, FS_CardinalityType, Zenon
    <3>3. kept = {} => acks \ kept = {x}
      BY <2>3, Zenon
    <3> HIDE DEF x
    <3> QED BY <1>0, <2>2, <3>1, <3>2, <3>3 DEF LossySend
  <2>5. AbortNeedsLosses'
    BY <1>0, <2>1, <2>4, <1>4 DEF LossInv, AbortNeedsLosses
  <2>6. ASSUME transfer = "active", NEW n \in snd.base .. snd.next_seq - 1,
               snd.window[Idx(n)].state = "PKT_PENDING"
        PROVE  IF InFlight(n)' THEN snd.window[Idx(n)].retries <= faults'
                               ELSE snd.window[Idx(n)].retries < faults'
    <3>1. /\ snd.window[Idx(n)].retries \in Nat
          /\ IF InFlight(n) THEN snd.window[Idx(n)].retries <= faults
                            ELSE snd.window[Idx(n)].retries < faults
      <4>1. n \in Nat
        BY <1>0
      <4>2. snd.window[Idx(n)].retries \in Nat
        BY <1>0, <4>1, IdxType DEF SenderType, SenderEntry
      <4> QED BY <2>1, <2>6, <4>2, Zenon DEF LossInv
    <3>2. CASE n = p.seq_num
      <4>1. InFlight(n)
        BY <3>2, Zenon DEF InFlight
      <4>2. CASE kept = {}
        BY <1>0, <2>4, <3>1, <4>1, <4>2
      <4>3. CASE kept # {}
        <5>1. build_ack_packet(n) \in ack_net'
          BY <2>2, <2>3, <3>2, <4>3, Zenon
        <5>2. InFlight(n)'
          BY <5>1, Zenon DEF InFlight, build_ack_packet
        <5> QED BY <1>0, <2>4, <3>1, <4>1, <5>2
      <4> QED BY <4>2, <4>3, Zenon
    <3>3. CASE n # p.seq_num
      <4>1. InFlight(n) => InFlight(n)'
        BY <2>1, <2>2, <3>3, Zenon DEF InFlight
      <4> QED BY <1>0, <2>4, <3>1, <4>1
    <3> QED BY <3>2, <3>3, Zenon
  <2> QED BY <2>1, <2>5, <2>6, Zenon DEF LossInv
<1>5. ASSUME NEW p \in data_net, LateData(p)
      PROVE  LossInv'
  BY <1>5, Zenon DEF LateData, LossInv, AbortNeedsLosses
<1>6. CASE UNCHANGED vars
  BY <1>6, Zenon DEF vars, LossInv, AbortNeedsLosses, InFlight
<1> QED BY <1>1, <1>2, <1>3, <1>4, <1>5, <1>6, Zenon DEF Next

-----------------------------------------------------------------------------
(* Damaged packets *)

\* The action of OnlyDamageMisleads.
MisledByDamage ==
  \A n \in Acked(snd') \ Acked(snd) :
    n \in Held(rcv) \/ \E a \in ack_net : ~ a.ok /\ a.ack_num = n

\* What a receiver in order holds is the chunk of its file.
LEMMA HeldIsFile ==
  ASSUME NEW N \in Nat, NEW r \in ReceiverType(N), NEW F, ReceiverOK(r, F),
         NEW n \in Held(r)
  PROVE  HeldChunk(r, n) = F[n]
<1>0. n \in 0 .. N - 1 /\ r.base \in Nat
  BY ReceiverParts DEF Held, ReceiverType
<1>a. n \in Nat
  BY <1>0
<1>1. \/ n < r.base
      \/ r.window[Idx(n)].received /\ r.window[Idx(n)].seq_num = n
  BY Zenon DEF Held
<1>2. RecvWindowOK(r, F)
  BY Zenon DEF ReceiverOK
<1>3. CASE n < r.base
  <2>1. n \in 0 .. r.base - 1
    BY <1>0, <1>3
  <2> QED BY <1>2, <1>3, <2>1, Zenon DEF RecvWindowOK, HeldChunk
<1>4. CASE ~ (n < r.base)
  <2>1. Idx(n) \in Slots
    BY <1>a, IdxType, Zenon
  <2> QED BY <1>1, <1>2, <1>4, <2>1, Zenon DEF RecvWindowOK, HeldChunk
<1> QED BY <1>3, <1>4, Zenon

\* The chunks that are or may yet become wrong are finitely many, so that no
\* more of them means a number that is no larger.
LEMMA WrongFinite ==
  ASSUME TypeOK
  PROVE  IsFiniteSet(Spoiled \cup Forged) /\ Cardinality(Spoiled \cup Forged) \in Nat
<1>1. Spoiled \cup Forged \in SUBSET (0 .. NumChunks - 1)
  <2>1. Held(rcv) \subseteq 0 .. NumChunks - 1
    BY ReceiverParts, Zenon DEF Held, TypeOK
  <2> QED BY <2>1, Zenon DEF Spoiled, Forged
<1>2. IsFiniteSet(0 .. NumChunks - 1)
  BY FS_Interval, TransferAssumption
<1> QED BY <1>1, <1>2, FS_Subset, FS_CardinalityType, Zenon

\* A step after which nothing else is wrong keeps the account.
LEMMA NoNewWrong ==
  ASSUME TypeOK, CorruptInv, unseen' = unseen,
         Spoiled' \cup Forged' \subseteq Spoiled \cup Forged
  PROVE  unseen' \in Nat /\ Cardinality(Spoiled' \cup Forged') <= unseen'
<1>1. PICK W : W = Spoiled \cup Forged
  BY Zenon
<1>2. PICK V : V = Spoiled' \cup Forged'
  BY Zenon
<1>3. IsFiniteSet(W) /\ Cardinality(W) \in Nat /\ Cardinality(W) <= unseen /\ unseen \in Nat
  BY <1>1, WrongFinite, Zenon DEF CorruptInv
<1>4. V \in SUBSET W
  BY <1>1, <1>2, Zenon
<1>5. IsFiniteSet(V) /\ Cardinality(V) \in Nat /\ Cardinality(V) <= Cardinality(W)
  BY <1>3, <1>4, FS_Subset, FS_CardinalityType, Zenon
<1>6. Cardinality(V) <= unseen
  BY <1>3, <1>5
<1> QED BY <1>2, <1>3, <1>6, Zenon

\* Damage the checksum misses adds at most one number to the account.
LEMMA OneMoreWrong ==
  ASSUME TypeOK, CorruptInv, unseen' = unseen + 1, NEW k,
         Spoiled' \cup Forged' \subseteq (Spoiled \cup Forged) \cup {k}
  PROVE  unseen' \in Nat /\ Cardinality(Spoiled' \cup Forged') <= unseen'
<1>1. PICK W : W = Spoiled \cup Forged
  BY Zenon
<1>2. PICK V : V = Spoiled' \cup Forged'
  BY Zenon
<1>3. IsFiniteSet(W) /\ Cardinality(W) \in Nat /\ Cardinality(W) <= unseen /\ unseen \in Nat
  BY <1>1, WrongFinite, Zenon DEF CorruptInv
<1>4. V \in SUBSET (W \cup {k})
  BY <1>1, <1>2, Zenon
<1>5. /\ IsFiniteSet(W \cup {k})
      /\ Cardinality(W \cup {k}) = IF k \in W THEN Cardinality(W) ELSE Cardinality(W) + 1
  BY <1>3, FS_AddElement, Zenon
<1>6. Cardinality(V) \in Nat /\ Cardinality(V) <= Cardinality(W \cup {k})
  BY <1>4, <1>5, FS_Subset, FS_CardinalityType, Zenon
<1>7. unseen' \in Nat /\ Cardinality(V) <= unseen'
  BY <1>3, <1>5, <1>6
<1> QED BY <1>2, <1>7, Zenon

\* Every action, damage included, preserves the invariant.
LEMMA CorruptStep ==
  TypeOK /\ CorruptInv /\ [CorruptNext]_<<vars, unseen>>
    => TypeOK' /\ CorruptInv' /\ MisledByDamage
<1> SUFFICES ASSUME TypeOK, CorruptInv, [CorruptNext]_<<vars, unseen>>
             PROVE  TypeOK' /\ CorruptInv' /\ MisledByDamage
  BY Zenon
<1>0. /\ snd \in SenderType(FileData, NumChunks) /\ SenderOK(snd)
      /\ rcv \in ReceiverType(NumChunks)
  BY Zenon DEF TypeOK, CorruptInv
\* The owner's iteration, with sender s after the ACK.
<1>a. ASSUME NEW s \in SenderType(FileData, NumChunks), SenderOK(s), NEW expired,
             TransferStep(s, expired), ack_net' \subseteq ack_net,
             rcv' = rcv, getting' = getting, unseen' = unseen
      PROVE  TypeOK' /\ CorruptInv' /\ Acked(snd') = Acked(s)
  <2>1. /\ snd' \in SenderType(FileData, NumChunks)
        /\ SenderOK(snd')
        /\ Acked(snd') = Acked(s)
        /\ data_net' \subseteq DataPacket(NumChunks)
        /\ \A p \in data_net' \ data_net : p.data = FileData[p.seq_num]
        /\ faults' \in 0 .. MaxFaults
        /\ transfer' \in {"active", "done", "aborted"}
    BY <1>a, TransferStepLemma, Zenon
  <2>2. TypeOK'
    BY <1>a, <2>1, Zenon DEF TypeOK
  <2>3. Forged' \subseteq Forged
    BY <2>1, Zenon DEF Forged
  <2>4. Spoiled' = Spoiled
    BY <1>a, Zenon DEF Spoiled
  <2>5. unseen' \in Nat /\ Cardinality(Spoiled' \cup Forged') <= unseen'
    BY <1>a, <2>3, <2>4, NoNewWrong, Zenon
  <2>6. CorruptInv'
    BY <1>a, <2>1, <2>5, Zenon DEF CorruptInv
  <2> QED BY <2>1, <2>2, <2>6, Zenon
<1>1. CASE SenderIdle /\ unseen' = unseen
  <2>1. PICK expired : TransferStep(snd, expired)
    BY <1>1, Zenon DEF SenderIdle
  <2>2. rcv' = rcv /\ getting' = getting /\ ack_net' \subseteq ack_net
    BY <1>1, Zenon DEF SenderIdle
  <2> QED BY <1>0, <1>1, <1>a, <2>1, <2>2, Zenon DEF MisledByDamage
<1>2. ASSUME NEW a \in ack_net, SenderAck(a), unseen' = unseen
      PROVE  TypeOK' /\ CorruptInv' /\ MisledByDamage
  <2> DEFINE k == a.ack_num
             s == sr_sender_handle_ack(snd, k)
  <2>1. PICK expired : TransferStep(s, expired)
    BY <1>2, Zenon DEF SenderAck
  <2>2. k \in Nat
    BY TransferAssumption DEF TypeOK, AckPacket
  <2>3. a.ok => k \in Held(rcv)
    BY Zenon DEF CorruptInv
  <2>4. /\ s \in SenderType(FileData, NumChunks) /\ SenderOK(s)
        /\ Acked(s) \subseteq Acked(snd) \cup {k}
    <3>1. AckHandled(FileData, NumChunks, snd, k, s)
      BY <1>0, <2>2, HandleAckLemma, TransferAssumption, Zenon
    <3> HIDE DEF s
    <3> QED BY <3>1, Zenon DEF AckHandled
  <2> HIDE DEF s
  <2>5. ack_net' \subseteq ack_net /\ rcv' = rcv /\ getting' = getting
    BY <1>2, AfterReadSubset, Zenon DEF SenderAck
  <2>6. TypeOK' /\ CorruptInv' /\ Acked(snd') = Acked(s)
    BY <1>2, <1>a, <2>1, <2>4, <2>5, Zenon
  <2> QED BY <2>3, <2>4, <2>6, Zenon DEF MisledByDamage
\* What changes neither the ends nor the account.
<1>b. ASSUME snd' = snd, rcv' = rcv, ack_net' \subseteq ack_net,
             data_net' \subseteq data_net, unseen' = unseen
      PROVE  CorruptInv' /\ MisledByDamage
  <2>1. Forged' \subseteq Forged /\ Spoiled' = Spoiled
    BY <1>b, Zenon DEF Forged, Spoiled
  <2>2. unseen' \in Nat /\ Cardinality(Spoiled' \cup Forged') <= unseen'
    BY <1>b, <2>1, NoNewWrong, Zenon
  <2> QED BY <1>b, <2>2, Zenon DEF CorruptInv, MisledByDamage
<1>3. ASSUME NEW a \in ack_net, LateAck(a), unseen' = unseen
      PROVE  TypeOK' /\ CorruptInv' /\ MisledByDamage
  <2>1. ack_net' \subseteq ack_net
    BY <1>3, AfterReadSubset, Zenon DEF LateAck
  <2>2. TypeOK'
    BY <1>3, <2>1, Zenon DEF LateAck, TypeOK
  <2>3. CorruptInv' /\ MisledByDamage
    BY <1>3, <1>b, <2>1, Zenon DEF LateAck
  <2> QED BY <2>2, <2>3, Zenon
<1>4. ASSUME NEW p \in data_net, ReceiveData(p), unseen' = unseen
      PROVE  TypeOK' /\ CorruptInv' /\ MisledByDamage
  <2>1. p \in DataPacket(NumChunks)
    BY Zenon DEF TypeOK
  <2>2. rcv' = sr_receiver_handle_data(rcv, p)
    BY <1>4, Zenon DEF ReceiveData
  <2>a. PICK F \in [0 .. NumChunks - 1 -> Chunk] : ReceiverOK(rcv, F)
    BY Zenon DEF CorruptInv
  <2>b. PICK G \in [0 .. NumChunks - 1 -> Chunk] :
          /\ DataHandled(G, NumChunks, rcv, p, rcv')
          /\ \A n \in Held(rcv) : G[n] = F[n]
          /\ \A n \in Held(rcv') \ Held(rcv) :
               p.ok /\ p.seq_num = n /\ G[n] = p.data
    <3>1. AnyDataHandled(F, NumChunks, rcv, p, rcv')
      BY <1>0, <2>1, <2>2, <2>a, AnyDataLemma, TransferAssumption, Zenon
    <3> QED BY <3>1, Zenon DEF AnyDataHandled
  <2>3. /\ rcv' \in ReceiverType(NumChunks) /\ ReceiverOK(rcv', G)
        /\ Held(rcv) \subseteq Held(rcv')
        /\ DataAcked(rcv, p) => p.seq_num \in Held(rcv')
    BY <2>b, Zenon DEF DataHandled
  <2>4. PICK kept \in SUBSET sr_receiver_send_ack(rcv, p) :
          /\ LossySend(sr_receiver_send_ack(rcv, p), kept)
          /\ ack_net' = ack_net \cup kept
    BY <1>4, Zenon DEF ReceiveData
  <2>5. ASSUME NEW a \in kept
        PROVE  a \in AckPacket(NumChunks) /\ a.ack_num \in Held(rcv')
    <3>1. DataAcked(rcv, p) /\ a = [ack_num |-> p.seq_num, ok |-> TRUE]
      BY Zenon DEF sr_receiver_send_ack, build_ack_packet
    <3>2. p.seq_num \in 0 .. NumChunks - 1
      BY <2>1, Zenon DEF DataPacket
    <3> QED BY <2>3, <3>1, <3>2, Zenon DEF AckPacket
  <2>6. faults' \in 0 .. MaxFaults
    <3>1. IsFiniteSet(sr_receiver_send_ack(rcv, p))
      BY FS_Singleton, FS_EmptySet, Zenon DEF sr_receiver_send_ack
    <3>2. Cardinality(sr_receiver_send_ack(rcv, p) \ kept) \in Nat
      BY <3>1, FS_Subset, FS_CardinalityType, Zenon
    <3> QED BY <2>4, <3>2, TransferAssumption DEF LossySend, TypeOK
  <2>7. /\ snd' = snd /\ transfer' = transfer
        /\ data_net' \subseteq data_net
        /\ getting' = IF sr_receiver_is_complete(rcv') THEN "complete" ELSE getting
    BY <1>4, AfterReadSubset, Zenon DEF ReceiveData
  <2>8. TypeOK'
    BY <2>3, <2>4, <2>5, <2>6, <2>7, Zenon DEF TypeOK
  \* A chunk that is wrong now was wrong before, or came with the packet.
  <2>9. ASSUME NEW n \in Spoiled'
        PROVE  n \in Spoiled \cup Forged
    <3>2. n \in Held(rcv') /\ HeldChunk(rcv', n) # FileData[n]
      BY Zenon DEF Spoiled
    <3>3. G[n] # FileData[n]
      BY <2>3, <3>2, HeldIsFile, TransferAssumption, Zenon
    <3>4. CASE n \in Held(rcv)
      <4>1. HeldChunk(rcv, n) = F[n]
        BY <1>0, <2>a, <3>4, HeldIsFile, TransferAssumption, Zenon
      <4>2. G[n] = F[n]
        BY <2>b, <3>4, Zenon
      <4> QED BY <3>3, <3>4, <4>1, <4>2, Zenon DEF Spoiled
    <3>5. CASE n \notin Held(rcv)
      <4>1. n \in 0 .. NumChunks - 1
        BY <2>1, <2>b, <3>2, <3>5, Zenon DEF DataPacket
      <4> QED BY <2>b, <3>2, <3>3, <3>5, <4>1, Zenon DEF Forged
    <3> QED BY <3>4, <3>5, Zenon
  <2>10. Forged' \subseteq Forged
    BY <2>7, Zenon DEF Forged
  <2>11. unseen' \in Nat /\ Cardinality(Spoiled' \cup Forged') <= unseen'
    <3>1. Spoiled' \cup Forged' \subseteq Spoiled \cup Forged
      BY <2>9, <2>10, Zenon
    <3> QED BY <1>4, <3>1, NoNewWrong, Zenon
  <2>12. CorruptInv'
    <3>1. \A a \in ack_net' : a.ok => a.ack_num \in Held(rcv')
      BY <2>3, <2>4, <2>5, Zenon DEF CorruptInv
    <3> QED BY <1>0, <2>3, <2>7, <2>11, <3>1, Zenon DEF CorruptInv
  <2> QED BY <2>7, <2>8, <2>12, Zenon DEF MisledByDamage
<1>5. ASSUME NEW p \in data_net, LateData(p), unseen' = unseen
      PROVE  TypeOK' /\ CorruptInv' /\ MisledByDamage
  <2>1. data_net' \subseteq data_net
    BY <1>5, AfterReadSubset, Zenon DEF LateData
  <2>2. TypeOK'
    BY <1>5, <2>1, Zenon DEF LateData, TypeOK
  <2>3. CorruptInv' /\ MisledByDamage
    BY <1>5, <1>b, <2>1, Zenon DEF LateData
  <2> QED BY <2>2, <2>3, Zenon
<1>6. CASE CorruptData
  <2>1. PICK p \in data_net, d \in DataPacket(NumChunks) :
          /\ Damage
          /\ \E net \in AfterRead(data_net, p) : data_net' = net \cup {d}
          /\ unseen' = IF d.ok THEN unseen + 1 ELSE unseen
          /\ UNCHANGED <<snd, transfer, rcv, getting, ack_net>>
    BY <1>6, Zenon DEF CorruptData
  <2>2. data_net' \subseteq data_net \cup {d}
    BY <2>1, AfterReadSubset, Zenon
  <2>3. faults' \in 0 .. MaxFaults
    BY <2>1, TransferAssumption DEF Damage, TypeOK
  <2>4. TypeOK'
    BY <2>1, <2>2, <2>3, Zenon DEF TypeOK
  <2>5. Spoiled' = Spoiled
    BY <2>1, Zenon DEF Spoiled
  <2>6. unseen' \in Nat /\ Cardinality(Spoiled' \cup Forged') <= unseen'
    <3>1. CASE d.ok
      <4>1. Forged' \subseteq Forged \cup {d.seq_num}
        BY <2>2, Zenon DEF Forged
      <4>2. unseen' = unseen + 1
        BY <2>1, <3>1, Zenon
      <4>3. Spoiled' \cup Forged' \subseteq (Spoiled \cup Forged) \cup {d.seq_num}
        BY <2>5, <4>1, Zenon
      <4> QED BY <4>2, <4>3, OneMoreWrong, Zenon
    <3>2. CASE ~ d.ok
      <4>1. Forged' \subseteq Forged
        BY <2>2, <3>2, Zenon DEF Forged
      <4>2. unseen' = unseen
        BY <2>1, <3>2, Zenon
      <4>3. Spoiled' \cup Forged' \subseteq Spoiled \cup Forged
        BY <2>5, <4>1, Zenon
      <4> QED BY <4>2, <4>3, NoNewWrong, Zenon
    <3> QED BY <3>1, <3>2, Zenon
  <2>7. CorruptInv' /\ MisledByDamage
    BY <2>1, <2>6, Zenon DEF CorruptInv, MisledByDamage
  <2> QED BY <2>4, <2>7, Zenon
<1>7. CASE CorruptAck
  <2>1. PICK a \in ack_net, d \in AckPacket(NumChunks) :
          /\ Damage
          /\ ~ d.ok
          /\ \E net \in AfterRead(ack_net, a) : ack_net' = net \cup {d}
          /\ UNCHANGED <<snd, transfer, rcv, getting, data_net, unseen>>
    BY <1>7, Zenon DEF CorruptAck
  <2>2. ack_net' \subseteq ack_net \cup {d}
    BY <2>1, AfterReadSubset, Zenon
  <2>3. faults' \in 0 .. MaxFaults
    BY <2>1, TransferAssumption DEF Damage, TypeOK
  <2>4. TypeOK'
    BY <2>1, <2>2, <2>3, Zenon DEF TypeOK
  <2>5. Spoiled' = Spoiled /\ Forged' = Forged
    BY <2>1, Zenon DEF Spoiled, Forged
  <2>6. CorruptInv' /\ MisledByDamage
    BY <2>1, <2>2, <2>5, Zenon DEF CorruptInv, MisledByDamage
  <2> QED BY <2>4, <2>6, Zenon
<1>8. CASE UNCHANGED <<vars, unseen>>
  <2>1. TypeOK'
    BY <1>8, Zenon DEF vars, TypeOK
  <2>2. CorruptInv' /\ MisledByDamage
    BY <1>8, <1>b, Zenon DEF vars
  <2> QED BY <2>1, <2>2, Zenon
<1> QED BY <1>1, <1>2, <1>3, <1>4, <1>5, <1>6, <1>7, <1>8, Zenon DEF CorruptNext, Next

-----------------------------------------------------------------------------
(* The theorems: every window size, retry limit, file, number of losses and *)
(* duplicates                                                               *)

\* Type correctness and the inductive invariant hold in every reachable state.
THEOREM Invariance == Spec => [](TypeOK /\ Inv)
<1>1. Init => TypeOK /\ Inv
  BY InitInv, Zenon
<1>2. TypeOK /\ Inv /\ [Next]_vars => TypeOK' /\ Inv'
  BY NextInv, Zenon
<1> QED BY <1>1, <1>2, PTL DEF Spec

\* The fields of sr_sender_t, sr_receiver_t and of the packets stay in range.
THEOREM TypeCorrect == Spec => []TypeOK
BY Invariance, PTL

\* Below the receiver's base, file_buffer is the beginning of the file.
THEOREM PrefixIntact == Spec => []DeliveredIntact
<1>1. Inv => DeliveredIntact
  BY Zenon DEF Inv, ReceiverOK, RecvWindowOK, DeliveredIntact
<1> QED BY <1>1, Invariance, PTL

\* No chunk counts as acknowledged that the receiver does not have.
THEOREM AckedHeld == Spec => []AckedIsHeld
<1>1. Inv => AckedIsHeld
  BY Zenon DEF Inv
<1> QED BY <1>1, Invariance, PTL

\* A transfer the owner reports done has left the whole file with the receiver.
THEOREM DoneDelivered == Spec => []DoneMeansDelivered
BY InvDone, Invariance, PTL

\* The sender's and the receiver's windows never drift apart.
THEOREM Overlap == Spec => []WindowsOverlap
BY InvWindows, Invariance, PTL

\* sr_sender_send_window never finds the slot it is about to fill occupied.
THEOREM SlotsFree == Spec => []SlotFree
BY InvSlot, Invariance, PTL

\* chunks_acked and chunks_received count every chunk once.
THEOREM Counters == Spec => []CountersExact
BY InvCounters, Invariance, PTL

\* No step takes progress back.
THEOREM Monotone == Spec => NoRegress
<1>1. TypeOK /\ Inv /\ [Next]_vars => [KeepsProgress]_vars
  BY NextInv, Zenon
<1>2. Spec => [][KeepsProgress]_vars
  BY <1>1, Invariance, PTL DEF Spec
<1> QED BY <1>2, Zenon DEF NoRegress, KeepsProgress

\* Only unacknowledged packets are put on the wire.
THEOREM Selective == Spec => OnlyUnackedSent
<1>1. TypeOK /\ Inv /\ [Next]_vars => [SendsUnacked]_vars
  BY NextInv, Zenon
<1>2. Spec => [][SendsUnacked]_vars
  BY <1>1, Invariance, PTL DEF Spec
<1> QED BY <1>2, Zenon DEF OnlyUnackedSent, SendsUnacked

\* The requester's copy, as the abstract transfer sees it, is a prefix.
LEMMA CopyIsPrefix ==
  Inv => [i \in 0 .. rcv.base - 1 |-> rcv.file_buffer[i]] = Promise!Prefix(rcv.base)
BY Zenon DEF Inv, ReceiverOK, RecvWindowOK, Promise!Prefix

\* A step of the transfer delivers, finishes, gives up, or is not seen by the
\* abstract transfer.
LEMMA StepSimulation ==
  TypeOK /\ Inv /\ [Next]_vars /\ TypeOK' /\ Inv' => [Promise!Next]_(Promise!vars)
<1> DEFINE copy == [i \in 0 .. rcv.base - 1 |-> rcv.file_buffer[i]]
<1> SUFFICES ASSUME TypeOK, Inv, [Next]_vars, TypeOK', Inv'
             PROVE  Promise!Next \/ (copy' = copy /\ transfer' = transfer)
  BY Zenon DEF Promise!vars
<1>1. copy = Promise!Prefix(rcv.base)
  BY CopyIsPrefix, Zenon
<1>2. copy' = Promise!Prefix(rcv'.base)
  BY Zenon DEF Inv, ReceiverOK, RecvWindowOK, Promise!Prefix
<1>3. /\ rcv.base \in 0 .. NumChunks /\ rcv'.base \in 0 .. NumChunks
      /\ NumChunks \in Nat /\ rcv'.num_chunks = NumChunks
  BY TransferAssumption, Zenon DEF TypeOK, ReceiverType
<1>4. ASSUME UNCHANGED rcv, transfer = "active", transfer' = "done"
      PROVE  Promise!Finish
  <2>1. DoneMeansDelivered'
    BY InvDone, PTL
  <2>2. rcv.base = NumChunks
    BY <1>3, <1>4, <2>1 DEF DoneMeansDelivered, Inv, sr_receiver_is_complete
  <2> QED BY <1>1, <1>4, <2>2, Zenon DEF Promise!Finish
<1>5. ASSUME UNCHANGED rcv, transfer = "active",
             transfer' \in {"active", "done", "aborted"}
      PROVE  Promise!Next \/ (copy' = copy /\ transfer' = transfer)
  BY <1>4, <1>5, Zenon DEF Promise!Next, Promise!GiveUp
<1>6. ASSUME transfer' = transfer, rcv.base <= rcv'.base
      PROVE  Promise!Next \/ (copy' = copy /\ transfer' = transfer)
  <2>1. CASE rcv.base = rcv'.base
    BY <1>1, <1>2, <1>6, <2>1, Zenon
  <2>2. CASE rcv.base < rcv'.base
    BY <1>1, <1>2, <1>3, <1>6, <2>2, Zenon DEF Promise!Next, Promise!Deliver
  <2> QED BY <1>3, <1>6, <2>1, <2>2
<1>7. rcv.base <= rcv'.base
  BY NextInv, Zenon DEF KeepsProgress
<1>8. transfer' \in {"active", "done", "aborted"}
  BY Zenon DEF TypeOK
<1> QED BY <1>5, <1>6, <1>7, <1>8, Zenon
           DEF Next, SenderIdle, SenderAck, LateAck, ReceiveData, LateData, vars

\* The two windows implement the abstract transfer.
THEOREM Refinement == Spec => KeepsPromise
<1>1. Init => Promise!Init
  <2> SUFFICES ASSUME Init
               PROVE  Promise!Init
    BY Zenon
  <2>1. rcv.base = 0
    BY Zenon DEF Init, sr_receiver_init
  <2>2. [i \in 0 .. rcv.base - 1 |-> rcv.file_buffer[i]] = Promise!Prefix(0)
    BY <2>1, InitInv, CopyIsPrefix, Zenon
  <2> QED BY <2>2, Zenon DEF Init, Promise!Init
<1>2. TypeOK /\ Inv /\ [Next]_vars /\ TypeOK' /\ Inv' => [Promise!Next]_(Promise!vars)
  BY StepSimulation, Zenon
<1> QED BY <1>1, <1>2, Invariance, PTL DEF Spec, KeepsPromise, Promise!Spec

\* Nothing is wrong at the start.
LEMMA CorruptStart == CorruptInit => TypeOK /\ CorruptInv
<1> SUFFICES ASSUME CorruptInit PROVE TypeOK /\ CorruptInv
  BY Zenon
<1>1. TypeOK /\ Inv /\ data_net = {} /\ ack_net = {} /\ unseen = 0
  BY InitInv, Zenon DEF CorruptInit, Init
<1>2. rcv \in ReceiverType(NumChunks) /\ ReceiverOK(rcv, FileData)
  BY <1>1, Zenon DEF TypeOK, Inv
<1>a. \A n \in Held(rcv) : HeldChunk(rcv, n) = FileData[n]
  BY <1>2, HeldIsFile, TransferAssumption, Zenon
<1>3. Spoiled \cup Forged = {}
  BY <1>1, <1>a, Zenon DEF Spoiled, Forged
<1>4. unseen \in Nat /\ Cardinality(Spoiled \cup Forged) <= unseen
  BY <1>1, <1>3, FS_EmptySet
<1> QED BY <1>1, <1>2, <1>4, TransferAssumption, Zenon DEF CorruptInv, Inv

\* Damage does not spread: what the checksum shows spoils no chunk, and what it
\* misses at most one each time.
THEOREM SpoiledIsPaidFor == CorruptSpec => []DamageContained
<1>1. TypeOK /\ CorruptInv /\ [CorruptNext]_<<vars, unseen>> => (TypeOK /\ CorruptInv)'
  BY CorruptStep, Zenon
<1>2. TypeOK /\ CorruptInv => DamageContained
  <2> SUFFICES ASSUME TypeOK, CorruptInv PROVE DamageContained
    BY Zenon
  <2>1. PICK W : W = Spoiled \cup Forged
    BY Zenon
  <2>2. IsFiniteSet(W) /\ Cardinality(W) \in Nat /\ Cardinality(W) <= unseen /\ unseen \in Nat
    BY <2>1, WrongFinite, Zenon DEF CorruptInv
  <2>a. Spoiled \in SUBSET W
    BY <2>1, Zenon
  <2>3. Cardinality(Spoiled) \in Nat /\ Cardinality(Spoiled) <= Cardinality(W)
    BY <2>2, <2>a, FS_Subset, FS_CardinalityType, Zenon
  <2> QED BY <2>2, <2>3 DEF DamageContained
<1> QED BY <1>1, <1>2, CorruptStart, PTL DEF CorruptSpec

\* As long as the checksum shows all damage, the file is delivered intact.
THEOREM IntactUnlessUnseen == CorruptSpec => [](unseen = 0 => DeliveredIntact)
<1>1. TypeOK /\ CorruptInv /\ [CorruptNext]_<<vars, unseen>> => (TypeOK /\ CorruptInv)'
  BY CorruptStep, Zenon
<1>2. TypeOK /\ CorruptInv => (unseen = 0 => DeliveredIntact)
  <2> SUFFICES ASSUME TypeOK, CorruptInv, unseen = 0, NEW i \in 0 .. rcv.base - 1
               PROVE  rcv.file_buffer[i] = FileData[i]
    BY Zenon DEF DeliveredIntact
  <2>1. Cardinality(Spoiled \cup Forged) = 0
    BY WrongFinite DEF CorruptInv
  <2>2. Spoiled = {}
    BY <2>1, WrongFinite, FS_EmptySet, Zenon
  <2>3. i \in 0 .. rcv.num_chunks - 1 /\ i < rcv.base
    BY TransferAssumption DEF TypeOK, ReceiverType
  <2>4. i \in Held(rcv)
    BY <2>3, Zenon DEF Held
  <2> QED BY <2>2, <2>3, <2>4, Zenon DEF Spoiled, HeldChunk
<1> QED BY <1>1, <1>2, CorruptStart, PTL DEF CorruptSpec

\* Only a damaged ACK makes the sender count a chunk the receiver lacks.
THEOREM MisledOnlyByDamage == CorruptSpec => OnlyDamageMisleads
<1>1. TypeOK /\ CorruptInv /\ [CorruptNext]_<<vars, unseen>>
        => (TypeOK /\ CorruptInv)' /\ [MisledByDamage]_vars
  BY CorruptStep, Zenon
<1> QED BY <1>1, CorruptStart, PTL DEF CorruptSpec, OnlyDamageMisleads, MisledByDamage

\* If only losses make packets late, the owner gives up a receiver that still
\* needs packets only after more than MAX_RETRIES losses.
THEOREM AbortsArePaidFor == Spec => [](Timely => AbortNeedsLosses)
<1>1. Init => LossInv
  BY DEF Init, sr_sender_init, LossInv, AbortNeedsLosses
<1>2. TypeOK /\ Inv /\ LossInv /\ [Next]_vars => LossInv'
  BY LossNext, Zenon
<1>3. LossInv => (Timely => AbortNeedsLosses)
  BY Zenon DEF LossInv
<1> QED BY <1>1, <1>2, <1>3, Invariance, PTL DEF Spec
=============================================================================
