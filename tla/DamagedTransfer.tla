-------------------------- MODULE DamagedTransfer ---------------------------
(***************************************************************************)
(* The transfer of SelectiveRepeat when packets are damaged in flight too. *)
(* The checksum of a packet is the sum of its bytes.  It shows some damage *)
(* (~ ok) and misses the rest: bytes that trade places, changes that       *)
(* cancel out.  Damage may hit the number, the chunk, or both; a packet    *)
(* whose length, type or number no longer fits is dropped like one whose   *)
(* checksum is wrong.                                                      *)
(***************************************************************************)
EXTENDS SelectiveRepeat

VARIABLE unseen  \* DATA packets damaged in a way their checksum does not show

Damage == faults < MaxFaults /\ faults' = faults + 1

CorruptData ==
  \E p \in data_net, d \in DataPacket(NumChunks) :
    /\ Damage
    /\ d # p
    /\ \E net \in AfterRead(data_net, p) : data_net' = net \cup {d}
    /\ unseen' = IF d.ok THEN unseen + 1 ELSE unseen
    /\ UNCHANGED <<snd, transfer, rcv, getting, ack_net>>

\* Nobody compares the checksum of an ACK: ok only says that it is as it was
\* sent.
CorruptAck ==
  \E a \in ack_net, d \in AckPacket(NumChunks) :
    /\ Damage
    /\ d.ack_num # a.ack_num /\ ~ d.ok
    /\ \E net \in AfterRead(ack_net, a) : ack_net' = net \cup {d}
    /\ UNCHANGED <<snd, transfer, rcv, getting, data_net, unseen>>

CorruptInit == Init /\ unseen = 0

CorruptNext ==
  \/ Next /\ UNCHANGED unseen
  \/ CorruptData
  \/ CorruptAck

CorruptSpec == CorruptInit /\ [][CorruptNext]_<<vars, unseen>>

-----------------------------------------------------------------------------
(* Properties *)

\* Chunk n of the file as receiver r holds it, delivered or buffered.
HeldChunk(r, n) ==
  IF n < r.base THEN r.file_buffer[n] ELSE r.window[Idx(n)].data

Spoiled == {n \in Held(rcv) : HeldChunk(rcv, n) # FileData[n]}

\* Damage does not spread.  What the checksum shows costs a retransmission and
\* nothing else; what it misses spoils at most one chunk each time, whatever is
\* lost, repeated or overtaken besides: a packet under a wrong number cannot
\* push another chunk out of its place.
DamageContained == Cardinality(Spoiled) <= unseen

\* ACKs are used without verifying their checksum.  Even so only damage can
\* mislead the sender: a chunk it newly counts is one the receiver has, unless
\* a damaged ACK named it.
OnlyDamageMisleads ==
  [][\A n \in Acked(snd') \ Acked(snd) :
       n \in Held(rcv) \/ \E a \in ack_net : ~ a.ok /\ a.ack_num = n]_vars

-----------------------------------------------------------------------------
(* The inductive invariant *)

\* The numbers of the packets in flight that would be accepted and are wrong.
Forged ==
  {n \in 0 .. NumChunks - 1 :
     \E p \in data_net : p.ok /\ p.seq_num = n /\ p.data # FileData[n]}

\* What remains of the invariant of SelectiveRepeat: both windows are in order,
\* the receiver's for some file, not necessarily the one that is sent; an ACK
\* that is as it was sent is for a chunk the receiver holds; and every chunk
\* that is wrong, or may yet become so, is paid for.
CorruptInv ==
  /\ SenderOK(snd)
  /\ \E file \in [0 .. NumChunks - 1 -> Chunk] : ReceiverOK(rcv, file)
  /\ \A a \in ack_net : a.ok => a.ack_num \in Held(rcv)
  /\ unseen \in Nat
  /\ Cardinality(Spoiled \cup Forged) <= unseen
=============================================================================
