-------------------------- MODULE SelectiveRepeat ---------------------------
(***************************************************************************)
(* One file transfer, from the moment both ends are initialised: the owner *)
(* of the file runs the event loop of client.c with global_sender active,  *)
(* the other client sits in the receive loop of get().  Between them is    *)
(* UDP behind lossy_send: packets are dropped, overtaken and duplicated.   *)
(*                                                                         *)
(* An iteration of the owner's event loop is one action: the datagram it   *)
(* reads (an ACK, or none when poll times out), then send window, timeout  *)
(* scan and completion test.  The clock is abstracted: which unacknowl-    *)
(* edged packets are TIMEOUT_MS old is a choice of the step ("expired").   *)
(***************************************************************************)
EXTENDS SRWindow

CONSTANTS
  NumChunks,   \* chunks of the file
  FileData,    \* the file: chunk number -> content
  MaxFaults,   \* bound on the faults: packets lost on the way
  Timely       \* TRUE: packets are neither duplicated nor slower than
               \* TIMEOUT_MS, so only a lost packet or ACK times out

ASSUME TransferAssumption ==
  /\ NumChunks \in Nat
  /\ FileData \in [0 .. NumChunks - 1 -> Chunk]
  /\ MaxFaults \in Nat
  /\ Timely \in BOOLEAN

VARIABLES
  snd,       \* global_sender of the owner
  transfer,  \* "active" while transfer_active; else how the transfer ended
  rcv,       \* the sr_receiver_t of get()
  getting,   \* "receiving" inside the loop of get(), "complete" after it
  data_net,  \* DATA packets in flight
  ack_net,   \* ACK packets in flight
  faults     \* packets lost so far

vars == <<snd, transfer, rcv, getting, data_net, ack_net, faults>>

Init ==
  /\ snd = sr_sender_init(FileData, NumChunks)
  /\ transfer = "active"
  /\ rcv = sr_receiver_init(NumChunks)
  /\ getting = IF sr_receiver_is_complete(rcv) THEN "complete" ELSE "receiving"
  /\ data_net = {}
  /\ ack_net = {}
  /\ faults = 0

-----------------------------------------------------------------------------
(* The network *)

\* What may be left in flight when packet p is read from net.
AfterRead(net, p) == IF Timely THEN {net \ {p}} ELSE {net, net \ {p}}

\* lossy_send of every packet of out: only the kept ones reach the network.
LossySend(out, kept) ==
  /\ kept \subseteq out
  /\ faults' = faults + Cardinality(out \ kept)
  /\ faults' <= MaxFaults

-----------------------------------------------------------------------------
(* The owner of the file: an iteration of the event loop *)

\* A copy of packet n or of its acknowledgment is still on its way.
InFlight(n) ==
  \/ \E p \in data_net : p.seq_num = n
  \/ \E a \in ack_net : a.ack_num = n

\* The packets whose age may have reached TIMEOUT_MS in this iteration.
Expirable ==
  IF Timely
  THEN {n \in snd.base .. snd.next_seq - 1 : ~ InFlight(n)}
  ELSE snd.base .. NumChunks - 1

\* The part of the iteration guarded by transfer_active; s is the sender
\* after the datagram of this iteration has been handled.
TransferStep(s, expired) ==
  LET w   == sr_sender_send_window(s)
      out == FirstPackets(s) \cup RetransmittedPackets(w, expired)
  IN  /\ \E kept \in SUBSET out :
           /\ LossySend(out, kept)
           /\ data_net' = data_net \cup kept
      /\ snd' = sr_sender_check_timeouts(w, expired)
      /\ transfer' = IF TimeoutsFail(w, expired) THEN "aborted"
                     ELSE IF sr_sender_is_complete(snd') THEN "done"
                     ELSE "active"

\* poll returned without an ACK.
SenderIdle ==
  /\ transfer = "active"
  /\ \E expired \in SUBSET Expirable : TransferStep(snd, expired)
  /\ UNCHANGED <<rcv, getting, ack_net>>

\* An ACK arrived.  Its checksum is not looked at.
SenderAck(a) ==
  /\ transfer = "active"
  /\ a \in ack_net
  /\ ack_net' \in AfterRead(ack_net, a)
  /\ \E expired \in SUBSET Expirable :
       TransferStep(sr_sender_handle_ack(snd, a.ack_num), expired)
  /\ UNCHANGED <<rcv, getting>>

\* An ACK that arrives when no transfer is active is read and forgotten.
LateAck(a) ==
  /\ transfer # "active"
  /\ a \in ack_net
  /\ ack_net' \in AfterRead(ack_net, a)
  /\ UNCHANGED <<snd, transfer, rcv, getting, data_net, faults>>

-----------------------------------------------------------------------------
(* The client that runs get() *)

ReceiveData(p) ==
  /\ getting = "receiving"
  /\ p \in data_net
  /\ data_net' \in AfterRead(data_net, p)
  /\ rcv' = sr_receiver_handle_data(rcv, p)
  /\ \E kept \in SUBSET sr_receiver_send_ack(rcv, p) :
       /\ LossySend(sr_receiver_send_ack(rcv, p), kept)
       /\ ack_net' = ack_net \cup kept
  /\ getting' = IF sr_receiver_is_complete(rcv') THEN "complete" ELSE getting
  /\ UNCHANGED <<snd, transfer>>

\* After get() the event loop reads DATA packets too, but has no case for
\* them: they are dropped and not acknowledged.
LateData(p) ==
  /\ getting = "complete"
  /\ p \in data_net
  /\ data_net' \in AfterRead(data_net, p)
  /\ UNCHANGED <<snd, transfer, rcv, getting, ack_net, faults>>

-----------------------------------------------------------------------------
Next ==
  \/ SenderIdle
  \/ \E a \in ack_net : SenderAck(a)
  \/ \E a \in ack_net : LateAck(a)
  \/ \E p \in data_net : ReceiveData(p)
  \/ \E p \in data_net : LateData(p)

Spec == Init /\ [][Next]_vars

\* The event loop turns at least every 100 ms and an unacknowledged packet
\* gets old, so an iteration that changes something is not put off forever;
\* a packet that has arrived is read by the loop of the client it is for.
Fairness ==
  /\ WF_vars(SenderIdle)
  /\ WF_vars(\E a \in ack_net : SenderAck(a))
  /\ WF_vars(\E p \in data_net : ReceiveData(p))

FairSpec == Spec /\ Fairness

-----------------------------------------------------------------------------
(* Properties *)

\* Type invariant: the fields of sr_sender_t, sr_receiver_t and of the packets
\* stay in their ranges; no entry is retried more than MAX_RETRIES times.
TypeOK ==
  /\ snd \in SenderType(FileData, NumChunks)
  /\ rcv \in ReceiverType(NumChunks)
  /\ transfer \in {"active", "done", "aborted"}
  /\ getting \in {"receiving", "complete"}
  /\ data_net \subseteq DataPacket(NumChunks)
  /\ ack_net \subseteq AckPacket(NumChunks)
  /\ faults \in 0 .. MaxFaults

\* Whatever is lost, repeated or overtaken on the way, the part of file_buffer
\* below the receiver's base is the beginning of the file: a slot of the
\* circular window never delivers the chunk of another round.
DeliveredIntact ==
  \A i \in 0 .. rcv.base - 1 : rcv.file_buffer[i] = FileData[i]

\* The sender counts a chunk as acknowledged only if the receiver has it:
\* handle_ack never settles a slot on behalf of another packet.
AckedIsHeld == Acked(snd) \subseteq Held(rcv)

\* "File is done transferring" is printed by the owner only when get() has
\* left its loop with the whole file.
DoneMeansDelivered ==
  transfer = "done" => getting = "complete" /\ rcv.file_buffer = FileData

\* The two windows never drift apart: the receiver is never behind the
\* sender's base nor ahead of next_seq, and no packet in flight is ahead of
\* the receiver's window, so handle_data never discards one as too early.
WindowsOverlap ==
  /\ snd.base <= rcv.base
  /\ rcv.base <= snd.next_seq
  /\ \A p \in data_net : p.seq_num < rcv.base + WINDOW_SIZE

\* While the window is open the slot of next_seq is free: the break of
\* sr_sender_send_window on an occupied slot is never taken, so the sender
\* cannot stall on a slot it forgot to release.
SlotFree ==
  /\ snd.next_seq < snd.base + WINDOW_SIZE
  /\ snd.next_seq < NumChunks
  => snd.window[Idx(snd.next_seq)].state = "PKT_EMPTY"

\* The counters tell the truth: chunks_acked and chunks_received count every
\* chunk once, so that testing chunks_acked (sr_sender_is_complete) amounts to
\* testing base, which is what sr_receiver_is_complete does.
CountersExact ==
  /\ snd.chunks_acked = Cardinality(Acked(snd))
  /\ rcv.chunks_received = Cardinality(Held(rcv))
  /\ sr_sender_is_complete(snd) <=> snd.base = NumChunks

\* No step takes progress back: the windows only move forward, an acknowledged
\* chunk stays acknowledged, and what has been delivered is not overwritten.
NoRegress ==
  [][/\ snd.base <= snd'.base
     /\ snd.next_seq <= snd'.next_seq
     /\ Acked(snd) \subseteq Acked(snd')
     /\ rcv.base <= rcv'.base
     /\ Held(rcv) \subseteq Held(rcv')
     /\ \A i \in 0 .. rcv.base - 1 :
          rcv'.file_buffer[i] = rcv.file_buffer[i]]_vars

\* Selective repeat, not Go-Back-N: a packet put on the wire is one the sender
\* does not count as acknowledged.
OnlyUnackedSent ==
  [][\A p \in data_net' \ data_net : p.seq_num \notin Acked(snd')]_vars

\* If only losses make packets late, and there are no more of them than
\* MAX_RETRIES, the file arrives.
ArrivesDespiteLoss == MaxFaults <= MAX_RETRIES => <>(getting = "complete")

\* If only losses make packets late, the owner gives up a receiver that still
\* needs packets only after more than MAX_RETRIES of them were lost.
AbortNeedsLosses ==
  transfer = "aborted" /\ getting = "receiving" => faults > MAX_RETRIES

\* The same for the whole transfer: the owner reports a failed transfer only
\* after more than MAX_RETRIES losses.
FailureNeedsLosses == transfer = "aborted" => faults > MAX_RETRIES

-----------------------------------------------------------------------------
(* The inductive invariant behind the safety properties *)

\* The inductive invariant.  What ties the two ends together: an ACK in flight
\* is for a chunk the receiver holds, a chunk it holds has been sent, and a
\* packet in flight carries the chunk it names.
Inv ==
  /\ SenderOK(snd)
  /\ ReceiverOK(rcv, FileData)
  /\ \A p \in data_net :
       p.ok /\ p.seq_num < snd.next_seq /\ p.data = FileData[p.seq_num]
  /\ \A a \in ack_net : a.ack_num \in Held(rcv)
  /\ AckedIsHeld
  /\ \A n \in Held(rcv) : n < snd.next_seq
  /\ transfer = "done" => sr_sender_is_complete(snd)
  /\ getting = "complete" <=> sr_receiver_is_complete(rcv)

\* While nothing but losses makes packets late, every retry of a pending
\* packet is paid for by a loss, and so is its having nothing in flight.
LossInv ==
  Timely =>
    /\ AbortNeedsLosses
    /\ transfer = "active" /\ getting = "receiving" =>
         \A n \in snd.base .. snd.next_seq - 1 :
           snd.window[Idx(n)].state = "PKT_PENDING" =>
             IF InFlight(n) THEN snd.window[Idx(n)].retries <= faults
                            ELSE snd.window[Idx(n)].retries < faults

-----------------------------------------------------------------------------
(* The promise this transfer keeps *)

Promise == INSTANCE ReliableTransfer WITH
             copy    <- [i \in 0 .. rcv.base - 1 |-> rcv.file_buffer[i]],
             outcome <- transfer

\* The two windows implement a copy that grows in order from the front and a
\* success report that is never premature.
KeepsPromise == Promise!Spec
=============================================================================
