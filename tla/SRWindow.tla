------------------------------ MODULE SRWindow ------------------------------
(***************************************************************************)
(* The sliding windows of selective_repeat.c as pure operators: every      *)
(* sr_* function is a map from the sender (receiver) structure before the  *)
(* call to the structure after it, and the packets it puts on the wire are *)
(* operators of their own.  Modules with VARIABLES compose them.           *)
(*                                                                         *)
(* Data is abstracted to chunks: a packet carries one chunk of the file,   *)
(* whatever its data_len, and "ok" tells whether the checksum in its       *)
(* header matches its bytes.  Sequence numbers are chunk numbers; they     *)
(* never wrap, because a file has at most 2^22 chunks.                     *)
(***************************************************************************)
EXTENDS Integers, FiniteSets, FiniteSetsExt

CONSTANTS
  WINDOW_SIZE,   \* packets in a window (protocol.h)
  MAX_RETRIES,   \* retransmissions of one packet before giving up
  Chunk,         \* the possible contents of a chunk of file data
  NoData         \* content of memory no chunk has been copied to

ASSUME WindowAssumption ==
  /\ WINDOW_SIZE \in Nat \ {0}
  /\ MAX_RETRIES \in Nat
  /\ NoData \notin Chunk

\* The slots of a circular window, and the slot of a sequence number.
Slots == 0 .. WINDOW_SIZE - 1
Idx(seq) == seq % WINDOW_SIZE

-----------------------------------------------------------------------------
(* Packets *)

PacketState == {"PKT_EMPTY", "PKT_PENDING", "PKT_ACKED"}

build_data_packet(seq, chunk) == [seq_num |-> seq, data |-> chunk, ok |-> TRUE]

\* Mutant: the ACK names the next packet.
build_ack_packet_next(seq) == [ack_num |-> seq + 1, ok |-> TRUE]

build_ack_packet(seq) == [ack_num |-> seq, ok |-> TRUE]

-----------------------------------------------------------------------------
(* Sender *)

sr_sender_init(file, n) ==
  [base         |-> 0,
   next_seq     |-> 0,
   chunks_acked |-> 0,
   num_chunks   |-> n,
   file_data    |-> file,
   window       |-> [i \in Slots |-> [state   |-> "PKT_EMPTY", seq_num |-> 0,
                                      data    |-> NoData,      retries |-> 0]]]

\* The sequence number at which the loop of sr_sender_send_window stops: the
\* end of the file, the end of the window, or a slot that is still occupied.
SendStop(s) ==
  Min({n \in s.next_seq .. s.num_chunks :
         \/ n = s.num_chunks
         \/ n >= s.base + WINDOW_SIZE
         \/ s.window[Idx(n)].state # "PKT_EMPTY"})

\* The sequence numbers one call of sr_sender_send_window sends.
FirstSends(s) == s.next_seq .. SendStop(s) - 1

\* Mutant: every entry gets the data of the packet at base.
FreshEntry_base_data(s, seq) ==
  [state   |-> "PKT_PENDING", seq_num |-> seq,
   data    |-> s.file_data[s.base], retries |-> 0]

FreshEntry(s, seq) ==
  [state   |-> "PKT_PENDING", seq_num |-> seq,
   data    |-> s.file_data[seq], retries |-> 0]

sr_sender_send_window(s) ==
  LET sent == FirstSends(s)
  IN  [s EXCEPT
         !.next_seq = SendStop(s),
         !.window   = [i \in Slots |->
                         IF \E n \in sent : Idx(n) = i
                         THEN FreshEntry(s, CHOOSE n \in sent : Idx(n) = i)
                         ELSE s.window[i]]]

\* Mutant: slide over packets that are only sent.
SlideStop_over_pending(s) ==
  Min({n \in s.base .. s.num_chunks :
         \/ n = s.num_chunks
         \/ n = s.base + WINDOW_SIZE
         \/ s.window[Idx(n)].state = "PKT_EMPTY"})

\* Where the sliding loop of sr_sender_handle_ack stops.  It cannot pass
\* base + WINDOW_SIZE: it has emptied the slot of that number on its way.
SlideStop(s) ==
  Min({n \in s.base .. s.num_chunks :
         \/ n = s.num_chunks
         \/ n = s.base + WINDOW_SIZE
         \/ s.window[Idx(n)].state # "PKT_ACKED"})

\* Mutant: the slots behind the base are not released.
SlideSendWindow_keeps_slots(s) == [s EXCEPT !.base = SlideStop(s)]

SlideSendWindow(s) ==
  [s EXCEPT
     !.base   = SlideStop(s),
     !.window = [i \in Slots |->
                   IF \E n \in s.base .. SlideStop(s) - 1 : Idx(n) = i
                   THEN [s.window[i] EXCEPT !.state = "PKT_EMPTY"]
                   ELSE s.window[i]]]

\* Mutant: a duplicate ACK is counted again.
AckHits_duplicate(s, ack) ==
  /\ s.window[Idx(ack)].state # "PKT_EMPTY"
  /\ s.window[Idx(ack)].seq_num = ack

\* The entry an acknowledgment settles is pending and holds that very packet.
AckHits(s, ack) ==
  /\ s.window[Idx(ack)].state = "PKT_PENDING"
  /\ s.window[Idx(ack)].seq_num = ack

MarkAcked(s, ack) ==
  IF AckHits(s, ack)
  THEN [s EXCEPT !.window[Idx(ack)].state = "PKT_ACKED",
                 !.chunks_acked = @ + 1]
  ELSE s

\* An acknowledgment outside [base, base + WINDOW_SIZE) is ignored.
AckInWindow(s, ack) ==
  /\ ack >= s.base
  /\ ack < s.base + WINDOW_SIZE
  /\ ack < s.num_chunks

sr_sender_handle_ack(s, ack) ==
  IF AckInWindow(s, ack) THEN SlideSendWindow(MarkAcked(s, ack)) ELSE s

\* Mutant: acknowledged packets are retransmitted too.
Due_acked_too(s, expired) ==
  {n \in s.base .. s.next_seq - 1 :
     n \in expired /\ s.window[Idx(n)].seq_num = n}

\* The packets a scan of [base, next_seq) finds pending and timed out, when
\* "expired" holds the packets whose last transmission is TIMEOUT_MS old.
Due(s, expired) ==
  {n \in s.base .. s.next_seq - 1 :
     /\ n \in expired
     /\ s.window[Idx(n)].state = "PKT_PENDING"
     /\ s.window[Idx(n)].seq_num = n}

\* Mutants: one retry too many, one too few.
Exhausted_late(s, n) == s.window[Idx(n)].retries > MAX_RETRIES
Exhausted_early(s, n) == s.window[Idx(n)].retries + 1 >= MAX_RETRIES

Exhausted(s, n) == s.window[Idx(n)].retries >= MAX_RETRIES

\* The scan returns -1 at the first due packet without retries left.
TimeoutsFail(s, expired) == \E n \in Due(s, expired) : Exhausted(s, n)

\* The due packets the scan retransmits: those before the failing one.
Retransmits(s, expired) ==
  {n \in Due(s, expired) :
     \A m \in Due(s, expired) : Exhausted(s, m) => n < m}

\* Mutants: retries are not counted; a timeout restarts the window.
sr_sender_check_timeouts_uncounted(s, expired) == s
sr_sender_check_timeouts_go_back_n(s, expired) ==
  [s EXCEPT !.next_seq = IF Retransmits(s, expired) = {} THEN @ ELSE s.base]

sr_sender_check_timeouts(s, expired) ==
  LET sent == Retransmits(s, expired)
  IN  [s EXCEPT
         !.window = [i \in Slots |->
                       IF \E n \in sent : Idx(n) = i
                       THEN [s.window[i] EXCEPT !.retries = @ + 1]
                       ELSE s.window[i]]]

\* Mutants: everything sent is enough; one acknowledgment short.
sr_sender_is_complete_sent(s) == s.next_seq >= s.num_chunks
sr_sender_is_complete_early(s) == s.chunks_acked + 1 >= s.num_chunks

sr_sender_is_complete(s) == s.chunks_acked >= s.num_chunks

\* What the two sending functions put on the wire.
FirstPackets(s) == {build_data_packet(n, s.file_data[n]) : n \in FirstSends(s)}

RetransmittedPackets(s, expired) ==
  {build_data_packet(s.window[Idx(n)].seq_num, s.window[Idx(n)].data) :
     n \in Retransmits(s, expired)}

-----------------------------------------------------------------------------
(* Receiver *)

\* file_buffer comes from malloc: it holds nothing of the file yet.
sr_receiver_init(n) ==
  [base            |-> 0,
   chunks_received |-> 0,
   num_chunks      |-> n,
   file_buffer     |-> [i \in 0 .. n - 1 |-> NoData],
   window          |-> [i \in Slots |-> [received |-> FALSE, seq_num |-> 0,
                                         data     |-> NoData]]]

\* Mutant: the checksum is not verified.
DataAcked_unverified(r, p) ==
  p.seq_num < r.num_chunks /\ p.seq_num < r.base + WINDOW_SIZE

\* The packets that are answered by an ACK: intact, of this file, and not
\* ahead of the window.  The others are dropped without a word.
DataAcked(r, p) ==
  /\ p.ok
  /\ p.seq_num < r.num_chunks
  /\ p.seq_num < r.base + WINDOW_SIZE

BufferData(r, p) ==
  IF r.window[Idx(p.seq_num)].received
  THEN r
  ELSE [r EXCEPT !.window[Idx(p.seq_num)] = [received |-> TRUE,
                                             seq_num  |-> p.seq_num,
                                             data     |-> p.data],
                 !.chunks_received = @ + 1]

\* Mutant: the loop does not notice the slots it has cleared.
DeliverStop_unbounded(r) ==
  Min({n \in r.base .. r.num_chunks :
         n = r.num_chunks \/ ~ r.window[Idx(n)].received})

\* Where the delivery loop stops; as in SlideStop, the slot of
\* base + WINDOW_SIZE has been cleared on the way.
DeliverStop(r) ==
  Min({n \in r.base .. r.num_chunks :
         \/ n = r.num_chunks
         \/ n = r.base + WINDOW_SIZE
         \/ ~ r.window[Idx(n)].received})

\* Mutant: the slots of delivered chunks stay marked as received.
DeliverInOrder_keeps_slots(r) ==
  [r EXCEPT
     !.base        = DeliverStop(r),
     !.file_buffer = [i \in DOMAIN r.file_buffer |->
                        IF i \in r.base .. DeliverStop(r) - 1
                        THEN r.window[Idx(i)].data
                        ELSE r.file_buffer[i]]]

\* Copy the chunks [base, DeliverStop) to the file and free their slots.
DeliverInOrder(r) ==
  [r EXCEPT
     !.base        = DeliverStop(r),
     !.file_buffer = [i \in DOMAIN r.file_buffer |->
                        IF i \in r.base .. DeliverStop(r) - 1
                        THEN r.window[Idx(i)].data
                        ELSE r.file_buffer[i]],
     !.window      = [i \in Slots |->
                        IF \E n \in r.base .. DeliverStop(r) - 1 : Idx(n) = i
                        THEN [r.window[i] EXCEPT !.received = FALSE]
                        ELSE r.window[i]]]

\* Mutant: the last packet of the window is acknowledged but not buffered.
sr_receiver_handle_data_narrow(r, p) ==
  IF DataAcked(r, p) /\ p.seq_num >= r.base /\ p.seq_num < r.base + WINDOW_SIZE - 1
  THEN DeliverInOrder(BufferData(r, p))
  ELSE r

\* A packet behind the window is acknowledged again but changes nothing.
sr_receiver_handle_data(r, p) ==
  IF DataAcked(r, p) /\ p.seq_num >= r.base
  THEN DeliverInOrder(BufferData(r, p))
  ELSE r

\* Mutant: duplicates behind the window are not acknowledged again.
sr_receiver_send_ack_new_only(r, p) ==
  IF DataAcked(r, p) /\ p.seq_num >= r.base
  THEN {build_ack_packet(p.seq_num)} ELSE {}

sr_receiver_send_ack(r, p) ==
  IF DataAcked(r, p) THEN {build_ack_packet(p.seq_num)} ELSE {}

sr_receiver_is_complete(r) == r.base >= r.num_chunks

-----------------------------------------------------------------------------
(* What the two structures say about the transfer *)

\* The chunks the sender counts as acknowledged: those behind its base and
\* those of its window marked PKT_ACKED.
Acked(s) ==
  {n \in 0 .. s.num_chunks - 1 :
     \/ n < s.base
     \/ n < s.next_seq /\ s.window[Idx(n)].state = "PKT_ACKED"}

\* The chunks the receiver has: delivered to the file, or buffered.
Held(r) ==
  {n \in 0 .. r.num_chunks - 1 :
     \/ n < r.base
     \/ r.window[Idx(n)].received /\ r.window[Idx(n)].seq_num = n}

-----------------------------------------------------------------------------
(* The two structures between calls *)

SenderEntry ==
  [state : PacketState, seq_num : Nat, data : Chunk \cup {NoData},
   retries : 0 .. MAX_RETRIES]

ReceiverEntry ==
  [received : BOOLEAN, seq_num : Nat, data : Chunk \cup {NoData}]

SenderType(file, n) ==
  [base : 0 .. n, next_seq : 0 .. n, chunks_acked : Nat,
   num_chunks : {n}, file_data : {file},
   window : [Slots -> SenderEntry]]

ReceiverType(n) ==
  [base : 0 .. n, chunks_received : Nat, num_chunks : {n},
   file_buffer : [0 .. n - 1 -> Chunk \cup {NoData}],
   window : [Slots -> ReceiverEntry]]

DataPacket(n) == [seq_num : 0 .. n - 1, data : Chunk, ok : BOOLEAN]

AckPacket(n) == [ack_num : 0 .. n - 1, ok : BOOLEAN]

\* The slots in use are exactly those of [base, next_seq), each holding its
\* own packet, and chunks_acked counts the acknowledged chunks.
SendWindowOK(s) ==
  /\ s.base <= s.next_seq
  /\ s.next_seq <= s.base + WINDOW_SIZE
  /\ \A n \in s.base .. s.next_seq - 1 :
       /\ s.window[Idx(n)].state # "PKT_EMPTY"
       /\ s.window[Idx(n)].seq_num = n
       /\ s.window[Idx(n)].data = s.file_data[n]
  /\ \A i \in Slots :
       s.window[i].state # "PKT_EMPTY" =>
         \E n \in s.base .. s.next_seq - 1 : Idx(n) = i
  /\ s.chunks_acked = Cardinality(Acked(s))

\* Between calls the window has slid as far as it can.
SenderOK(s) ==
  /\ SendWindowOK(s)
  /\ s.base < s.next_seq => s.window[Idx(s.base)].state = "PKT_PENDING"

\* A buffered chunk is one of [base, base + WINDOW_SIZE), in its own slot;
\* what is delivered is the beginning of the file.
RecvWindowOK(r, file) ==
  /\ \A i \in Slots :
       r.window[i].received =>
         /\ r.window[i].seq_num \in r.base .. r.base + WINDOW_SIZE - 1
         /\ r.window[i].seq_num < r.num_chunks
         /\ Idx(r.window[i].seq_num) = i
         /\ r.window[i].data = file[r.window[i].seq_num]
  /\ \A i \in 0 .. r.base - 1 : r.file_buffer[i] = file[i]
  /\ r.chunks_received = Cardinality(Held(r))

\* Between calls everything that can be delivered has been.
ReceiverOK(r, file) ==
  /\ RecvWindowOK(r, file)
  /\ r.base < r.num_chunks => ~ r.window[Idx(r.base)].received
=============================================================================
