----------------------------- MODULE MCSRLoops ------------------------------
(***************************************************************************)
(* The loops of selective_repeat.c, one iteration at a time, against the   *)
(* closed forms SRWindow gives for them.  The closed forms read the window *)
(* as it was before the loop; the loops read what they have written.       *)
(***************************************************************************)
EXTENDS MCSelectiveRepeat, Sequences

RECURSIVE SendLoop(_)
SendLoop(s) ==
  IF /\ s.next_seq < s.base + WINDOW_SIZE
     /\ s.next_seq < s.num_chunks
     /\ s.window[Idx(s.next_seq)].state = "PKT_EMPTY"
  THEN SendLoop([s EXCEPT !.window[Idx(s.next_seq)] = FreshEntry(s, s.next_seq),
                          !.next_seq = @ + 1])
  ELSE s

RECURSIVE SlideLoop(_)
SlideLoop(s) ==
  IF s.base < s.num_chunks /\ s.window[Idx(s.base)].state = "PKT_ACKED"
  THEN SlideLoop([s EXCEPT !.window[Idx(s.base)].state = "PKT_EMPTY",
                           !.base = @ + 1])
  ELSE s

\* The scan returns the sender, what it sent and whether it failed (-1).
RECURSIVE TimeoutLoop(_, _, _, _)
TimeoutLoop(s, expired, seq, sent) ==
  IF seq >= s.next_seq
  THEN [sender |-> s, sent |-> sent, failed |-> FALSE]
  ELSE LET entry == s.window[Idx(seq)]
       IN  IF \/ entry.state # "PKT_PENDING"
              \/ entry.seq_num # seq
              \/ seq \notin expired
           THEN TimeoutLoop(s, expired, seq + 1, sent)
           ELSE IF entry.retries >= MAX_RETRIES
           THEN [sender |-> s, sent |-> sent, failed |-> TRUE]
           ELSE TimeoutLoop([s EXCEPT !.window[Idx(seq)].retries = @ + 1],
                            expired, seq + 1,
                            sent \cup {build_data_packet(entry.seq_num, entry.data)})

RECURSIVE DeliverLoop(_)
DeliverLoop(r) ==
  IF r.base < r.num_chunks /\ r.window[Idx(r.base)].received
  THEN DeliverLoop([r EXCEPT !.file_buffer[r.base] = r.window[Idx(r.base)].data,
                             !.window[Idx(r.base)].received = FALSE,
                             !.base = @ + 1])
  ELSE r

\* The sender's loops, for every ACK it could read next.
SenderLoopsAgree ==
  \A ack \in 0 .. NumChunks - 1 :
    LET m == MarkAcked(snd, ack)
        s == sr_sender_handle_ack(snd, ack)
        w == sr_sender_send_window(s)
    IN  /\ SlideLoop(m) = SlideSendWindow(m)
        /\ SendLoop(s) = w
        /\ \A expired \in SUBSET (w.base .. w.next_seq - 1) :
             TimeoutLoop(w, expired, w.base, {}) =
               [sender |-> sr_sender_check_timeouts(w, expired),
                sent   |-> RetransmittedPackets(w, expired),
                failed |-> TimeoutsFail(w, expired)]

\* The delivery loop, for every packet of the file that could arrive next.
ReceiverLoopAgrees ==
  \A n \in rcv.base .. NumChunks - 1 :
    n < rcv.base + WINDOW_SIZE =>
      LET r == BufferData(rcv, build_data_packet(n, FileData[n]))
      IN  DeliverLoop(r) = DeliverInOrder(r)

\* On every pair of windows the protocol reaches the loops of handle_ack,
\* send_window, check_timeouts and handle_data, which wrap around the window
\* while they change it, end where the closed forms of SRWindow say.
LoopsAgree == SenderLoopsAgree /\ ReceiverLoopAgrees
=============================================================================
