---------------------------- MODULE PeerTransfer ----------------------------
(***************************************************************************)
(* Clients as each other's peers: the UDP side of client.c with several    *)
(* clients, each of them owner and downloader, and several transfers.  It  *)
(* adds to SelectiveRepeat what happens around one transfer: the request   *)
(* and its answer, the single global_sender a second request re-initialises*)
(* the blocking reads of get(), the event loop that a command interrupts,  *)
(* the hash check and the saving of the file.                              *)
(*                                                                         *)
(* A client is single-threaded: between two blocking calls (poll and the   *)
(* recvfrom of lossy_recv) its code is one action.  The directory has been *)
(* asked already: a get starts with the location of a shared file.         *)
(***************************************************************************)
EXTENDS SRWindow, Sequences

CONSTANTS
  Peer,        \* the clients; each stands for the address of its UDP socket
  Path,        \* file names
  Table,       \* client -> the shared_files it has registered
  Disk0,       \* client -> the files in its directory at the start
  Editor,      \* clients whose user changes files
  NewContent,  \* what such a user may replace the content of a file by
  Getter,      \* clients whose user runs get
  Quitter,     \* clients whose user runs quit
  Writable,    \* file names that fopen(..., "wb") accepts
  NoFile,      \* the content of a file that does not exist
  None,        \* no transfer, no get, no receiver
  MaxGets,     \* bound on the get commands
  MaxFaults,   \* bound on datagrams lost, overtaken, duplicated or damaged, and
               \* on files changed
  Timely       \* TRUE: only what is no longer under way times out

VARIABLES
  mode,     \* where each client is: at poll, in one of its blocking reads, left
  running,  \* the flag of the event loop
  pollin,   \* the UDP socket was readable when the running command was read
  want,     \* rec_file: the location the running get works from
  rcv,      \* the receiver of the running get
  sender,   \* global_sender while transfer_active
  disk,     \* the files of each client
  chan,     \* chan[q][p]: datagrams from q to p not yet read
  faults,   \* datagrams lost, overtaken, duplicated or damaged, files changed
  gets      \* get commands so far

-----------------------------------------------------------------------------
(* Files *)

\* A file is its chunks; files with different chunks have different hashes.
compute_sha256(file) == [sha256 |-> file]

ChunksOf(file) == Cardinality(DOMAIN file)

IsFile(file) ==
  ChunksOf(file) \in Nat /\ file \in [0 .. ChunksOf(file) - 1 -> Chunk]

\* Whatever a client may have on its disk.
Files ==
  {Disk0[p][path] : p \in Peer, path \in Path} \cup NewContent
    \cup UNION {{e.hash.sha256 : e \in Table[p]} : p \in Peer}

\* The disks hold files; what a client has registered is the hash of a file it
\* had then, whatever its disk holds now.
ASSUME PeerAssumption ==
  /\ Disk0 \in [Peer -> [Path -> Files]]
  /\ \A file \in Files : file = NoFile \/ IsFile(file)
  /\ \A p \in Peer : \A e \in Table[p] :
       /\ e.file_name \in Path
       /\ IsFile(e.hash.sha256)
       /\ e.hash = compute_sha256(e.hash.sha256)
  /\ Getter \subseteq Peer /\ Quitter \subseteq Peer /\ Editor \subseteq Peer
  /\ MaxGets \in Nat /\ MaxFaults \in Nat
  /\ Timely \in BOOLEAN

-----------------------------------------------------------------------------
vars == <<mode, running, pollin, want, rcv, sender, disk, chan, faults, gets>>

Init ==
  /\ mode = [p \in Peer |-> "poll"]
  /\ running = [p \in Peer |-> TRUE]
  /\ pollin = [p \in Peer |-> FALSE]
  /\ want = [p \in Peer |-> None]
  /\ rcv = [p \in Peer |-> None]
  /\ sender = [p \in Peer |-> None]
  /\ disk = Disk0
  /\ chan = [q \in Peer |-> [p \in Peer |-> << >>]]
  /\ faults = 0
  /\ gets = 0

-----------------------------------------------------------------------------
(* Datagrams *)

\* What the directory may answer: where a shared file is.
Location ==
  UNION {{[file_id |-> e.file_id, hash |-> e.hash, filename |-> e.file_name,
           peer |-> q] : e \in Table[q]} : q \in Peer}

Request(loc) ==
  [to |-> loc.peer, type |-> "UDP_REQUEST_FILE", file_id |-> loc.file_id,
   hash |-> loc.hash, ok |-> TRUE]

FileStart(q, file) ==
  [to |-> q, type |-> "UDP_FILE_START", num_chunks |-> ChunksOf(file),
   ok |-> TRUE]

Data(q, packet) ==
  [to |-> q, type |-> "UDP_DATA", seq_num |-> packet.seq_num,
   data |-> packet.data, ok |-> packet.ok]

Ack(q, ack) ==
  [to |-> q, type |-> "UDP_ACK", ack_num |-> ack.ack_num, ok |-> ack.ok]

\* The datagrams for client p with numbers from num.
Requests(p) ==
  [to : {p}, type : {"UDP_REQUEST_FILE"}, file_id : {loc.file_id : loc \in Location},
   hash : {loc.hash : loc \in Location}, ok : BOOLEAN]

FileStarts(p, num) ==
  [to : {p}, type : {"UDP_FILE_START"}, num_chunks : num, ok : BOOLEAN]

Datas(p, num) ==
  [to : {p}, type : {"UDP_DATA"}, seq_num : num, data : Chunk, ok : BOOLEAN]

Acks(p, num) == [to : {p}, type : {"UDP_ACK"}, ack_num : num, ok : BOOLEAN]

Datagrams(p, num) ==
  Requests(p) \cup FileStarts(p, num) \cup Datas(p, num) \cup Acks(p, num)

\* The numbers in use: of chunks, and the first beyond them.
Number == UNION {0 .. ChunksOf(file) : file \in Files \ {NoFile}}

\* A set of numbers in increasing order.
InOrder(K) ==
  [i \in 1 .. Cardinality(K) |->
     CHOOSE k \in K : Cardinality({j \in K : j < k}) = i - 1]

\* Packets leave in the order of their sequence numbers.
DataInOrder(q, packets) ==
  LET at == InOrder({d.seq_num : d \in packets})
  IN  [i \in DOMAIN at |->
         Data(q, CHOOSE d \in packets : d.seq_num = at[i])]

\* At most one ACK answers a packet.
AckSeq(q, acks) ==
  IF acks = {} THEN << >> ELSE <<Ack(q, CHOOSE a \in acks : TRUE)>>

-----------------------------------------------------------------------------
(* The network: a queue from each client to each other one, and faults *)

\* Those of the datagrams out that are at the positions K.
Pick(out, K) ==
  LET at == InOrder(K) IN [i \in DOMAIN at |-> out[at[i]]]

\* p sends the datagrams out, some of which are lost on the way; c and f are the
\* queues and the fault count when it does.  Nobody receives what is sent to a
\* client that has left.
Transmit(p, c, f, out) ==
  \E lost \in SUBSET DOMAIN out :
    /\ faults' = f + Cardinality(lost)
    /\ faults' <= MaxFaults
    /\ chan' = [c EXCEPT ![p] = [r \in Peer |->
         @[r] \o Pick(out, {k \in DOMAIN out \ lost :
                             out[k].to = r /\ mode[r] # "left"})]]

\* The next datagram p may read: the oldest from some client, or at the cost
\* of a fault a younger one, or a copy of one that stays under way.
ReadCost(r) == (IF r.at > 1 THEN 1 ELSE 0) + (IF r.copy THEN 1 ELSE 0)

Reads(p) ==
  {r \in UNION {[from : {q}, at : DOMAIN chan[q][p], copy : BOOLEAN] :
                q \in Peer} : faults + ReadCost(r) <= MaxFaults}

Datagram(p, r) == chan[r.from][p][r.at]

Without(s, k) == SubSeq(s, 1, k - 1) \o SubSeq(s, k + 1, Len(s))

AfterRead(p, r) ==
  [chan EXCEPT ![r.from][p] = IF r.copy THEN @ ELSE Without(@, r.at)]

\* Damage on the way.  The checksum shows it (~ ok), except when the changes of
\* several bytes cancel out: then the datagram is any other one of its type.
\* ACKs are used, and requests answered, whatever their checksum says.
Damaged(d) ==
  {[d EXCEPT !.ok = FALSE]}
    \cup {x \in Datagrams(d.to, Number) : x.type = d.type /\ x.ok}

Damage(q, p) ==
  /\ faults < MaxFaults
  /\ \E k \in DOMAIN chan[q][p] :
       \E d \in Damaged(chan[q][p][k]) : chan' = [chan EXCEPT ![q][p][k] = d]
  /\ faults' = faults + 1
  /\ UNCHANGED <<mode, running, pollin, want, rcv, sender, disk, gets>>

-----------------------------------------------------------------------------
(* The end of an iteration of the event loop *)

InFlight(p, q, n) ==
  \/ \E k \in DOMAIN chan[p][q] : /\ chan[p][q][k].type = "UDP_DATA"
                                  /\ chan[p][q][k].seq_num = n
                                  /\ mode[q] # "left"
  \/ \E k \in DOMAIN chan[q][p] :
       chan[q][p][k].type = "UDP_ACK" /\ chan[q][p][k].ack_num = n

\* The packets whose age may have reached TIMEOUT_MS.
Expirable(p, t) ==
  IF Timely
  THEN {n \in t.sr.base .. t.sr.next_seq - 1 : ~ InFlight(p, t.peer_addr, n)}
  ELSE t.sr.base .. t.sr.next_seq - 1

LoopAgain(p, run) ==
  mode' = [mode EXCEPT ![p] = IF run THEN "poll" ELSE "left"]

\* From "if (transfer_active)" to the end of the loop body: what is sent, and
\* the transfer afterwards.  After abort or completion global_sender is not
\* looked at any more.
Outcome(t, w, expired) ==
  [burst |-> DataInOrder(t.peer_addr, FirstPackets(t.sr))
               \o DataInOrder(t.peer_addr, RetransmittedPackets(w, expired)),
   after |-> IF TimeoutsFail(w, expired) \/ sr_sender_is_complete(w)
             THEN None
             ELSE [t EXCEPT !.sr = sr_sender_check_timeouts(w, expired)]]

TransferStep(p, t) ==
  IF t = None THEN {[burst |-> << >>, after |-> None]}
  ELSE {Outcome(t, w, expired) : w \in {sr_sender_send_window(t.sr)},
                                 expired \in SUBSET Expirable(p, t)}

\* t is the transfer when this part is reached, out what the iteration has sent
\* before, run the flag running.
EndIteration(p, t, c, f, out, run) ==
  /\ LoopAgain(p, run)
  /\ \E step \in UNION {TransferStep(p, u) : u \in {t}} :
       /\ Transmit(p, c, f, out \o step.burst)
       /\ sender' = [sender EXCEPT ![p] = IF run THEN step.after ELSE None]

\* poll timed out.
Idle(p) ==
  /\ mode[p] = "poll"
  /\ sender[p] # None
  /\ EndIteration(p, sender[p], chan, faults, << >>, TRUE)
  /\ UNCHANGED <<running, pollin, want, rcv, disk, gets>>

-----------------------------------------------------------------------------
(* A datagram read by the event loop *)

\* The shared file a request asks for, if the hashes agree and it is on disk.
find_shared_file_by_id(p, id) == {e \in Table[p] : e.file_id = id}

Offered(p, d) ==
  {e \in find_shared_file_by_id(p, d.file_id) :
     e.hash = d.hash /\ disk[p][e.file_name] # NoFile}

\* Between ftell and fread the file has become shorter: the requester has its
\* UDP_FILE_START, but the request is dropped.
ShortRead(p, r, e) ==
  LET file == disk[p][e.file_name]
  IN  /\ p \in Editor
      /\ \E less \in NewContent \ {NoFile} :
           /\ ChunksOf(less) < ChunksOf(file)
           /\ disk' = [disk EXCEPT ![p][e.file_name] = less]
      /\ LoopAgain(p, running[p])
      /\ Transmit(p, AfterRead(p, r), faults + ReadCost(r) + 1,
                  <<FileStart(r.from, file)>>)
      /\ UNCHANGED sender

\* The answer to a request: UDP_FILE_START, and global_sender is set up for
\* the requester, whether or not it was in use.  A request that is refused
\* ends the iteration at once ("continue").
HandleRequest(p, r) ==
  LET d == Datagram(p, r)
  IN  \/ /\ Offered(p, d) = {}
         /\ LoopAgain(p, running[p])
         /\ Transmit(p, AfterRead(p, r), faults + ReadCost(r), << >>)
         /\ UNCHANGED <<sender, disk>>
      \/ /\ \E e \in Offered(p, d) :
              LET file == disk[p][e.file_name]
              IN  EndIteration(p,
                    [sr |-> sr_sender_init(file, ChunksOf(file)),
                     peer_addr |-> r.from],
                    AfterRead(p, r), faults + ReadCost(r),
                    <<FileStart(r.from, file)>>, running[p])
         /\ UNCHANGED disk
      \/ \E e \in Offered(p, d) : ShortRead(p, r, e)

\* An ACK counts for the transfer that is active, whoever sent it.
HandleAck(p, r) ==
  /\ EndIteration(p,
       IF sender[p] = None THEN None
       ELSE [sender[p] EXCEPT !.sr =
               sr_sender_handle_ack(@, Datagram(p, r).ack_num)],
       AfterRead(p, r), faults + ReadCost(r), << >>, running[p])
  /\ UNCHANGED disk

\* The other types have no case in the event loop.
IgnoreDatagram(p, r) ==
  /\ EndIteration(p, sender[p], AfterRead(p, r), faults + ReadCost(r), << >>,
                  running[p])
  /\ UNCHANGED disk

\* The blocking read after poll, also when a command has emptied the socket.
HandleUdp(p) ==
  /\ mode[p] \in {"poll", "recv"}
  /\ \E r \in Reads(p) :
       CASE Datagram(p, r).type = "UDP_REQUEST_FILE" -> HandleRequest(p, r)
         [] Datagram(p, r).type = "UDP_ACK" -> HandleAck(p, r)
         [] OTHER -> IgnoreDatagram(p, r)
  /\ UNCHANGED <<running, pollin, want, rcv, gets>>

-----------------------------------------------------------------------------
(* Commands *)

\* poll reports the two descriptors together: when the command is read, the
\* UDP socket may have been found readable too.
PollUdp(p) ==
  {b \in BOOLEAN : b => \E q \in Peer : chan[q][p] # << >>}

\* get: the location is known, the request is sent, and get waits.
get(p) ==
  /\ mode[p] = "poll"
  /\ gets < MaxGets
  /\ \E loc \in Location, b \in PollUdp(p) :
       /\ want' = [want EXCEPT ![p] = loc]
       /\ pollin' = [pollin EXCEPT ![p] = b]
       /\ Transmit(p, chan, faults, <<Request(loc)>>)
  /\ mode' = [mode EXCEPT ![p] = "wait_start"]
  /\ gets' = gets + 1
  /\ UNCHANGED <<running, rcv, sender, disk>>

\* Mutant: the receiver is not cleaned up.
Returned_keeps_receiver(p, res, c, f, out) ==
  LET run == running[p] /\ res = 0
  IN  /\ running' = [running EXCEPT ![p] = run]
      /\ IF pollin[p]
         THEN /\ mode' = [mode EXCEPT ![p] = "recv"]
              /\ Transmit(p, c, f, out)
              /\ UNCHANGED sender
         ELSE EndIteration(p, sender[p], c, f, out, run)
      /\ pollin' = [pollin EXCEPT ![p] = FALSE]
      /\ want' = [want EXCEPT ![p] = None]
      /\ UNCHANGED rcv

\* get has returned: a non-zero result ends the session.  The iteration goes
\* on with what poll reported before the command.
Returned(p, res, c, f, out) ==
  LET run == running[p] /\ res = 0
  IN  /\ running' = [running EXCEPT ![p] = run]
      /\ IF pollin[p]
         THEN /\ mode' = [mode EXCEPT ![p] = "recv"]
              /\ Transmit(p, c, f, out)
              /\ UNCHANGED sender
         ELSE EndIteration(p, sender[p], c, f, out, run)
      /\ pollin' = [pollin EXCEPT ![p] = FALSE]
      /\ want' = [want EXCEPT ![p] = None]
      /\ rcv' = [rcv EXCEPT ![p] = None]

\* Mutant: whatever has been received is saved.
FinishGet_unchecked(p, file, c, f, out) ==
  IF want[p].filename \notin Writable
  THEN UNCHANGED disk /\ Returned(p, -1, c, f, out)
  ELSE /\ disk' = [disk EXCEPT ![p][want[p].filename] = file]
       /\ Returned(p, 0, c, f, out)

\* The file is complete: it is saved under its name if its hash is the one the
\* directory gave.  If it cannot be written, get returns -1; a wrong hash is
\* reported, and is not an error to the caller.
FinishGet(p, file, c, f, out) ==
  IF compute_sha256(file) # want[p].hash
  THEN UNCHANGED disk /\ Returned(p, 0, c, f, out)
  ELSE IF want[p].filename \notin Writable
  THEN UNCHANGED disk /\ Returned(p, -1, c, f, out)
  ELSE /\ disk' = [disk EXCEPT ![p][want[p].filename] = file]
       /\ Returned(p, 0, c, f, out)

\* Mutant: the loop reads a packet before it tests for completion.
Receiving_do_while(p, r, c, f, out) ==
  IF sr_receiver_is_complete(r) /\ out # << >>
  THEN FinishGet(p, r.file_buffer, c, f, out)
  ELSE /\ rcv' = [rcv EXCEPT ![p] = r]
       /\ mode' = [mode EXCEPT ![p] = "receiving"]
       /\ Transmit(p, c, f, out)
       /\ UNCHANGED <<running, pollin, want, sender, disk>>

\* get goes on with receiver r, unless it has everything.
Receiving(p, r, c, f, out) ==
  IF sr_receiver_is_complete(r)
  THEN FinishGet(p, r.file_buffer, c, f, out)
  ELSE /\ rcv' = [rcv EXCEPT ![p] = r]
       /\ mode' = [mode EXCEPT ![p] = "receiving"]
       /\ Transmit(p, c, f, out)
       /\ UNCHANGED <<running, pollin, want, sender, disk>>

\* What get makes of the one datagram it reads as the answer.
StartResult(p, from, d) ==
  IF ~ d.ok \/ from # want[p].peer THEN "return 1"
  ELSE IF d.type # "UDP_FILE_START" THEN "return 0"
  ELSE "start"

AwaitStart(p) ==
  /\ mode[p] = "wait_start"
  /\ \E r \in Reads(p) :
       LET d == Datagram(p, r)
           c == AfterRead(p, r)
           f == faults + ReadCost(r)
       IN  CASE StartResult(p, r.from, d) = "return 1" ->
                  UNCHANGED disk /\ Returned(p, 1, c, f, << >>)
             [] StartResult(p, r.from, d) = "return 0" ->
                  UNCHANGED disk /\ Returned(p, 0, c, f, << >>)
             [] OTHER ->
                  Receiving(p, sr_receiver_init(d.num_chunks), c, f, << >>)
  /\ UNCHANGED gets

\* The datagrams the loop of get works on; the others it reads and drops.
ForReceiver(p, from, d) == from = want[p].peer /\ d.type = "UDP_DATA"

ReceiveData(p) ==
  /\ mode[p] = "receiving"
  /\ \E r \in Reads(p) :
       LET d == Datagram(p, r)
           c == AfterRead(p, r)
           f == faults + ReadCost(r)
       IN  IF ForReceiver(p, r.from, d)
           THEN Receiving(p, sr_receiver_handle_data(rcv[p], d), c, f,
                          AckSeq(r.from, sr_receiver_send_ack(rcv[p], d)))
           ELSE Receiving(p, rcv[p], c, f, << >>)
  /\ UNCHANGED gets

\* quit: the rest of the iteration is still carried out.
quit(p) ==
  /\ mode[p] = "poll"
  /\ running' = [running EXCEPT ![p] = FALSE]
  /\ \E b \in PollUdp(p) :
       IF b
       THEN /\ mode' = [mode EXCEPT ![p] = "recv"]
            /\ UNCHANGED <<sender, chan, faults>>
       ELSE EndIteration(p, sender[p], chan, faults, << >>, FALSE)
  /\ UNCHANGED <<pollin, want, rcv, disk, gets>>

\* A user changes or deletes a file; its entry in the table stays as it was.
EditFile(p) ==
  /\ faults < MaxFaults
  /\ mode[p] # "left"
  /\ \E path \in Path, file \in NewContent :
       /\ disk[p][path] # file
       /\ disk' = [disk EXCEPT ![p][path] = file]
  /\ faults' = faults + 1
  /\ UNCHANGED <<mode, running, pollin, want, rcv, sender, chan, gets>>

-----------------------------------------------------------------------------
\* A client goes on by itself.
Proceed(p) == Idle(p) \/ HandleUdp(p) \/ AwaitStart(p) \/ ReceiveData(p)

Next ==
  \/ \E p \in Peer : Proceed(p)
  \/ \E p \in Getter : get(p)
  \/ \E p \in Quitter : quit(p)
  \/ \E p \in Editor : EditFile(p)
  \/ \E p, q \in Peer : Damage(q, p)

Spec == Init /\ [][Next]_vars

\* A client that can go on does: its event loop turns every 100 ms, packets get
\* old, and a blocking read returns when there is something to read.
Fairness == \A p \in Peer : WF_vars(Proceed(p))

FairSpec == Spec /\ Fairness

-----------------------------------------------------------------------------
(* Properties *)

Queues(c) ==
  /\ c = [q \in Peer |-> [p \in Peer |-> c[q][p]]]
  /\ \A q, p \in Peer : c[q][p] \in Seq(Datagrams(p, Nat))

\* An active transfer: global_sender with the file it sends, and to whom.
Transfer(t) ==
  /\ t = [sr |-> t.sr, peer_addr |-> t.peer_addr]
  /\ t.peer_addr \in Peer
  /\ IsFile(t.sr.file_data)
  /\ t.sr \in SenderType(t.sr.file_data, ChunksOf(t.sr.file_data))

\* A receiver of a file of some length.
Receiver(r) == r.num_chunks \in Nat /\ r \in ReceiverType(r.num_chunks)

\* Type invariant: a client has a location while it is inside get, a receiver
\* while it is in the loop of get and not afterwards, a datagram is queued for
\* its addressee, and only whole files are ever found on a disk.
TypeOK ==
  /\ mode \in [Peer -> {"poll", "wait_start", "receiving", "recv", "left"}]
  /\ running \in [Peer -> BOOLEAN]
  /\ pollin \in [Peer -> BOOLEAN]
  /\ want \in [Peer -> Location \cup {None}]
  /\ rcv = [p \in Peer |-> rcv[p]]
  /\ sender = [p \in Peer |-> sender[p]]
  /\ \A p \in Peer :
       /\ IF mode[p] \in {"wait_start", "receiving"}
          THEN want[p] \in Location ELSE want[p] = None
       /\ IF mode[p] = "receiving" THEN Receiver(rcv[p]) ELSE rcv[p] = None
       /\ sender[p] # None => Transfer(sender[p])
  /\ disk \in [Peer -> [Path -> Files]]
  /\ Queues(chan)
  /\ faults \in 0 .. MaxFaults
  /\ gets \in 0 .. MaxGets

\* What get saves is the file the directory listed, although UDP_FILE_START and
\* DATA do not say which file they belong to: stale packets of an earlier
\* transfer, damage the checksum misses, and a file changed or overwritten by
\* its owner after it was shared are all caught by the hash.
SavedAsShared ==
  [][\A p \in Peer, path \in Path :
       disk'[p][path] # disk[p][path] /\ want'[p] # want[p] =>
         \E q \in Peer : \E e \in Table[q] :
           /\ want[p].peer = q /\ want[p].file_id = e.file_id
           /\ path = e.file_name
           /\ compute_sha256(disk'[p][path]) = e.hash]_vars

\* ACKs of an earlier transfer, or sent by another client, cannot bring
\* global_sender out of order: the slots of [base, next_seq) hold their own
\* packets of the file being sent, chunks_acked counts every chunk once, and an
\* active transfer has a packet to wait for.
SenderSound ==
  \A p \in Peer : sender[p] # None =>
    LET s == sender[p].sr
    IN  /\ s.base < s.next_seq /\ s.next_seq <= s.base + WINDOW_SIZE
        /\ \A n \in s.base .. s.next_seq - 1 :
             /\ s.window[Idx(n)].state # "PKT_EMPTY"
             /\ s.window[Idx(n)].seq_num = n
             /\ s.window[Idx(n)].data = s.file_data[n]
        /\ s.window[Idx(s.base)].state = "PKT_PENDING"
        /\ s.chunks_acked = Cardinality(Acked(s))

\* The chunks an owner counts as acknowledged are held by the client it sends
\* them to, as long as that client is receiving from it.  An ACK does not say
\* which transfer it belongs to, nor does the owner ask who sent it, so this is
\* said only while no datagram is lost, late or repeated and no other client
\* runs get.
AckedByPeer ==
  \A p, q \in Peer :
    /\ faults = 0
    /\ Timely
    /\ Getter \subseteq {p, q}
    /\ sender[p] # None
    /\ sender[p].peer_addr = q
    /\ rcv[q] # None
    /\ want[q].peer = p
    => Acked(sender[p].sr) \subseteq Held(rcv[q])

\* global_sender is given back, whatever has become of the client it sends to:
\* a transfer goes on forever only if its own client is stuck forever in a
\* blocking read, of get or after it.
OwnerFreed ==
  \A p \in Peer : []<>(mode[p] = "poll") => []<>(sender[p] = None)

\* get ends with the file saved, the empty one included, unless something goes
\* wrong on the way, the file cannot be written, or the owner leaves its event
\* loop: a get of its own would swallow the request.
GetSaves ==
  \A p \in Peer, loc \in Location :
    want[p] = loc ~> \/ faults > 0
                     \/ loc.filename \notin Writable
                     \/ mode[loc.peer] # "poll"
                     \/ /\ disk[p][loc.filename] # NoFile
                        /\ compute_sha256(disk[p][loc.filename]) = loc.hash

\* get ends, one way or another.
GetEnds ==
  \A p \in Peer : want[p] # None ~> want[p] = None
=============================================================================
