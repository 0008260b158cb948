# Verification of the P2P file sharing program

The program (`src/skeleton`) shares files between clients. A central
**directory server** (TCP, `server.c`) knows who shares what; the files
themselves travel directly between **clients** (UDP, `client.c`) with a
selective-repeat protocol (`selective_repeat.c`). This directory holds TLA+
models of that code, the TLC configurations that check them on small instances,
and TLAPS proofs for every instance.

## 1. Inventory of the program

| Part | Code | State | Operations |
|---|---|---|---|
| Selective repeat sender | `selective_repeat.c:53-351` | `sr_sender_t`: base, next_seq, window of slots, chunks_acked | init, send_window, handle_ack, check_timeouts, is_complete |
| Selective repeat receiver | `selective_repeat.c:359-544` | `sr_receiver_t`: base, window, file_buffer, chunks_received | init, handle_data, send_ack, is_complete |
| Client event loop | `client.c:1013-1246` | `global_sender`, `transfer_active` | poll; command; UDP request, UDP ACK; then send window, timeouts, completion |
| get | `client.c:304-640` | a receiver on the stack | location from the directory, UDP request, wait for FILE_START, receive loop, hash check, save |
| share, list, quit, registration | `client.c:36-302, 642-677, 874-999` | TCP socket | one request, one reply, all blocking |
| Table of shared files | `share_file_logic.c` | up to 1024 entries | add, find by id |
| Directory server | `server.c` | client table (256 slots), file table (1024), id counters | poll loop, accept, register, share, list, request, unregister, disconnect |
| Lossy link | `lossy_udp.c` | random generator | drop or send |
| Command input | `client.c:679-786, 1013-1034` | the buffer of stdin | fgets, handle_command |
| Wire format | `protocol.h` | | packed structs, 16-bit lengths, additive checksum |
| Helpers | `common.c` | | sockets, clock, files, SHA-256 |

Everything is single-threaded; concurrency is between processes. A client
process is an event loop that is blocked completely while a command runs. The
hard part is therefore in the messages: datagrams that are lost, repeated,
late or damaged, timeouts that race ACKs, connections that appear and vanish
while the server works through a snapshot of ready sockets. `PROJECT.json`
lists these hazards line by line with the properties that cover them.

## 2. Modules

    SRWindow            the sr_* functions as pure operators
        SRWindowProofs                        lemmas, one per function
      SelectiveRepeat   one transfer: owner's loop, get()'s loop, the network
        MCSelectiveRepeat, MCSRLoops          instances for TLC
        DamagedTransfer                       the same with damaged packets
          MCDamagedTransfer                   instance for TLC
          SelectiveRepeatProofs               theorems about the two
      PeerTransfer      several clients, several transfers: all of the UDP side
        MCPeerTransfer                        instance for TLC
        PeerTransferProofs                    theorems
    ReliableTransfer    what a transfer promises (SelectiveRepeat implements it)

    DirectoryServer     server.c and its TCP connections
      FileSharing       the server composed with its clients (TCP half)
        MCFileSharing                         instance for TLC
        FileSharingInvariant                  the inductive invariant, streams
        FileSharingHandlers                   the handlers of the server
        FileSharingSteps                      poll, disconnect and the clients
        FileSharingProofs                     theorems
    Directory           what the directory promises (FileSharing implements it)

    Widths              the widths of the C integer types
      FileBytes         sizes, chunks and offsets
      Checksum          calculate_checksum
    FileList            the file list in bytes
    RetransmitTimer     one packet and the clock
        MCWidths                              the four for TLC
        WidthsProofs                          theorems about the four
    CommandInput        from standard input to handle_command

Definitions carry the names of the C functions where they model one.
Definitions whose names extend another's (`Exhausted_late`) and whose comment
starts with "Mutant" are variants with a bug; no specification uses them. They
show that the property they break is sensitive to that code.

### SRWindow

Each function of `selective_repeat.c` maps the structure before the call to
the structure after it. The C loops appear as closed forms: `SendStop`,
`SlideStop`, `DeliverStop` say where a loop stops, and the updated window is
given at once. `MCSRLoops` holds the same loops iteration by iteration, and
run `sr_safety` compares the two on every reachable window. Abstractions:

* A chunk of up to 1024 bytes is a value of `Chunk`, without a length; how long
  the chunks of a file are is `FileBytes`'.
* `ok` says whether the checksum field fits the bytes; what the checksum can
  tell apart is `Checksum`'s.
* `send_time_ms` is left out. Which pending packets are `TIMEOUT_MS` old is
  the argument `expired` of `sr_sender_check_timeouts`; when that is, is
  `RetransmitTimer`'s.

### SelectiveRepeat

The state is `global_sender` with `transfer_active` (variables `snd`,
`transfer`), the receiver in `get` (`rcv`, `getting`), the packets in flight
and the number of faults so far.

| Action | Code |
|---|---|
| `SenderIdle`, `SenderAck` | one iteration of the event loop, `client.c:1013-1246`: read an ACK or nothing, then send window, timeout scan, abort or completion |
| `LateAck` | an ACK read when no transfer is active |
| `ReceiveData` | one iteration of the loop in `get`, `client.c:557-580` |
| `LateData` | a DATA packet read by the event loop, which has no case for it |

`data_net` and `ack_net` are sets: any packet in flight may be the next one
read, so packets overtake each other, and unless `Timely` holds a packet that
is read may stay in flight, so it can arrive again at any later time. A packet
is lost where the code loses it, in `lossy_send`. With `Timely = TRUE` a packet
times out only when neither it nor its ACK is on the way; this is the setting
in which the retry limit means something.

`DamagedTransfer` adds `CorruptData` and `CorruptAck`, damage in flight. Damage
may change the number of a DATA packet, its chunk, or both, and the checksum may
show it or not: it is a sum of bytes, which two bytes that trade places do not
change. `unseen` counts the DATA packets whose damage it does not show. The
checksum of an ACK is never looked at.

`ReliableTransfer` is the promise: the copy grows in order from the front, the
owner learns of success only when it is whole, and may give up at any time.
`KeepsPromise` states that `SelectiveRepeat` implements it, with
`rcv.file_buffer` below `rcv.base` as the copy.

### PeerTransfer

The whole UDP side with several clients, each of which is owner and downloader.
It uses the operators of `SRWindow` and adds what happens around a transfer.
Per client there are the place where its only thread blocks (`mode`: poll, one
of the reads of `get`, the read after poll, left), the location a running `get`
works from (`want`), its receiver (`rcv`), `global_sender` with the peer it
sends to (`sender`), and its directory on disk. Between two blocking calls the
C code is one action:

| Action | Code |
|---|---|
| `Idle` | poll timed out: send window, timeout scan, abort or completion |
| `HandleUdp` | the read after poll: a request (hash comparison, `UDP_FILE_START`, `sr_sender_init` on the one `global_sender`, busy or not; refusals; a file that shrinks before `fread`), an ACK from anybody, anything else; then the end of the iteration |
| `get` | the command, with what poll had reported about the UDP socket |
| `AwaitStart` | the one datagram `get` reads as the answer, and its three outcomes |
| `ReceiveData` | one iteration of the receive loop; when the file is complete, the hash check, saving, the return value and the rest of the iteration the command was called from |
| `quit`, `EditFile`, `Damage` | the user leaves or changes a file; damage in flight |

A command that finds its socket emptied returns into the read after poll
(`mode` "recv"): the stale POLLIN is kept in `pollin`. Datagrams between two
clients are queued; losing, overtaking, repeating or damaging one, and changing
a file, each cost one of `MaxFaults`. Damage strikes datagrams of every type. If
the checksum shows it, `ok` becomes false, which only `sr_receiver_handle_data`
looks at; if not, the datagram becomes any other well-formed one of its type: a
request for another file or with another hash, a `UDP_FILE_START` with another
number of chunks, a DATA packet with another number or chunk, an ACK with
another number. That damage turns a datagram into one of another type or length
is not modelled.

### DirectoryServer, FileSharing and Directory

`DirectoryServer` has the two tables of `server.c`, each handler under its
name, and the poll loop. `Poll` takes the snapshot of ready sockets (`todo`)
and accepts one waiting connection, as the code does before it looks at the
snapshot; each `Serve` handles the next socket of the snapshot. Between two
steps the clients do what they like, so a socket of the snapshot may have
lost its slot when its turn comes. With `MaySplit` a `recv` may return a part of
a message, which `process_client_message` drops, and later the rest. A
connection is named by the client process that opened it; the fd number is never
reused while a slot holds it, because `remove_client` clears the slot. The file
table is a set: its order only affects the order in which `list` prints.

`FileSharing` adds the clients: connect, register, `share`, `list`, `get` (up
to the location reply), `quit`, and a crash at any moment, with or without the
loss of what the server has not read. An error reply or a closed connection
ends the session, as `handle_command` does.

`Directory` is the promise: clients join and leave, publish under fresh ids, and
every answer is one to the question its client waits on and true of the catalog
at one moment between the question and the reading of it. An error is such an
answer too: a publication is refused only when the catalog is full, a file only
when it is not on offer. Under the mapping of `Abstract` (members are the
processes of active slots, a question is the request a client waits on, a reply
is what it will read) `FileSharing` implements it.

### The calculations

`FileBytes` computes the number of chunks as the sender does (in 32 bits) and as
the event loop announces it (in a `long`), and copies the chunks one by one.
`Checksum` is `calculate_checksum` loop by loop. `FileList` is the exchange of
`TCP_FILE_LIST` in bytes, with the 16-bit `data_len`. `RetransmitTimer` is one
window entry under a time of day that can be set in either direction. Widths are
constants; `MCWidths` puts the four side by side, one per behaviour.

### CommandInput

The lines on their way from the descriptor through the buffer of stdin to
`handle_command`, and every branch of that. A read of a terminal returns one
line, a read of a pipe all there is.

## 3. What the runs check

| Run | Instance | Shows |
|---|---|---|
| `sr_safety` | window 2, 1 retry, 4 chunks, 2 losses, duplicates and reordering | the inductive invariant, all safety and action properties of the transfer, the refinement of `ReliableTransfer`, and closed forms equal to the loops |
| `sr_corrupt` | window 2, 1 retry, 3 chunks and a chunk that is not in the file, 1 fault (loss or damage, shown by the checksum or not), duplicates and reordering | damage the checksum shows spoils nothing, damage it misses no more than one chunk; only a damaged ACK misleads the sender |
| `sr_timely` | window 2, 2 retries, 4 chunks, 2 losses, timely network | up to MAX_RETRIES losses do not keep the file from arriving |
| `pt_safety` | 3 clients, 2 owners of one file name, 2 gets, 1 fault: a datagram lost, overtaken, repeated or damaged, or a file changed | only what was shared is saved; foreign and stale ACKs never break `global_sender` |
| `pt_serves` | 2 clients, both of which may run get, files of 2, 1 and 0 chunks, one name not writable, 2 gets, 1 fault, quit | a get saves its file if nothing goes wrong and the owner stays in its event loop; `global_sender` is given back |
| `fs_directory` | 3 clients, 2 slots, 2 file entries, shares stop once 2 ids are used, split messages | tables, slots, ids, replies and locations are right; the refinement of `Directory`: answers fit the questions, errors are deserved |
| `fs_answers` | 2 clients, 2 slots, 1 file entry, whole messages | commands are answered, departed clients forgotten |
| `widths` | words of 8 and 10 bits with 16-byte chunks; lists at their real sizes; a timeout of 3 ticks, 3 settings of the clock | the calculations are exact where they claim to be |
| `input` | 3 lines, terminal or pipe | lines are handled once, in order, and all of them from a terminal |

Three runs end in a violation and document a disagreement between the code and
what the repository says (quoted under `findings` in `PROJECT.json`):

* `sr_last_ack`: if the last ACK is lost, the receiver has already left `get`,
  its event loop drops the repeated packets, and the owner reports a failed
  transfer of a file that has arrived.
* `pt_get_ends`: a second request takes over `global_sender`, and the first
  requester's `get` never ends, with no datagram lost.
* `fs_slot_taken`: a connection accepted while another has yet to register
  takes over its slot; the first client waits for its reply forever.

Other behaviour met while modelling is part of the models, and the properties
above are stated so that they hold with it:

* ACKs are used without verifying their checksum (`client.c:1197`), which is why
  `OnlyDamageMisleads` needs its exception, and whoever sends them, which is why
  `AckedByPeer` is about runs without lost, late or repeated datagrams in which
  nobody but the two clients concerned runs `get`: with a second downloader the
  ACKs for its file would count for this one's.
* DATA whose damage the additive checksum misses is delivered
  (`selective_repeat.c:447`), which is why `DamageContained` counts it; in `get`
  the hash of the whole file is what keeps such a file from being saved
  (`SavedAsShared`).
* `protocol.h:148` documents a cumulative `ack_num`; both ends of the code treat
  it as the number of the packet that arrived.
* `get` blocks in `recvfrom` for good when the owner gives up, when the request
  or `UDP_FILE_START` is lost, when the owner is itself inside `get` and drops
  the request (`client.c:570`), and when the owner cannot read the file
  (`client.c:1102, 1172`). `OwnerFreed` is about owners that come back to their
  event loop, `GetSaves` about owners that are in it.
* A datagram of a third client where `get` expects its answer ends the session
  (`client.c:514, 767`); a stale POLLIN lets the event loop block in `recvfrom`
  (`client.c:1037`).
* A message TCP delivers in two parts is dropped (`server.c:459`); hence
  `fs_answers` is about whole messages.
* `sr_sender_init` counts 0 chunks for a file in the last 1023 bytes below 4 GiB
  (`Fits` in `EveryByteSent`); a list of 221 or more files is refused by `list`
  and ends the session (`NeverTruncated`).
* Of several lines that arrive together on a pipe all but the first wait in the
  buffer of stdin until more input arrives (`EveryLineHandled`); a file that
  cannot be read ends the session (`client.c:726`); the id of `get` is cut to 32
  bits (`client.c:765`).
* A clock that is set back makes every pending packet time out at once
  (`OnlyTimedOutSent` is about clocks that are not set; `TimeoutsPaced` limits
  the damage to one timeout).

**Bounds.** With a window of 2 and 4 chunks every slot is used for two packets
and all four sequence numbers can be in flight at once, so the confusions a
circular window can suffer are reachable. One and two retries cover the retry
limit from both sides. Two faults are enough to lose a packet and its
retransmission, or a packet and an ACK. In `sr_corrupt` one fault is enough to
put a wrong chunk, or the right one under a wrong number, into either slot of
the window; several are the theorem's. In `pt_safety` two gets of two files of
one name are the smallest instance in which packets of an earlier transfer meet
a later one, and in which an owner's file is overwritten by its own download.
Three clients and two slots cover a full table, a slot that changes hands, and a
bystander. The content of a file is only copied by the directory, which tells
files apart by their ids, so `fs_directory` has one; the proofs have any number. In `widths` the words are scaled down so that files, sums and clocks
cross every boundary; chunk size and word keep the divisibility of the real
ones. `MaxFaults`, `MaxGets`, `MaxShares`, `MaxLines`, `MaxSize`, `MaxTotal`,
`MaxTime`, `MaxAge` and `MaxSet` are the only bounds that are not in the code;
the proofs hold for all their values.

**Fairness.** `FairSpec` of `SelectiveRepeat` and of `PeerTransfer` assume that
a client that can go on does: its event loop turns (poll returns at least every
100 ms), an unacknowledged packet eventually is 500 ms old, and a blocking read
returns when a datagram has arrived. `FairSpec` of `FileSharing` assumes that
the server's loop turns and that a client blocked in `recv` gets what has
arrived, that of `CommandInput` that the event loop turns. Commands, crashes,
faults and shutdown are not fair.

**Deadlock** is not checked: a finished transfer, a stopped server and a set of
departed clients are legitimate ends.

## 4. What is proved

Every invariant and action property of `sr_safety`, `sr_corrupt`, `pt_safety`,
`fs_directory` and `widths` but one (`LoopsAgree`), and both refinements, are
theorems for all values of the constants. The assumptions on constants stand in
the modules that declare them, and TLC evaluates them in the runs.

### One transfer: SelectiveRepeatProofs

For every window size above 0, every retry limit, every file (the empty one
included), any number of losses, and any duplication and reordering
(`WindowAssumption`, `TransferAssumption`):

| Theorem | Statement |
|---|---|
| `Invariance` | `Spec => [](TypeOK /\ Inv)` |
| `TypeCorrect`, `PrefixIntact`, `AckedHeld`, `DoneDelivered`, `Overlap`, `SlotsFree`, `Counters` | the invariants of `sr_safety` |
| `Monotone`, `Selective` | the action properties of `sr_safety` |
| `Refinement` | `Spec => KeepsPromise` |
| `SpoiledIsPaidFor`, `MisledOnlyByDamage` | `DamageContained` and `OnlyDamageMisleads` when packets are damaged (`CorruptSpec`) |
| `IntactUnlessUnseen` | `CorruptSpec => [](unseen = 0 => DeliveredIntact)` |
| `AbortsArePaidFor` | `Spec => [](Timely => AbortNeedsLosses)` |

None of the properties is inductive alone. `Inv` says: the sender's occupied
slots are exactly those of `[base, next_seq)`, each holding its own packet, and
its head is unacknowledged; a slot the receiver has filled holds its own chunk,
from `[base, base + WINDOW_SIZE)`, and its head is empty; an ACK in flight is
for a chunk the receiver holds, a chunk it holds has been sent, and a DATA
packet carries the chunk it names; the counters are the cardinalities of these
sets. From "acknowledged is held, held is sent" follows that the bases never
drift apart, hence that a number in flight and the window that receives it
determine each other modulo `WINDOW_SIZE` (`IdxInjective`). In `SRWindowProofs`
one lemma per function (`SendWindowLemma`, `HandleAckLemma`,
`CheckTimeoutsLemma`, `HandleDataLemma`) shows what it preserves; `NextInv` puts
them together per action.

With damage, "an ACK in flight is for a chunk the receiver holds" fails, since
ACKs are not verified, and "a DATA packet carries the chunk it names" fails,
since the checksum misses some damage. `CorruptInv` is what remains: both windows
are in order by themselves, the receiver's for some file that need not be the
one that is sent; ACKs that are as they were sent are for chunks the receiver
holds; and the chunks that are wrong, together with those for which a wrong
packet that would be accepted is in flight, are at most as many as packets were
damaged unseen. The second half makes it inductive: accepting such a packet
spoils nothing that was not yet counted (`NoNewWrong`), and only unseen damage
adds one (`OneMoreWrong`).

`AbortsArePaidFor` rests on `LossInv`: while only losses make packets late, a
pending packet has at most as many retries as there have been losses, and fewer
if nothing of it is on the way. The second half is what makes it inductive: the
retry that follows has already been paid for.

### Many transfers: PeerTransferProofs

For any number of clients, files, `get` commands and faults of every kind, and
whatever the users do to their files (`PeerAssumption`: disks hold whole files,
and what is registered is the hash of some file, not necessarily of the one on
disk):

| Theorem | Statement |
|---|---|
| `Invariance` | `Spec => []IInv` |
| `TypeCorrect` | `Spec => []TypeOK` |
| `SendersStaySound` | `Spec => []SenderSound` |
| `SavesOnlyShared` | `Spec => SavedAsShared` |

`IInv` has, besides the types: a client has a location exactly while it is in
`get`, and a receiver exactly while it is in the loop of `get`; every datagram
in a queue is of a kind its addressee can read; an active transfer is one of a
whole file, its window satisfies `SenderOK` of `SRWindow`, and at poll it has a
packet to wait for. `SenderOK` speaks of the sender alone, and `HandleAckLemma`
preserves it for an ACK of any number: this is why stale and foreign ACKs cannot
bring `global_sender` out of order, although they can make it count chunks the
peer lacks. That there is a packet to wait for (`WindowInUse`) is re-established
by `sr_sender_send_window` in every iteration that does not end the transfer:
with nothing in flight and chunks left, every slot is free. `SavesOnlyShared`
uses of the receiver only that it is one; which packets it was filled from is
left to the hash.

### The directory: FileSharingProofs

For any number of clients, slots, file entries and shares, with crashes, split
messages and stale snapshots of poll (`ServerAssumption`, `ClientAssumption`; the
latter says that a client's table is at least as large as the server's, as the
two constants of the code are):

| Theorem | Statement |
|---|---|
| `Invariance` | `Spec => []IInv` |
| `TypeCorrect`, `Consistency`, `SlotsAreKept`, `FileIdsUnique`, `InStep`, `ListingsHold`, `LocationsHold` | the invariants of `fs_directory` |
| `Refinement` | `Spec => KeepsDirectory` |

The conjuncts of `IInv` need each other:

* `Wired`: a connection is in the backlog once or in one slot, and is its
  process's. Without it, a handler could write to the wrong client.
* `Asked`, `RepliesInStep`: a client that waits has at most its one request, or
  the rest of it, on the way, or one reply; one that has left has closed its end.
* `Activity`, `Open`: a slot is active from `TCP_REGISTER` on, a client that has
  been told so has one, and the server closes no connection it will write to.
  This is what makes `RegisteredKeepsSlot` hold although `accept_new_client`
  overwrites slots: only slots of clients that have not registered are lost.
* `Round`: what is left of a snapshot are different sockets with something to
  read, so that a stale entry of the snapshot cannot block the loop.
* `Fresh`, `Unclaimed`, `TablesConsistent`, `FileIdsNeverReused`: ids in use are
  below the counters, and an id on its way to its owner is nobody else's.
* `Served`, `LocationLeadsToOwner`: what a client serves the directory lists
  under its slot, and the other way round, the `TCP_SHARE_ACK` on its way
  counted in.

`FileSharingHandlers` and `FileSharingSteps` prove its preservation, one lemma
per handler or step and conjunct group. Their lemmas that count slots or files
take `Counting`, a few facts about finite cardinalities, as a hypothesis;
`CountingHolds` in `FileSharingProofs` discharges it from the library.

For the refinement every step is shown to be one of `Directory` or invisible
(`Unseen`). A step that keeps the slots in use keeps the entries of the catalog
(`EntriesKept`); a handler that answers tells its client something true of the
catalog at that moment, and by `RepliesInStep` the answer is all that its client
has to read; removing a client removes its member and exactly its entries,
because client ids are unique. That an answer is one to the question its client
waits on follows from `Asked`: what the server reads from a client that has not
left is the request it waits on. One that has left has no question (`Quiet`),
and the answer is lost. An error is deserved because the catalog has as many
entries as the file table (`CatalogSize`).

### The calculations: WidthsProofs

| Theorem | Statement | Argument |
|---|---|---|
| `ChunksTileTheFile`, `EveryByteIsSent` | `BytesSpec => []ChunksTile`, `[]EveryByteSent` | inductive: `filled` is the smaller of `next_seq * CHUNK_SIZE` and `file_size`; a word holds a whole number of chunks (`WidthAssumption`), so an end of chunk wraps only to 0 |
| `FoldIsExact`, `EverySingleByteSeen` | `SumSpec => []FoldExact`, `[]SingleByteSeen` | a folding step preserves the sum modulo `UINT16 - 1` and makes it smaller; two sums that differ by less than that modulus fold to different values |
| `Paced`, `NoneEarly` | `TimerSpec => []TimeoutsPaced`, `[]OnlyTimedOutSent` | the time since the last sending is the clock's difference unless the clock was set since, and each setting is charged one timeout |
| `ListsAreWhole` | `ListSpec => []NeverTruncated` | a length that has wrapped is not a multiple of the entry size: the size of an entry has no factor in common with 2^16 and the table has fewer than 2^16 entries (`ListAssumption`; TLC evaluates it at the sizes of the code) |

### Only model-checked

* Liveness (`ArrivesDespiteLoss`, `OwnerFreed`, `GetSaves`, `CommandAnswered`,
  `DepartedForgotten`, `EveryLineHandled`): out of the prover's reach.
* `LoopsAgree`: the loops are recursive definitions, and what those compute for
  every input needs induction over data, which the provers cannot do.
* `AckedByPeer`: beyond `IInv` it needs to know what every queue between two
  clients may hold in which order, for each phase of a transfer and of the one
  before it.

## 5. What is not modelled

* Start-up: sockets are opened and bound in straight-line code that exits on the
  first error.
* Malformed TCP and UDP messages: `client.c` sends none. Damage that changes the
  type or the length of a datagram.
* The lengths of chunks on their way into `file_buffer`. `FileBytes` shows that
  the chunks a sender cuts tile its own file; the `memcpy` at
  `selective_repeat.c:485` copies the length that came with the packet and does
  not compare it with `file_size`. A longer chunk of another transfer, left over
  from it, would be copied past the end of the buffer; in the models, where a
  chunk is one value, it is just a wrong chunk.
* The other structures of `protocol.h` in bytes: they have fixed sizes and are
  sent and checked as a whole.
* Lines longer than the buffer of `fgets`, a full disk while a download is
  written (`client.c:614` ignores what `fwrite` returns), paths.
* The pseudo-random generator of `lossy_udp.c`: its result is a choice.
* `hash_to_string`, `set_nonblocking`, `write_buffer_to_file`, statistics and
  debug output: nothing depends on them.

## 6. Plan

1. `AckedByPeer` for any number of transfers, from an invariant about the
   contents of the queues between two clients.
2. A safety property of `CommandInput` (every line is handled once and in order,
   for any number of lines) with its proof.
