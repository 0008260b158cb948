------------------------------ MODULE FileBytes -----------------------------
(***************************************************************************)
(* The bytes of a file behind the chunks of SelectiveRepeat: how the two   *)
(* ends derive the number of chunks from the size, which bytes of the file *)
(* a packet carries, and where the receiver puts them.  All arithmetic has *)
(* the width of the C types.                                               *)
(***************************************************************************)
EXTENDS Integers, Widths

CONSTANTS
  CHUNK_SIZE,  \* bytes of a full chunk (protocol.h)
  MaxSize      \* the largest file considered

\* A chunk length fits 16 bits, and a word holds a whole number of chunks.
ASSUME WidthAssumption ==
  /\ CHUNK_SIZE \in Nat \ {0}
  /\ CHUNK_SIZE < UINT16
  /\ UINT32 % CHUNK_SIZE = 0 /\ CHUNK_SIZE < UINT32
  /\ MaxSize \in 0 .. UINT32 - 1

VARIABLES
  file_size,  \* bytes of the file, any size share() accepts
  next_seq,   \* the chunk to be sent next
  filled      \* bytes of file_buffer written without a gap from its start

bytesVars == <<file_size, next_seq, filled>>

\* Mutant: the number of chunks is rounded down.
sender_num_chunks_down(size) == size \div CHUNK_SIZE

\* sr_sender_init adds in 32 bits, the event loop in a long before it
\* announces the number in UDP_FILE_START.
sender_num_chunks(size) == ((size + CHUNK_SIZE - 1) % UINT32) \div CHUNK_SIZE
start_num_chunks(size) == (size + CHUNK_SIZE - 1) \div CHUNK_SIZE

\* Where chunk n begins, for the sender and for the receiver.
chunk_offset(n) == (n * CHUNK_SIZE) % UINT32

\* Mutant: the last chunk is sent at full length.
chunk_len_full(size, n) == CHUNK_SIZE

chunk_len(size, n) ==
  IF (chunk_offset(n) + CHUNK_SIZE) % UINT32 > size
  THEN (size - chunk_offset(n)) % UINT16
  ELSE CHUNK_SIZE

BytesInit == file_size \in 0 .. MaxSize /\ next_seq = 0 /\ filled = 0

\* A chunk is sent and, in order, copied into file_buffer.
SendChunk ==
  /\ next_seq < sender_num_chunks(file_size)
  /\ filled' = IF chunk_offset(next_seq) = filled
               THEN filled + chunk_len(file_size, next_seq) ELSE filled
  /\ next_seq' = next_seq + 1
  /\ UNCHANGED file_size

BytesNext == SendChunk

BytesSpec == BytesInit /\ [][BytesNext]_bytesVars

-----------------------------------------------------------------------------
\* The chunks tile the file: each one continues where the last one ended, has
\* at least one byte, and is copied to bytes that malloc(file_size) provided.
ChunksTile ==
  next_seq < sender_num_chunks(file_size) =>
    /\ chunk_offset(next_seq) = filled
    /\ chunk_len(file_size, next_seq) \in 1 .. CHUNK_SIZE
    /\ filled + chunk_len(file_size, next_seq) <= file_size

\* The addition in sr_sender_init stays within 32 bits: all files but those in
\* the last CHUNK_SIZE - 1 bytes below 4 GiB.
Fits(size) == size + CHUNK_SIZE - 1 < UINT32

\* When the sender has sent its last chunk the receiver has every byte, and
\* waits for no further chunk: the two ends count the same chunks, although
\* one of them adds in 32 bits and the other in a long.
EveryByteSent ==
  Fits(file_size) /\ next_seq >= sender_num_chunks(file_size) =>
    filled = file_size /\ next_seq = start_num_chunks(file_size)
=============================================================================
