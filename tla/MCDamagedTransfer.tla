------------------------- MODULE MCDamagedTransfer --------------------------
(* A file of different chunks, and a chunk that is in no file. *)
EXTENDS DamagedTransfer

MCFile == [i \in 0 .. NumChunks - 1 |-> i]
MCChunk == 0 .. NumChunks
=============================================================================
