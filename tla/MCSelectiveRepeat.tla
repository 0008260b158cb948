------------------------- MODULE MCSelectiveRepeat --------------------------
EXTENDS SelectiveRepeat

MCFile == [i \in 0 .. NumChunks - 1 |-> i]
MCChunk == 0 .. NumChunks
=============================================================================
