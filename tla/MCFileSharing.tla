---------------------------- MODULE MCFileSharing ---------------------------
(* FileSharing for TLC: the processes and the contents are interchangeable. *)
EXTENDS FileSharing, TLC

MCSymmetry == Permutations(Client) \cup Permutations(Hash)
=============================================================================
