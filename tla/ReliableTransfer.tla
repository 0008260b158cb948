-------------------------- MODULE ReliableTransfer --------------------------
(***************************************************************************)
(* What a file transfer promises, without windows, packets or timers: the  *)
(* requester's copy of the file grows from the front, and the owner learns *)
(* of success only when the copy is whole.  The owner may give up at any   *)
(* time, even when the copy is whole; the requester is not told.           *)
(***************************************************************************)
EXTENDS Integers

CONSTANTS
  NumChunks,   \* chunks of the file
  FileData     \* the file: chunk number -> content

VARIABLES
  copy,      \* the chunks the requester has, a prefix of the file
  outcome    \* the transfer as the owner sees it

vars == <<copy, outcome>>

Prefix(n) == [i \in 0 .. n - 1 |-> FileData[i]]

Init ==
  /\ copy = Prefix(0)
  /\ outcome = "active"

\* Further chunks reach the requester, in order.
Deliver ==
  /\ \E m, n \in 0 .. NumChunks : /\ m < n
                                  /\ copy = Prefix(m)
                                  /\ copy' = Prefix(n)
  /\ UNCHANGED outcome

\* The owner learns that the requester has everything.
Finish ==
  /\ outcome = "active"
  /\ copy = Prefix(NumChunks)
  /\ outcome' = "done"
  /\ UNCHANGED copy

\* The owner gives up.
GiveUp ==
  /\ outcome = "active"
  /\ outcome' = "aborted"
  /\ UNCHANGED copy

Next == Deliver \/ Finish \/ GiveUp

Spec == Init /\ [][Next]_vars
=============================================================================
