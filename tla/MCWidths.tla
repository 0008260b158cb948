------------------------------ MODULE MCWidths ------------------------------
(***************************************************************************)
(* The calculations of the program for TLC, at the widths of the C types.  *)
(* They have nothing to do with each other: a behaviour is one of them,    *)
(* and the others rest.                                                    *)
(***************************************************************************)
EXTENDS FileBytes, Checksum, FileList, RetransmitTimer

VARIABLE part   \* the calculation of this behaviour

vars == <<part, bytesVars, sumVars, listVars, timerVars>>

Init ==
  /\ part \in {"bytes", "sum", "list", "timer"}
  /\ BytesInit /\ SumInit /\ ListInit /\ TimerInit
  /\ part # "bytes" => file_size = 0
  /\ part # "timer" => clock = 0

Next ==
  /\ \/ part = "bytes" /\ BytesNext /\ UNCHANGED <<sumVars, listVars, timerVars>>
     \/ part = "sum" /\ SumNext /\ UNCHANGED <<bytesVars, listVars, timerVars>>
     \/ part = "list" /\ ListNext /\ UNCHANGED <<bytesVars, sumVars, timerVars>>
     \/ part = "timer" /\ TimerNext /\ UNCHANGED <<bytesVars, sumVars, listVars>>
  /\ UNCHANGED part

Spec == Init /\ [][Next]_vars
=============================================================================
