---------------------------- MODULE CommandInput ----------------------------
(***************************************************************************)
(* How a client's commands get from standard input to handle_command, and  *)
(* what handle_command makes of a line.                                    *)
(*                                                                         *)
(* The event loop polls the descriptor and then calls fgets once.  fgets   *)
(* takes a line out of the buffer of stdin, and fills the buffer from the  *)
(* descriptor only when it holds no line; poll does not see the buffer.  A *)
(* terminal gives a read one line, a pipe all there is.                    *)
(***************************************************************************)
EXTENDS Integers, Sequences, SequencesExt

CONSTANTS
  FileId,     \* numbers a user may type after get
  UINT32,     \* number of values of uint32_t
  MaxLines    \* bound on the lines typed

ASSUME InputAssumption ==
  /\ FileId \subseteq Nat
  /\ UINT32 \in Nat \ {0}
  /\ MaxLines \in Nat

\* A line: its first word, whether an argument follows, and for get its value
\* (-1 when it is not a number); for share whether the file can be read.
Line ==
  [cmd : {"share"}, n : {2}, readable : BOOLEAN]
    \cup [cmd : {"get"}, n : {2}, val : FileId \cup {-1}]
    \cup [cmd : {"list", "quit"}, n : {1, 2}]
    \cup [cmd : {"share", "get"}, n : {1}]
    \cup [cmd : {"", "other"}, n : {1}]

VARIABLES
  terminal,  \* stdin is a terminal, not a pipe
  typed,     \* all lines typed so far
  pending,   \* those the descriptor has not given out
  stdin,     \* those in the buffer of stdin
  handled,   \* those handle_command has been given
  sent,      \* what the last of them has sent to the server
  running

vars == <<terminal, typed, pending, stdin, handled, sent, running>>

Init ==
  /\ terminal \in BOOLEAN
  /\ typed = <<>> /\ pending = <<>> /\ stdin = <<>> /\ handled = <<>>
  /\ sent = <<>> /\ running = TRUE

\* The user types, or another program writes, a line.
Type ==
  /\ Len(typed) < MaxLines
  /\ \E line \in Line : /\ typed' = Append(typed, line)
                        /\ pending' = Append(pending, line)
  /\ UNCHANGED <<terminal, stdin, handled, sent, running>>

-----------------------------------------------------------------------------
(* handle_command *)

unregister == [type |-> "TCP_UNREGISTER"]

\* Opening, measuring and reading the file may each fail.
read_file_to_buffer(line) == IF line.readable THEN 0 ELSE -1

\* The request of share, list or get; ok is what the function then returns.
\* After a failure the client unregisters.
Asks(m, ok) ==
  /\ sent' = IF ok THEN <<m>> ELSE <<m, unregister>>
  /\ running' = ok

\* Usage errors, an invalid id, an unknown command and an empty line.
Refused(line) ==
  \/ line.cmd \in {"share", "get"} /\ line.n = 1
  \/ line.cmd \in {"list", "quit"} /\ line.n = 2
  \/ line.cmd = "get" /\ line.n = 2 /\ line.val = -1
  \/ line.cmd \in {"", "other"}

handle_command(line) ==
  \/ Refused(line) /\ sent' = <<>> /\ UNCHANGED running
  \/ /\ ~ Refused(line)
     /\ \/ line.cmd = "share" /\ line.readable
             /\ \E ok \in BOOLEAN : Asks([type |-> "TCP_SHARE_FILE"], ok)
        \/ line.cmd = "share" /\ read_file_to_buffer(line) # 0
             /\ sent' = <<unregister>> /\ running' = FALSE
        \/ line.cmd = "list"
             /\ \E ok \in BOOLEAN : Asks([type |-> "TCP_LIST_FILES"], ok)
        \/ line.cmd = "get"
             /\ \E ok \in BOOLEAN :
                  Asks([type |-> "TCP_REQUEST_FILE", file_id |-> line.val % UINT32], ok)
        \/ line.cmd = "quit" /\ sent' = <<unregister>> /\ running' = FALSE

-----------------------------------------------------------------------------
(* The event loop *)

\* The lines a read of the descriptor returns.
Available == IF terminal THEN 1 ELSE Len(pending)

fgets ==
  \/ /\ stdin # <<>>
     /\ handled' = Append(handled, Head(stdin))
     /\ stdin' = Tail(stdin)
     /\ UNCHANGED pending
  \/ /\ stdin = <<>>
     /\ handled' = Append(handled, Head(pending))
     /\ stdin' = SubSeq(pending, 2, Available)
     /\ pending' = SubSeq(pending, Available + 1, Len(pending))

\* Mutant: a refused line throws away what was typed behind it.
PollStdin_discards ==
  /\ running
  /\ pending # <<>>
  /\ handled' = Append(handled, Head(stdin \o pending))
  /\ stdin' = IF Refused(Last(handled')) THEN <<>> ELSE Tail(stdin \o pending)
  /\ pending' = <<>>
  /\ handle_command(Last(handled'))
  /\ UNCHANGED <<terminal, typed>>

\* POLLIN on stdin.  At the end of input fgets returns NULL and the loop goes on.
PollStdin ==
  /\ running
  /\ pending # <<>>
  /\ fgets
  /\ handle_command(Last(handled'))
  /\ UNCHANGED <<terminal, typed>>

Next == Type \/ PollStdin

Spec == Init /\ [][Next]_vars

\* The event loop turns.
FairSpec == Spec /\ WF_vars(PollStdin)

-----------------------------------------------------------------------------
\* Lines are handled once and in the order in which they were typed, on their
\* way through two buffers: the k-th typed is the k-th handled, unless an
\* earlier one has ended the session or it came through a pipe together with
\* others and waits in the buffer of stdin, where poll does not look.
EveryLineHandled ==
  \A k \in 1 .. MaxLines :
    Len(typed) >= k ~> \/ Len(handled) >= k /\ handled[k] = typed[k]
                       \/ ~ running
                       \/ ~ terminal /\ stdin # <<>>
=============================================================================
