------------------------------ MODULE FileList ------------------------------
(***************************************************************************)
(* The TCP_FILE_LIST message in bytes: the server announces the length of  *)
(* the list in 16 bits, however long it is, and list() takes from the      *)
(* stream what was announced.  In FileSharing the list is one message.     *)
(***************************************************************************)
EXTENDS Integers

CONSTANTS
  MAX_FILES,   \* entries of the server's table
  FILE_INFO,   \* sizeof(file_info_t), which is packed
  DATA_LEN     \* number of values of data_len: 2^16

ASSUME ListAssumption ==
  /\ MAX_FILES \in Nat
  /\ FILE_INFO \in Nat \ {0}
  /\ DATA_LEN \in Nat \ {0}
  /\ MAX_FILES < DATA_LEN
  /\ \A q \in 1 .. FILE_INFO - 1 : (q * DATA_LEN) % FILE_INFO # 0

VARIABLES
  num_files,  \* of the server, when it wrote the reply
  data_len,   \* of the header the client is about to read
  stream,     \* bytes on the connection behind that header
  shown,      \* files list() has printed
  pc          \* the client: "ready", "waiting", or "gone" after an error

listVars == <<num_files, data_len, stream, shown, pc>>

ListInit == num_files = 0 /\ data_len = 0 /\ stream = 0 /\ shown = 0 /\ pc = "ready"

\* Header and body of the reply to the next TCP_LIST_FILES; any number of files
\* may have been shared and removed since the last.
handle_list_files ==
  /\ pc = "ready"
  /\ num_files' \in 0 .. MAX_FILES
  /\ data_len' = (num_files' * FILE_INFO) % DATA_LEN
  /\ stream' = stream + num_files' * FILE_INFO
  /\ shown' = 0
  /\ pc' = "waiting"

\* Mutant: the length is not checked.
WholeEntries_unchecked(body_len) == TRUE

WholeEntries(body_len) == body_len % FILE_INFO = 0

\* An empty list, one of whole entries, and one that is refused, after which
\* handle_command ends the session.
list ==
  /\ pc = "waiting"
  /\ \/ /\ WholeEntries(data_len)
        /\ stream' = stream - data_len
        /\ shown' = data_len \div FILE_INFO
        /\ pc' = "ready"
     \/ /\ ~ WholeEntries(data_len)
        /\ pc' = "gone"
        /\ UNCHANGED <<stream, shown>>
  /\ UNCHANGED <<num_files, data_len>>

ListNext == handle_list_files \/ list

ListSpec == ListInit /\ [][ListNext]_listVars

-----------------------------------------------------------------------------
\* A list that is printed is complete, and the stream behind it is at the next
\* message.  The wrapped length of a list beyond 65535 bytes is never by chance
\* a number of whole entries: 297 has no factor in common with 2^16.  Only such
\* a list, of 221 files or more, costs the client that asks for it its session.
NeverTruncated ==
  /\ pc = "ready" => shown = num_files /\ stream = 0
  /\ pc = "gone" => num_files * FILE_INFO >= DATA_LEN
=============================================================================
