----------------------------- MODULE FileSharing ----------------------------
(***************************************************************************)
(* The directory server and its clients: the TCP half of client.c.  A      *)
(* client registers, then runs commands; each sends one request and blocks *)
(* until the reply has been read.  Any error reply or a closed connection  *)
(* ends the session.  The transfer that follows a TCP_FILE_LOCATION is     *)
(* module SelectiveRepeat's.                                               *)
(***************************************************************************)
EXTENDS DirectoryServer

CONSTANTS
  MAX_SHARED_FILES,   \* entries of a client's own table of shared files
  MaxShares           \* bound on the files ever entered into the directory

ASSUME ClientAssumption ==
  /\ MAX_SHARED_FILES \in Nat
  /\ MAX_FILES <= MAX_SHARED_FILES
  /\ MaxShares \in Nat

VARIABLES
  pc,        \* where each client is
  request,   \* the request each client waits for the reply to
  table      \* share_file_logic.c: the files each client serves

clientVars == <<pc, request, table>>
vars == <<serverVars, clientVars>>

NoRequest == [type |-> "none"]

Init ==
  /\ ServerInit
  /\ pc = [c \in Client |-> "start"]
  /\ request = [c \in Client |-> NoRequest]
  /\ table = [c \in Client |-> {}]

-----------------------------------------------------------------------------
(* A client *)

\* connect() succeeds as soon as the server's kernel has queued the connection,
\* and is refused when there is no server.
Connect(c) ==
  /\ pc[c] = "start"
  /\ \/ /\ running
        /\ backlog' = Append(backlog, c)
        /\ pc' = [pc EXCEPT ![c] = "connected"]
     \/ /\ ~ running
        /\ pc' = [pc EXCEPT ![c] = "gone"]
        /\ UNCHANGED backlog
  /\ UNCHANGED <<tables, todo, running, to_server, to_client, request, table>>

\* Write m to the server and wait for the reply.
Ask(c, m) ==
  /\ to_server' = [to_server EXCEPT ![c] = Append(@, m)]
  /\ request' = [request EXCEPT ![c] = m]
  /\ pc' = [pc EXCEPT ![c] = "waiting"]
  /\ UNCHANGED <<tables, todo, running, backlog, to_client, table>>

Register(c) ==
  /\ pc[c] = "connected"
  /\ Ask(c, [type |-> "TCP_REGISTER", udp_port |-> c])

share(c) ==
  /\ pc[c] = "ready"
  /\ next_file_id <= MaxShares
  /\ \E h \in Hash : Ask(c, [type |-> "TCP_SHARE_FILE", hash |-> h])

list(c) ==
  /\ pc[c] = "ready"
  /\ Ask(c, [type |-> "TCP_LIST_FILES"])

\* The user may ask for any number.
get(c) ==
  /\ pc[c] = "ready"
  /\ \E id \in 1 .. MaxShares : Ask(c, [type |-> "TCP_REQUEST_FILE", file_id |-> id])

\* The client closes its socket after sending the messages of last.
Leave(c, last) ==
  /\ to_server' = [to_server EXCEPT ![c] = @ \o last \o <<EOF>>]
  /\ to_client' = [to_client EXCEPT ![c] = <<>>]
  /\ pc' = [pc EXCEPT ![c] = "gone"]
  /\ request' = [request EXCEPT ![c] = NoRequest]
  /\ UNCHANGED <<tables, todo, running, backlog, table>>

unregister == <<[type |-> "TCP_UNREGISTER"]>>

\* A file that cannot be read or is too large: handle_command takes the failure
\* for one of the connection and ends the session.
share_unreadable(c) ==
  /\ pc[c] = "ready"
  /\ Leave(c, unregister)

quit(c) ==
  /\ pc[c] = "ready"
  /\ Leave(c, unregister)

\* The process dies.  A reset connection loses what the server has not read.
Crash(c) ==
  /\ pc[c] \in {"connected", "waiting", "ready"}
  /\ \/ Leave(c, <<>>)
     \/ /\ to_server' = [to_server EXCEPT ![c] = <<EOF>>]
        /\ to_client' = [to_client EXCEPT ![c] = <<>>]
        /\ pc' = [pc EXCEPT ![c] = "gone"]
        /\ request' = [request EXCEPT ![c] = NoRequest]
        /\ UNCHANGED <<tables, todo, running, backlog, table>>

-----------------------------------------------------------------------------
(* The reply *)

\* The replies that main, share, list and get accept.
RegisterReply(c, m) ==
  request[c].type = "TCP_REGISTER" /\ m.type = "TCP_REGISTER_ACK"

ShareReply(c, m) ==
  request[c].type = "TCP_SHARE_FILE" /\ m.type = "TCP_SHARE_ACK"

ListReply(c, m) ==
  request[c].type = "TCP_LIST_FILES" /\ m.type = "TCP_FILE_LIST"

LocationReply(c, m) ==
  /\ request[c].type = "TCP_REQUEST_FILE"
  /\ m.type = "TCP_FILE_LOCATION"
  /\ m.file_id = request[c].file_id

Expected(c, m) ==
  \/ RegisterReply(c, m) \/ ShareReply(c, m)
  \/ ListReply(c, m) \/ LocationReply(c, m)

\* Mutant: the last entry of the table is never used.
add_shared_file_short(c, id, h) ==
  table' = IF Cardinality(table[c]) >= MAX_SHARED_FILES - 1 THEN table
           ELSE [table EXCEPT ![c] = @ \cup {[file_id |-> id, hash |-> h]}]

\* A full table forgets the file without telling the caller.
add_shared_file(c, id, h) ==
  table' = IF Cardinality(table[c]) >= MAX_SHARED_FILES THEN table
           ELSE [table EXCEPT ![c] = @ \cup {[file_id |-> id, hash |-> h]}]

GoodReply(c) ==
  /\ pc[c] = "waiting"
  /\ to_client[c] # <<>>
  /\ LET m == Head(to_client[c])
     IN  /\ Expected(c, m)
         /\ IF ShareReply(c, m)
            THEN add_shared_file(c, m.file_id, request[c].hash)
            ELSE UNCHANGED table
  /\ to_client' = [to_client EXCEPT ![c] = Tail(@)]
  /\ pc' = [pc EXCEPT ![c] = "ready"]
  /\ request' = [request EXCEPT ![c] = NoRequest]
  /\ UNCHANGED <<tables, todo, running, backlog, to_server>>

\* TCP_ERROR, a closed connection or a reply of another kind: handle_command
\* unregisters and ends the session; main just closes the socket.
BadReply(c) ==
  /\ pc[c] = "waiting"
  /\ to_client[c] # <<>>
  /\ ~ Expected(c, Head(to_client[c]))
  /\ Leave(c, IF request[c].type = "TCP_REGISTER" THEN <<>> ELSE unregister)

ClientStep(c) ==
  \/ Connect(c) \/ Register(c)
  \/ share(c) \/ share_unreadable(c) \/ list(c) \/ get(c) \/ quit(c) \/ Crash(c)
  \/ GoodReply(c) \/ BadReply(c)

Next ==
  \/ Poll /\ UNCHANGED clientVars
  \/ Serve /\ UNCHANGED clientVars
  \/ Shutdown /\ UNCHANGED clientVars
  \/ \E c \in Client : ClientStep(c)

Spec == Init /\ [][Next]_vars

\* The server's loop turns; a client blocked in recv gets what has arrived.
FairSpec ==
  /\ Spec
  /\ WF_vars(Poll /\ UNCHANGED clientVars)
  /\ WF_vars(Serve /\ UNCHANGED clientVars)
  /\ \A c \in Client : WF_vars(GoodReply(c) \/ BadReply(c))

-----------------------------------------------------------------------------
(* Properties *)

FileEntry == [file_id : Nat, hash : Hash, owner_id : Nat]

Request ==
  [type : {"TCP_REGISTER"}, udp_port : Client]
    \cup [type : {"TCP_SHARE_FILE"}, hash : Hash]
    \cup [type : {"TCP_REQUEST_FILE"}, file_id : Nat]
    \cup [type : {"TCP_LIST_FILES", "TCP_UNREGISTER", "rest"}]

Reply ==
  [type : {"TCP_REGISTER_ACK"}, client_id : Nat]
    \cup [type : {"TCP_SHARE_ACK"}, file_id : Nat]
    \cup [type : {"TCP_FILE_LIST"}, infos : SUBSET FileEntry]
    \cup [type : {"TCP_FILE_LOCATION"}, file_id : Nat, hash : Hash,
          peer_ip : Client, peer_port : Client]
    \cup [type : {"TCP_ERROR"}, error_code : {"ERR_INVALID_MSG", "ERR_FILE_NOT_FOUND"}]

\* Type invariant.  No reply carries ERR_NO_PEERS: the branch of
\* handle_request_file for a file without owner is never taken.
TypeOK ==
  /\ clients \in [ClientSlot -> [fd : Client \cup {NoFd}, client_id : Nat,
                                 addr : Client \cup {NoFd},
                                 udp_port : Client \cup {NoFd}, active : BOOLEAN]]
  /\ num_clients \in 0 .. MAX_CLIENTS
  /\ next_client_id \in Nat /\ next_file_id \in Nat
  /\ files \subseteq FileEntry /\ Cardinality(files) <= MAX_FILES
  /\ todo \in [DOMAIN todo -> Client] /\ DOMAIN todo \subseteq ClientSlot
  /\ backlog \in Seq(Client)
  /\ running \in BOOLEAN
  /\ to_server \in [Client -> Seq(Request \cup {EOF})]
  /\ to_client \in [Client -> Seq(Reply \cup {EOF})]
  /\ pc \in [Client -> {"start", "connected", "waiting", "ready", "gone"}]
  /\ request \in [Client -> Request \cup {NoRequest}]
  /\ table \in [Client -> SUBSET [file_id : Nat, hash : Hash]]

\* The session of a client that has read its TCP_REGISTER_ACK.
Registered(c) ==
  \/ pc[c] = "ready"
  \/ pc[c] = "waiting" /\ request[c].type # "TCP_REGISTER"

\* The two tables of the server agree: client ids and file ids are unique, a
\* connection has one slot, num_clients counts the registered slots, and every
\* file belongs to a registered client.
TablesConsistent ==
  /\ \A i, j \in ClientSlot :
       i # j => /\ clients[i].fd # NoFd => clients[i].fd # clients[j].fd
                /\ clients[i].active /\ clients[j].active
                     => clients[i].client_id # clients[j].client_id
  /\ num_clients = Cardinality({i \in ClientSlot : clients[i].active})
  /\ \A f, g \in files : f.file_id = g.file_id => f = g
  /\ \A f \in files :
       \E i \in ClientSlot : clients[i].active /\ clients[i].client_id = f.owner_id

\* A client that has been told it is registered keeps its slot until it
\* leaves, whoever else connects, registers or crashes meanwhile.
RegisteredKeepsSlot ==
  running => \A c \in Client : Registered(c) =>
               \E i \in ClientSlot : clients[i].active /\ clients[i].fd = c

\* What the directory lists can be had: while the owner of a listed file is in
\* its event loop its own table has that file under that id, so a peer's
\* UDP_REQUEST_FILE is not refused.  MAX_FILES <= MAX_SHARED_FILES matters.
ListedIsServed ==
  \A f \in files, i \in ClientSlot :
    clients[i].active /\ clients[i].client_id = f.owner_id
      /\ pc[clients[i].fd] = "ready"
    => [file_id |-> f.file_id, hash |-> f.hash] \in table[clients[i].fd]

\* A file id never names two things, not even after its owner has left and
\* the entry is gone: what a client remembers as its file is no other's.
FileIdsNeverReused ==
  \A c, d \in Client : \A e \in table[c], g \in table[d] :
    e.file_id = g.file_id => c = d /\ e = g

\* Client p shares the file, or will as soon as it reads its TCP_SHARE_ACK.
Serves(p, id, h) ==
  \/ [file_id |-> id, hash |-> h] \in table[p]
  \/ /\ pc[p] = "waiting"
     /\ request[p] = [type |-> "TCP_SHARE_FILE", hash |-> h]
     /\ [type |-> "TCP_SHARE_ACK", file_id |-> id] \in Range(to_client[p])

\* A TCP_FILE_LOCATION on its way leads to the process that shared that file,
\* unless that process has left since the reply was written.
LocationLeadsToOwner ==
  \A c \in Client : \A m \in Range(to_client[c]) :
    m.type = "TCP_FILE_LOCATION" =>
      /\ m.peer_ip = m.peer_port
      /\ pc[m.peer_port] = "gone" \/ Serves(m.peer_port, m.file_id, m.hash)

\* Requests and replies stay in step: a reply is to the request its client is
\* waiting on, it is the first thing that client will read, and the server has
\* nothing more to read from it.
RepliesInStep ==
  \A c \in Client : \A k \in DOMAIN to_client[c] :
    LET m == to_client[c][k]
    IN  m # EOF => /\ k = 1
                   /\ pc[c] = "waiting"
                   /\ to_server[c] = <<>>
                   /\ m.type = "TCP_ERROR" \/ Expected(c, m)

\* Every command of a registered client is answered.
CommandAnswered ==
  \A c \in Client :
    pc[c] = "waiting" /\ request[c].type # "TCP_REGISTER" ~> pc[c] # "waiting"

\* The files of a client that has left, by quit or by crash, leave the
\* directory, as long as the server runs.
DepartedForgotten ==
  \A c \in Client :
    pc[c] = "gone" ~> ~ running \/ \A f \in files :
                        [file_id |-> f.file_id, hash |-> f.hash] \notin table[c]

\* Every client that connects and registers is answered or turned away.
RegistrationAnswered ==
  \A c \in Client :
    pc[c] = "waiting" /\ request[c].type = "TCP_REGISTER" ~> pc[c] # "waiting"

-----------------------------------------------------------------------------
(* The abstract directory *)

Member == {clients[i].fd : i \in {j \in ClientSlot : clients[j].active}}

\* The process behind a client id.
Process(id) ==
  clients[CHOOSE i \in ClientSlot : clients[i].active /\ clients[i].client_id = id].fd

Catalog ==
  {[file_id |-> f.file_id, hash |-> f.hash, owner |-> Process(f.owner_id)] : f \in files}

\* What a message says to its reader.
Meaning(m) ==
  CASE m.type = "TCP_SHARE_ACK" -> m
    [] m.type = "TCP_FILE_LIST" ->
         [type  |-> m.type,
          infos |-> {[file_id |-> f.file_id, hash |-> f.hash] : f \in m.infos}]
    [] m.type = "TCP_FILE_LOCATION" ->
         [type  |-> m.type,
          entry |-> [file_id |-> m.file_id, hash |-> m.hash, owner |-> m.peer_port]]
    [] OTHER -> [type |-> m.type]

Unread(c) ==
  IF to_client[c] # <<>> /\ Head(to_client[c]) # EOF THEN Meaning(Head(to_client[c]))
  ELSE NoFd

Abstract ==
  INSTANCE Directory WITH
    member <- Member, catalog <- Catalog, issued <- next_file_id - 1,
    asked <- request, reply <- [c \in Client |-> Unread(c)],
    FileId <- 1 .. MaxShares, None <- NoFd, NoQuestion <- NoRequest

\* The server keeps the promises of Directory, with connections, a poll loop
\* that looks at stale snapshots, crashes and split messages in between: an
\* answer is to the question its client waits on, and no error is undeserved.
KeepsDirectory == Abstract!Spec
=============================================================================
