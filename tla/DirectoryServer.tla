--------------------------- MODULE DirectoryServer --------------------------
(***************************************************************************)
(* The directory server of server.c: its two tables, its handlers and its  *)
(* poll loop, and the TCP connections it serves.                           *)
(*                                                                         *)
(* A connection (the server's fd) is named by the client process that      *)
(* opened it.  A recv delivers one message or, where TCP may split, a part *)
(* of one: client.c sends a request only when the previous one has been    *)
(* answered, so two never share a buffer.                                  *)
(* The clients' ends of the connections are module FileSharing's.          *)
(***************************************************************************)
EXTENDS Integers, FiniteSets, Sequences, Functions

CONSTANTS
  Client,        \* client processes, each with one connection
  NoFd,          \* the fd of a slot without connection (0 or -1)
  Hash,          \* contents of files, as told apart by SHA-256
  MAX_CLIENTS,   \* slots of the client table
  MAX_FILES,     \* entries of the file table
  MaySplit       \* TCP may deliver a message in two parts

ASSUME ServerAssumption ==
  /\ NoFd \notin Client
  /\ MAX_CLIENTS \in Nat
  /\ MAX_FILES \in Nat
  /\ MaySplit \in BOOLEAN

VARIABLES
  clients,         \* the client table: slot -> client_t
  num_clients,
  next_client_id,
  files,           \* the entries of the file table; their order is immaterial
  next_file_id,
  todo,            \* slot -> fd: what this round of the poll loop has yet to look at
  running,         \* FALSE once the server has left its loop
  backlog,         \* connections waiting for accept
  to_server,       \* what the server can read from each connection
  to_client        \* what each client can read from its connection

tables == <<clients, num_clients, next_client_id, files, next_file_id>>
serverVars == <<tables, todo, running, backlog, to_server, to_client>>

ClientSlot == 1 .. MAX_CLIENTS

\* The end of a stream, read again and again once reached.
EOF == [type |-> "EOF"]

\* What is left of a message after its first part has been read.
Rest == [type |-> "rest"]

ServerInit ==
  /\ clients = [i \in ClientSlot |-> [fd |-> NoFd, client_id |-> 0, addr |-> NoFd,
                                      udp_port |-> NoFd, active |-> FALSE]]
  /\ num_clients = 0
  /\ next_client_id = 1
  /\ files = {}
  /\ next_file_id = 1
  /\ todo = [i \in {} |-> NoFd]
  /\ running = TRUE
  /\ backlog = <<>>
  /\ to_server = [c \in Client |-> <<>>]
  /\ to_client = [c \in Client |-> <<>>]

-----------------------------------------------------------------------------
(* Lookups: the first slot that matches, as a set of at most one slot *)

FirstSlot(S) == {i \in S : \A j \in S : i <= j}

find_client(id) ==
  FirstSlot({i \in ClientSlot : clients[i].active /\ clients[i].client_id = id})

find_client_by_fd(fd) ==
  FirstSlot({i \in ClientSlot : clients[i].fd = fd /\ fd # NoFd})

find_file(id) == {f \in files : f.file_id = id}

-----------------------------------------------------------------------------
(* Handlers.  i is the slot of the client the message came from.           *)

\* A message to a peer that has closed its end is lost.
PeerClosed(c) == EOF \in Range(to_server[c])

send_response(i, m) ==
  LET fd == clients[i].fd
  IN  to_client' = IF PeerClosed(fd) THEN to_client
                   ELSE [to_client EXCEPT ![fd] = Append(@, m)]

tcp_error(code) == [type |-> "TCP_ERROR", error_code |-> code]

handle_register(i, m) ==
  /\ clients' = [clients EXCEPT ![i].udp_port  = m.udp_port,
                                ![i].client_id = next_client_id,
                                ![i].active    = TRUE]
  /\ next_client_id' = next_client_id + 1
  /\ num_clients' = num_clients + 1
  /\ send_response(i, [type |-> "TCP_REGISTER_ACK", client_id |-> next_client_id])
  /\ UNCHANGED <<files, next_file_id>>

\* Mutant: ids are taken from the size of the table.
new_file_entry_by_count(i, m) ==
  [file_id  |-> Cardinality(files) + 1,
   hash     |-> m.hash,
   owner_id |-> clients[i].client_id]

new_file_entry(i, m) ==
  [file_id  |-> next_file_id,
   hash     |-> m.hash,
   owner_id |-> clients[i].client_id]

\* Mutants: one file too many; one too few.
FileTableFull_late == Cardinality(files) > MAX_FILES
FileTableFull_early == Cardinality(files) >= MAX_FILES - 1

FileTableFull == Cardinality(files) >= MAX_FILES

handle_share_file(i, m) ==
  \/ /\ FileTableFull
     /\ send_response(i, tcp_error("ERR_INVALID_MSG"))
     /\ UNCHANGED tables
  \/ /\ ~ FileTableFull
     /\ files' = files \cup {new_file_entry(i, m)}
     /\ next_file_id' = next_file_id + 1
     /\ send_response(i, [type    |-> "TCP_SHARE_ACK",
                          file_id |-> new_file_entry(i, m).file_id])
     /\ UNCHANGED <<clients, num_clients, next_client_id>>

\* Mutants: header and body are two messages; an empty list is not sent.
handle_list_files_split(i) ==
  /\ to_client' = [to_client EXCEPT ![clients[i].fd] =
                     @ \o <<[type |-> "TCP_FILE_LIST", infos |-> {}],
                           [type |-> "TCP_FILE_LIST", infos |-> files]>>]
  /\ UNCHANGED tables

handle_list_files_silent(i) ==
  /\ IF files = {} THEN UNCHANGED to_client
     ELSE send_response(i, [type |-> "TCP_FILE_LIST", infos |-> files])
  /\ UNCHANGED tables

handle_list_files(i) ==
  /\ send_response(i, [type |-> "TCP_FILE_LIST", infos |-> files])
  /\ UNCHANGED tables

\* Mutant: the location carries the address of the client that asks.
file_location_asker(i, f, owner) ==
  [type      |-> "TCP_FILE_LOCATION", file_id |-> f.file_id, hash |-> f.hash,
   peer_ip   |-> clients[i].addr,
   peer_port |-> clients[i].udp_port]

file_location(i, f, owner) ==
  [type      |-> "TCP_FILE_LOCATION", file_id |-> f.file_id, hash |-> f.hash,
   peer_ip   |-> clients[owner].addr,
   peer_port |-> clients[owner].udp_port]

request_reply(i, id) ==
  IF find_file(id) = {}
  THEN tcp_error("ERR_FILE_NOT_FOUND")
  ELSE LET f     == CHOOSE f \in find_file(id) : TRUE
           owner == find_client(f.owner_id)
       IN  IF owner = {}
           THEN tcp_error("ERR_NO_PEERS")
           ELSE file_location(i, f, CHOOSE o \in owner : TRUE)

handle_request_file(i, m) ==
  /\ send_response(i, request_reply(i, m.file_id))
  /\ UNCHANGED tables

\* Mutant: after a removal the entry that moved into its place is skipped.
FilesLeft_skips(i) ==
  {f \in files : \/ f.owner_id # clients[i].client_id
                 \/ \E g \in files : /\ g.owner_id = clients[i].client_id
                                     /\ g.file_id = f.file_id - 1}

FilesLeft(i) == {f \in files : f.owner_id # clients[i].client_id}

\* Nothing happens for a client that never registered: its socket stays open
\* and its slot keeps the fd.
remove_client(i) ==
  \/ /\ ~ clients[i].active
     /\ UNCHANGED <<tables, to_client>>
  \/ /\ clients[i].active
     /\ files' = FilesLeft(i)
     /\ send_response(i, EOF)
     /\ clients' = [clients EXCEPT ![i].fd = NoFd, ![i].active = FALSE]
     /\ num_clients' = num_clients - 1
     /\ UNCHANGED <<next_client_id, next_file_id>>

handle_unregister(i) == remove_client(i)

\* A part of a message is too short or has not the length it announces.
process_client_message(i, m) ==
  \/ m = Rest /\ UNCHANGED <<tables, to_client>>
  \/ m.type = "TCP_REGISTER" /\ handle_register(i, m)
  \/ m.type = "TCP_SHARE_FILE" /\ handle_share_file(i, m)
  \/ m.type = "TCP_LIST_FILES" /\ handle_list_files(i)
  \/ m.type = "TCP_REQUEST_FILE" /\ handle_request_file(i, m)
  \/ m.type = "TCP_UNREGISTER" /\ handle_unregister(i)

-----------------------------------------------------------------------------
(* The poll loop *)

\* Mutant: when no slot is free the last one is taken over.
EmptySlot_evicts ==
  LET free == FirstSlot({i \in ClientSlot : ~ clients[i].active})
  IN  IF free = {} THEN {MAX_CLIENTS} ELSE free

\* The slot accept_new_client takes: the first that is not registered, which
\* may hold a connection that has yet to register.
EmptySlot == FirstSlot({i \in ClientSlot : ~ clients[i].active})

\* When there is no slot the connection is closed at once.
accept_new_client ==
  LET c == Head(backlog)
  IN  /\ backlog' = Tail(backlog)
      /\ \/ \E i \in EmptySlot :
              /\ clients' = [clients EXCEPT ![i].fd = c, ![i].addr = c,
                                            ![i].active = FALSE]
              /\ UNCHANGED to_client
         \/ /\ EmptySlot = {}
            /\ to_client' = [to_client EXCEPT ![c] = Append(@, EOF)]
            /\ UNCHANGED clients
      /\ UNCHANGED <<num_clients, next_client_id, files, next_file_id>>

\* The slots whose fd has POLLIN.
ReadySlots ==
  {i \in ClientSlot : clients[i].fd # NoFd /\ to_server[clients[i].fd] # <<>>}

\* poll returns; a new connection is accepted before the ready fds, which are
\* those of the moment poll returned, are looked at.
Poll ==
  /\ running
  /\ DOMAIN todo = {}
  /\ todo' = [i \in ReadySlots |-> clients[i].fd]
  /\ \/ backlog # <<>> /\ accept_new_client
     \/ /\ backlog = <<>> /\ ReadySlots # {}
        /\ UNCHANGED <<tables, backlog, to_client>>
  /\ UNCHANGED <<running, to_server>>

\* The next ready fd has lost its slot since poll.
ServeNobody(fd) ==
  /\ find_client_by_fd(fd) = {}
  /\ UNCHANGED <<tables, to_server, to_client>>

\* Mutant: a disconnect is not noticed.
ServeDisconnect_ignored(i) ==
  /\ Head(to_server[clients[i].fd]) = EOF
  /\ UNCHANGED <<tables, to_client, to_server>>

\* recv returns 0 or fails.
ServeDisconnect(i) ==
  /\ Head(to_server[clients[i].fd]) = EOF
  /\ remove_client(i)
  /\ UNCHANGED to_server

ServeMessage(i) ==
  LET fd == clients[i].fd
  IN  /\ Head(to_server[fd]) # EOF
      /\ to_server' = [to_server EXCEPT ![fd] = Tail(@)]
      /\ process_client_message(i, Head(to_server[fd]))

\* recv returns before all of the message has arrived: process_client_message
\* drops this part, and later the rest.
ServePart(i) ==
  LET fd == clients[i].fd
  IN  /\ MaySplit
      /\ Head(to_server[fd]) \notin {EOF, Rest}
      /\ to_server' = [to_server EXCEPT ![fd] = <<Rest>> \o Tail(@)]
      /\ UNCHANGED <<tables, to_client>>

\* The ready fds are looked at in the order of their slots.
Serve ==
  /\ \E k \in FirstSlot(DOMAIN todo) :
       /\ todo' = [i \in DOMAIN todo \ {k} |-> todo[i]]
       /\ \/ ServeNobody(todo[k])
          \/ \E i \in find_client_by_fd(todo[k]) :
               ServeDisconnect(i) \/ ServeMessage(i) \/ ServePart(i)
  /\ UNCHANGED <<running, backlog>>

\* SIGINT: the loop ends and every connection with it.
Shutdown ==
  /\ running
  /\ DOMAIN todo = {}
  /\ running' = FALSE
  /\ backlog' = <<>>
  /\ to_client' = [c \in Client |-> Append(to_client[c], EOF)]
  /\ UNCHANGED <<tables, todo, to_server>>
=============================================================================
