------------------------ MODULE FileSharingHandlers -------------------------
(***************************************************************************)
(* The handlers of the server preserve the inductive invariant of          *)
(* FileSharing: registering, sharing, listing, locating, and removing a    *)
(* client.                                                                 *)
(***************************************************************************)
EXTENDS FileSharingInvariant

-----------------------------------------------------------------------------
(* The handlers that enter something in a table *)

\* The server has taken the message m from the socket of slot i.
Turn(k, i, fd, m) ==
  /\ running /\ clients[i].fd = fd /\ todo[k] = fd
  /\ to_server[fd] # <<>> /\ m = Head(to_server[fd])
  /\ Reads(k, Tail(to_server[fd]))

\* handle_register: a slot becomes active under an id nobody has had.
LEMMA RegisterInv ==
  ASSUME Counting, IInv, NEW k, NEW i \in ClientSlot, NEW fd \in Client, NEW m,
         Turn(k, i, fd, m), m.type = "TCP_REGISTER", handle_register(i, m)
  PROVE  IInv'
<1> SUFFICES ASSUME running, clients[i].fd = fd, todo[k] = fd, to_server[fd] # <<>>,
                    Reads(k, Tail(to_server[fd])), m = Head(to_server[fd])
             PROVE  IInv'
  BY Zenon DEF Turn
<1> USE ServerAssumption, MessageFacts
<1>1. /\ UNCHANGED <<files, next_file_id, running, backlog, pc, request, table>>
      /\ next_client_id' = next_client_id + 1 /\ num_clients' = num_clients + 1
  BY Zenon DEF Reads, handle_register
<1>2. /\ Asked' /\ Round'
      /\ todo' \in [DOMAIN todo' -> Client] /\ DOMAIN todo' \subseteq ClientSlot
      /\ to_server' \in [Client -> Seq(Request \cup {EOF})]
      /\ \A d \in Client : Range(to_server'[d]) \subseteq Range(to_server[d]) \cup {Rest}
      /\ \A d \in Client : Connected(d)' => Connected(d)
      /\ \A l \in DOMAIN backlog :
           \A n \in Range(to_server'[backlog[l]]) : n.type # "TCP_SHARE_FILE"
  BY ReadInv, Zenon
<1>3. /\ TypeOK /\ Wired /\ Activity /\ TablesConsistent /\ Fresh
      /\ FileIdsNeverReused /\ Unclaimed /\ Served /\ LocationLeadsToOwner /\ Asks(fd)
  BY Zenon DEF IInv, Asked
<1>4. /\ m \in Range(to_server[fd])
      /\ \A n \in Range(Tail(to_server[fd])) : n.type # "TCP_REGISTER"
  <2> DEFINE s == to_server[fd]
             S == Request \cup {EOF}
  <2>1. s \in Seq(S) /\ s # <<>> /\ RegisterFirst(s)
    BY <1>3, TypeFacts, Zenon DEF Asks
  <2>2. Head(s) \in Range(s) /\ \A n \in Range(Tail(s)) : n.type # "TCP_REGISTER"
    <3> HIDE DEF s, S
    <3> QED BY <2>1, TailFacts, Zenon
  <2> QED BY <2>2, Zenon
<1>5. ~ clients[i].active /\ m.udp_port = fd
  BY <1>3, <1>4, Zenon DEF Activity, SlotActivity, Asks
<1>6. /\ clients'[i].fd = fd /\ clients'[i].addr = clients[i].addr
      /\ clients'[i].udp_port = fd /\ clients'[i].client_id = next_client_id
      /\ clients'[i].active = TRUE
      /\ \A j \in ClientSlot \ {i} : clients'[j] = clients[j]
  BY <1>3, <1>5 DEF handle_register, TypeOK
<1>7. \A j \in ClientSlot : clients[j].active => clients'[j] = clients[j] /\ j # i
  BY <1>5, <1>6, Zenon
<1>r. PICK r : r = [type |-> "TCP_REGISTER_ACK", client_id |-> next_client_id]
  BY Zenon
<1>8. r \in Reply /\ send_response(i, r) /\ r.type = "TCP_REGISTER_ACK"
  BY <1>3, <1>r, Zenon DEF Reply, TypeOK, handle_register
<1>9. /\ RepliesInStep' /\ Open'
      /\ to_client' \in [Client -> Seq(Reply \cup {EOF})]
      /\ \A d \in Client \ {fd} : to_client'[d] = to_client[d]
      /\ \/ /\ pc[fd] = "waiting" /\ Head(to_server[fd]) = request[fd]
            /\ Range(to_client[fd]) = {} /\ Range(to_client'[fd]) = {r}
         \/ pc[fd] = "gone" /\ to_client' = to_client
  <2>1. m = request[fd] => Expected(fd, r)
    BY <1>8, Zenon DEF Expected, RegisterReply
  <2>2. Answers(k, i, fd, r)
    BY <1>8, <2>1, Zenon DEF Answers
  <2>3. Answered(fd, r)
    BY <2>2, AnswerFacts, Zenon
  <2> QED BY <2>3, Zenon DEF Answered
<1>10. /\ \A d \in Client : Range(to_client[d]) \subseteq Range(to_client'[d])
       /\ \A d \in Client : \A n \in Range(to_client'[d]) :
            n \in Range(to_client[d]) \/ (d = fd /\ n = r)
  BY <1>9, Zenon
<1>11. \A d \in Client : \A n \in Range(to_client'[d]) :
         n.type \in {"TCP_SHARE_ACK", "TCP_FILE_LOCATION"} => n \in Range(to_client[d])
  BY <1>8, <1>10, Zenon
<1>12. {j \in ClientSlot : clients'[j].active} = {j \in ClientSlot : clients[j].active} \cup {i}
  BY <1>6, Zenon
<1>13. num_clients' = Cardinality({j \in ClientSlot : clients'[j].active})
       /\ num_clients' \in 0 .. MAX_CLIENTS
  <2> DEFINE A == {j \in ClientSlot : clients[j].active}
  <2>1. IsFiniteSet(ClientSlot) /\ Cardinality(ClientSlot) = MAX_CLIENTS
    BY CountFacts, Zenon
  <2>2. A \subseteq ClientSlot /\ A \cup {i} \subseteq ClientSlot /\ i \notin A
    BY <1>5, Zenon
  <2>3. num_clients = Cardinality(A)
    BY <1>3, Zenon DEF TablesConsistent
  <2> HIDE DEF A
  <2>4. IsFiniteSet(A) /\ Cardinality(A \cup {i}) = Cardinality(A) + 1
    BY <2>1, <2>2, CountPart, CountAdded, Zenon
  <2>5. Cardinality(A) \in Nat /\ Cardinality(A \cup {i}) <= MAX_CLIENTS
    BY <2>1, <2>2, <2>4, CountPart, CountFacts, Zenon
  <2>6. num_clients' = Cardinality(A \cup {i}) /\ Cardinality(A \cup {i}) \in 0 .. MAX_CLIENTS
    BY <1>1, <2>3, <2>4, <2>5
  <2> QED BY <1>12, <2>6, Zenon DEF A
<1>14. TypeOK'
  <2> DEFINE R == [fd : Client \cup {NoFd}, client_id : Nat, addr : Client \cup {NoFd},
                   udp_port : Client \cup {NoFd}, active : BOOLEAN]
  <2>1. clients \in [ClientSlot -> R] /\ next_client_id \in Nat
    BY <1>3, Zenon DEF TypeOK
  <2>2. clients' = [j \in ClientSlot |-> clients'[j]]
    BY <2>1, Zenon DEF handle_register
  <2>3. clients'[i] = [clients[i] EXCEPT !.udp_port = fd, !.client_id = next_client_id,
                                         !.active = TRUE]
    BY <1>5, <2>1, Zenon DEF handle_register
  <2>4. clients'[i] \in R
    BY <2>1, <2>3, Zenon
  <2>5. clients' \in [ClientSlot -> R]
    <3> HIDE DEF R, ClientSlot
    <3> QED BY <1>6, <2>1, <2>2, <2>4, Zenon
  <2>6. next_client_id' \in Nat
    BY <1>1, <2>1
  <2> QED BY <1>1, <1>2, <1>3, <1>9, <1>13, <2>5, <2>6, Zenon DEF TypeOK
<1>15. Wired'
  BY <1>1, <1>3, <1>6 DEF Wired
<1>16. Activity'
  <2>1. ASSUME NEW j \in ClientSlot PROVE SlotActivity(j)'
    <3>1. CASE j = i
      <4>1. pc[fd] # "connected" /\ to_server'[fd] = Tail(to_server[fd])
        BY <1>3, <1>9, Zenon DEF Reads, TypeOK
      <4> QED BY <1>1, <1>4, <1>6, <3>1, <4>1, Zenon DEF SlotActivity
    <3>2. CASE j # i
      <4>1. SlotActivity(j) /\ clients'[j] = clients[j] /\ clients[j].fd \in Client \cup {NoFd}
        BY <1>3, <1>6, <3>2, TypeFacts, Zenon DEF Activity
      <4>2. clients[j].active => clients[j].fd \in Client
        BY <1>3, <4>1, Zenon DEF Wired
      <4> QED BY <1>1, <1>2, <4>1, <4>2, Zenon DEF SlotActivity
    <3> QED BY <3>1, <3>2, Zenon
  <2>2. ASSUME NEW d \in Client, Acknowledged(d)' PROVE HasSlot(d)'
    <3>1. d = fd => HasSlot(d)'
      BY <1>6, Zenon DEF HasSlot
    <3>2. d # fd => Acknowledged(d)
      BY <1>1, <1>9, <2>2, Zenon DEF Acknowledged, Registered
    <3> QED BY <1>3, <1>7, <3>1, <3>2 DEF Activity, HasSlot
  <2> QED BY <1>1, <1>2, <2>1, <2>2, Zenon DEF Activity
<1>17. Fresh'
  <2>1. \A j \in ClientSlot : clients'[j].active => clients'[j].client_id < next_client_id'
    <3>1. \A j \in ClientSlot \ {i} : clients'[j].active => clients[j].client_id < next_client_id
      BY <1>3, <1>6, Zenon DEF Fresh
    <3>2. next_client_id \in Nat /\ \A j \in ClientSlot : clients[j].client_id \in Nat
      BY <1>3, Zenon DEF TypeOK
    <3> QED BY <1>1, <1>6, <3>1, <3>2
  <2> QED BY <1>1, <1>3, <1>11, <2>1, Zenon DEF Fresh
<1>18. TablesConsistent'
  <2>1. \A j, l \in ClientSlot : clients'[j].fd # NoFd /\ clients'[j].fd = clients'[l].fd => j = l
    BY <1>15, Zenon DEF Wired
  <2>2. \A j \in ClientSlot \ {i} : clients'[j].active => clients'[j].client_id # next_client_id
    BY <1>3, <1>6 DEF Fresh, TypeOK
  <2>3. \A j, l \in ClientSlot : j # l /\ clients'[j].active /\ clients'[l].active
          => clients'[j].client_id # clients'[l].client_id
    BY <1>3, <1>6, <2>2 DEF TablesConsistent
  <2>4. \A f \in files : \E j \in ClientSlot :
          clients'[j].active /\ clients'[j].client_id = f.owner_id
    BY <1>3, <1>7 DEF TablesConsistent
  <2>5. \A f, g \in files : f.file_id = g.file_id => f = g
    BY <1>3, Zenon DEF TablesConsistent
  <2> QED BY <1>1, <1>13, <2>1, <2>3, <2>4, <2>5, Zenon DEF TablesConsistent
<1>19. FileIdsNeverReused' /\ Unclaimed'
  BY <1>1, <1>3, <1>11 DEF FileIdsNeverReused, Unclaimed
<1>20. ASSUME NEW p \in Client, NEW id, NEW h, Serves(p, id, h) PROVE Serves(p, id, h)'
  BY <1>1, <1>10, <1>20, Zenon DEF Serves
<1>21. Served'
  <2>1. ASSUME NEW d \in Client, NEW id, NEW h, Owned(d, id, h) PROVE Owned(d, id, h)'
    BY <1>1, <1>7, <2>1, Zenon DEF Owned
  <2>2. ASSUME NEW d \in Client PROVE Offers(d)'
    BY <1>1, <1>3, <1>11, <2>1, Zenon DEF Served, Offers
  <2>3. ASSUME NEW f \in files, NEW j \in ClientSlot PROVE Listed(f, j)'
    <3>1. f.owner_id # next_client_id
      <4>1. PICK l \in ClientSlot : clients[l].active /\ clients[l].client_id = f.owner_id
        BY <1>3, Zenon DEF TablesConsistent
      <4> QED BY <1>3, <4>1 DEF Fresh, TypeOK
    <3>2. CASE j = i
      BY <1>6, <3>1, <3>2, Zenon DEF Listed
    <3>3. CASE j # i
      <4>1. Listed(f, j) /\ clients'[j] = clients[j]
        BY <1>3, <1>6, <3>3, Zenon DEF Served
      <4>2. clients[j].active => clients[j].fd \in Client
        BY <1>3, TypeFacts, Zenon DEF Wired
      <4> QED BY <1>1, <1>20, <4>1, <4>2, Zenon DEF Listed
    <3> QED BY <3>2, <3>3, Zenon
  <2> QED BY <1>1, <2>2, <2>3, Zenon DEF Served
<1>22. LocationLeadsToOwner'
  <2> SUFFICES ASSUME NEW d \in Client, NEW n \in Range(to_client'[d]),
                      n.type = "TCP_FILE_LOCATION"
               PROVE  /\ n.peer_ip = n.peer_port
                      /\ pc[n.peer_port] = "gone" \/ Serves(n.peer_port, n.file_id, n.hash)'
    BY <1>1, Zenon DEF LocationLeadsToOwner
  <2>1. n \in Range(to_client[d]) /\ n.peer_port \in Client
    BY <1>3, <1>11, ReplyFacts, Zenon
  <2> QED BY <1>3, <1>20, <2>1, Zenon DEF LocationLeadsToOwner
<1> QED BY <1>2, <1>9, <1>14, <1>15, <1>16, <1>17, <1>18, <1>19, <1>21, <1>22,
           Zenon
           DEF IInv

\* handle_share_file with room left: the file is entered under an id nobody has
\* had, and its owner learns it.
LEMMA ShareInv ==
  ASSUME Counting, IInv, NEW k, NEW i \in ClientSlot, NEW fd \in Client, NEW m,
         Turn(k, i, fd, m), m.type = "TCP_SHARE_FILE",
         ~ FileTableFull, files' = files \cup {new_file_entry(i, m)},
         next_file_id' = next_file_id + 1,
         send_response(i, [type |-> "TCP_SHARE_ACK",
                           file_id |-> new_file_entry(i, m).file_id]),
         UNCHANGED <<clients, num_clients, next_client_id>>
  PROVE  IInv'
<1> SUFFICES ASSUME running, clients[i].fd = fd, todo[k] = fd, to_server[fd] # <<>>,
                    Reads(k, Tail(to_server[fd])), m = Head(to_server[fd])
             PROVE  IInv'
  BY Zenon DEF Turn
<1> USE ServerAssumption, MessageFacts
<1>1. UNCHANGED <<clients, num_clients, next_client_id, running, backlog, pc, request, table>>
  BY Zenon DEF Reads
<1>2. /\ Asked' /\ Round'
      /\ todo' \in [DOMAIN todo' -> Client] /\ DOMAIN todo' \subseteq ClientSlot
      /\ to_server' \in [Client -> Seq(Request \cup {EOF})]
      /\ \A d \in Client : Range(to_server'[d]) \subseteq Range(to_server[d]) \cup {Rest}
      /\ \A l \in DOMAIN backlog :
           \A n \in Range(to_server'[backlog[l]]) : n.type # "TCP_SHARE_FILE"
  BY ReadInv, Zenon
<1>3. /\ TypeOK /\ Wired /\ Activity /\ TablesConsistent /\ Fresh
      /\ FileIdsNeverReused /\ Unclaimed /\ Served /\ LocationLeadsToOwner
  BY Zenon DEF IInv
<1>4. m \in Range(to_server[fd])
  <2> DEFINE s == to_server[fd]
             S == Request \cup {EOF}
  <2>1. s \in Seq(S) /\ s # <<>>
    BY <1>3, TypeFacts, Zenon
  <2>2. Head(s) \in Range(s)
    <3> HIDE DEF s, S
    <3> QED BY <2>1, TailFacts, Zenon
  <2> QED BY <2>2, Zenon
<1>5. m.hash \in Hash /\ m = [type |-> "TCP_SHARE_FILE", hash |-> m.hash]
  <2>1. m \in Request
    BY <1>3, <1>4, TypeFacts, Zenon
  <2> QED BY <2>1, Zenon DEF Request
<1>6. clients[i].active
  BY <1>3, <1>4, Zenon DEF Activity, SlotActivity, TypeOK
<1>7. PICK e : e = [file_id |-> next_file_id, hash |-> m.hash, owner_id |-> clients[i].client_id]
  BY Zenon
<1>8. PICK r : r = [type |-> "TCP_SHARE_ACK", file_id |-> next_file_id]
  BY Zenon
<1>9. /\ next_file_id \in Nat /\ clients[i].client_id \in Nat
      /\ e \in FileEntry /\ files' = files \cup {e} /\ e.file_id = next_file_id
      /\ e.owner_id = clients[i].client_id /\ e.hash = m.hash
  <2>1. next_file_id \in Nat /\ clients[i].client_id \in Nat
    BY <1>3, Zenon DEF TypeOK
  <2> QED BY <1>5, <1>7, <2>1, Zenon DEF FileEntry, new_file_entry
<1>10. /\ r \in Reply /\ send_response(i, r)
       /\ r.type = "TCP_SHARE_ACK" /\ r.file_id = next_file_id
  BY <1>8, <1>9, Zenon DEF Reply, new_file_entry
<1>11. Answered(fd, r)
  <2>1. m = request[fd] => Expected(fd, r)
    BY <1>10, Zenon DEF Expected, ShareReply
  <2>2. Answers(k, i, fd, r)
    BY <1>10, <2>1, Zenon DEF Answers
  <2> QED BY <2>2, AnswerFacts, Zenon
<1>12. /\ RepliesInStep' /\ Open'
       /\ to_client' \in [Client -> Seq(Reply \cup {EOF})]
       /\ \A d \in Client \ {fd} : to_client'[d] = to_client[d]
       /\ \/ /\ pc[fd] = "waiting" /\ m = request[fd]
             /\ Range(to_client[fd]) = {} /\ Range(to_client'[fd]) = {r}
          \/ pc[fd] = "gone" /\ to_client' = to_client
  BY <1>11, Zenon DEF Answered
<1>13. /\ \A d \in Client : Range(to_client[d]) \subseteq Range(to_client'[d])
       /\ \A d \in Client : \A n \in Range(to_client'[d]) :
            \/ n \in Range(to_client[d])
            \/ d = fd /\ n = r /\ pc[fd] = "waiting" /\ m = request[fd]
  BY <1>12, Zenon
<1>14. TypeOK'
  <2>1. IsFiniteSet(files) /\ \A f \in files : f.file_id < next_file_id
    BY <1>3, Zenon DEF Fresh
  <2>2. e \notin files
    BY <1>9, <2>1
  <2>3. Cardinality(files \cup {e}) = Cardinality(files) + 1 /\ Cardinality(files) \in Nat
    BY <2>1, <2>2, CountAdded, CountFacts, Zenon
  <2>4. Cardinality(files') <= MAX_FILES
    <3>1. files' = files \cup {e}
      BY <1>9, Zenon
    <3> DEFINE n == Cardinality(files)
    <3>2. n \in Nat /\ ~ (n >= MAX_FILES) /\ Cardinality(files') = n + 1
      BY <2>3, <3>1, Zenon DEF FileTableFull
    <3> HIDE DEF n
    <3> QED BY <3>2
  <2>5. files' \subseteq FileEntry /\ next_file_id' \in Nat
    BY <1>3, <1>9 DEF TypeOK
  <2> QED BY <1>1, <1>2, <1>3, <1>12, <2>4, <2>5, Zenon DEF TypeOK
<1>15. Wired'
  BY <1>1, <1>3 DEF Wired
<1>16. Activity'
  <2>1. ASSUME NEW j \in ClientSlot PROVE SlotActivity(j)'
    <3>1. SlotActivity(j) /\ clients[j].fd \in Client \cup {NoFd}
      BY <1>3, TypeFacts, Zenon DEF Activity
    <3>2. clients[j].active => clients[j].fd \in Client
      BY <1>3, <3>1, Zenon DEF Wired
    <3> QED BY <1>1, <1>2, <3>1, <3>2, Zenon DEF SlotActivity
  <2>2. ASSUME NEW d \in Client, Acknowledged(d)' PROVE HasSlot(d)'
    <3>1. Acknowledged(d)
      BY <1>1, <1>10, <1>13, <2>2, Zenon DEF Acknowledged, Registered
    <3> QED BY <1>1, <1>3, <3>1, Zenon DEF Activity, HasSlot
  <2> QED BY <1>1, <1>2, <2>1, <2>2, Zenon DEF Activity
<1>17. Fresh'
  <2>1. \A j \in ClientSlot : clients'[j].active => clients'[j].client_id < next_client_id'
    BY <1>1, <1>3, Zenon DEF Fresh
  <2>2. IsFiniteSet(files')
    BY <1>3, <1>9, CountAdded DEF Fresh
  <2>3. \A f \in files : f.file_id \in Nat
    BY <1>3, Zenon DEF TypeOK, FileEntry
  <2>4. \A f \in files' : f.file_id < next_file_id'
    BY <1>3, <1>9, <2>3 DEF Fresh
  <2>5. \A c \in Client : \A g \in table[c] : g.file_id < next_file_id /\ g.file_id \in Nat
    BY <1>3, SMT, SMTT(20) DEF Fresh, TypeOK
  <2>6. ASSUME NEW c \in Client, NEW n \in Range(to_client'[c]), n.type = "TCP_SHARE_ACK"
        PROVE  n.file_id < next_file_id'
    <3>1. n \in Range(to_client[c]) => n.file_id \in Nat /\ n.file_id < next_file_id
      BY <1>3, <2>6, ReplyFacts, Zenon DEF Fresh
    <3> QED BY <1>9, <1>10, <1>13, <3>1
  <2>7. \A c \in Client : \A g \in table'[c] : g.file_id < next_file_id'
    BY <1>1, <1>9, <2>5
  <2> QED BY <2>1, <2>2, <2>4, <2>6, <2>7, Zenon DEF Fresh
<1>18. TablesConsistent'
  <2>1. \A f \in files : f.file_id # next_file_id
    BY <1>3, <1>9, SMT, SMTT(20) DEF Fresh, TypeOK, FileEntry
  <2>2. \A f, g \in files' : f.file_id = g.file_id => f = g
    BY <1>3, <1>9, <2>1 DEF TablesConsistent
  <2>3. \A f \in files' : \E j \in ClientSlot :
          clients[j].active /\ clients[j].client_id = f.owner_id
    BY <1>3, <1>6, <1>9, Zenon DEF TablesConsistent
  <2> QED BY <1>1, <1>3, <2>2, <2>3 DEF TablesConsistent
<1>19. FileIdsNeverReused'
  BY <1>1, <1>3 DEF FileIdsNeverReused
<1>20. Unclaimed'
  <2>1. \A c \in Client : \A g \in table[c] : g.file_id # next_file_id
    BY <1>3, <1>9 DEF Fresh, TypeOK
  <2>2. \A c \in Client : \A n \in Range(to_client[c]) :
          n.type = "TCP_SHARE_ACK" => n.file_id # next_file_id
    BY <1>3, <1>9, ReplyFacts, SMT, SMTT(20) DEF Fresh
  <2> SUFFICES ASSUME NEW c \in Client, NEW d \in Client, NEW n \in Range(to_client'[c]),
                      n.type = "TCP_SHARE_ACK"
               PROVE  /\ \A g \in table[d] : g.file_id # n.file_id
                      /\ \A o \in Range(to_client'[d]) :
                           o.type = "TCP_SHARE_ACK" /\ o.file_id = n.file_id => c = d
    BY <1>1, Zenon DEF Unclaimed
  <2>3. CASE n \in Range(to_client[c])
    <3>1. /\ \A g \in table[d] : g.file_id # n.file_id
          /\ \A o \in Range(to_client[d]) :
               o.type = "TCP_SHARE_ACK" /\ o.file_id = n.file_id => c = d
      BY <1>3, <2>3, Zenon DEF Unclaimed
    <3> QED BY <1>10, <1>13, <2>2, <2>3, <3>1, Zenon
  <2>4. CASE c = fd /\ n = r
    BY <1>10, <1>13, <2>1, <2>2, <2>4, Zenon
  <2> QED BY <1>13, <2>3, <2>4, Zenon
<1>21. ASSUME NEW p \in Client, NEW id, NEW h, Serves(p, id, h) PROVE Serves(p, id, h)'
  BY <1>1, <1>13, <1>21, Zenon DEF Serves
<1>22. Served'
  <2>1. ASSUME NEW d \in Client, NEW id, NEW h, Owned(d, id, h) PROVE Owned(d, id, h)'
    BY <1>1, <1>9, <2>1, Zenon DEF Owned
  <2>2. ASSUME NEW d \in Client PROVE Offers(d)'
    <3>1. Owned(fd, r.file_id, m.hash)'
      BY <1>1, <1>6, <1>7, <1>9, <1>10 DEF Owned
    <3> SUFFICES ASSUME pc[d] # "gone"
                 PROVE  /\ \A g \in table[d] : Owned(d, g.file_id, g.hash)'
                        /\ \A n \in Range(to_client'[d]) : n.type = "TCP_SHARE_ACK" =>
                             Owned(d, n.file_id, request[d].hash)'
      BY <1>1, Zenon DEF Offers
    <3>2. Offers(d)
      BY <1>3, Zenon DEF Served
    <3>3. \A g \in table[d] : Owned(d, g.file_id, g.hash)'
      BY <2>1, <3>2, Zenon DEF Offers
    <3>4. ASSUME NEW n \in Range(to_client'[d]), n.type = "TCP_SHARE_ACK"
          PROVE  Owned(d, n.file_id, request[d].hash)'
      <4>1. CASE n \in Range(to_client[d])
        <5>1. Owned(d, n.file_id, request[d].hash)
          BY <3>2, <3>4, <4>1, Zenon DEF Offers
        <5>2. request' = request
          BY <1>1, Zenon
        <5> QED BY <2>1, <5>1, <5>2, Zenon
      <4>2. CASE d = fd /\ n = r /\ m = request[fd]
        BY <1>1, <3>1, <4>2, Zenon
      <4> QED BY <1>13, <4>1, <4>2, Zenon
    <3> QED BY <3>3, <3>4, Zenon
  <2>3. ASSUME NEW f \in files', NEW j \in ClientSlot PROVE Listed(f, j)'
    <3>1. clients[j].active => clients[j].fd \in Client
      BY <1>3, TypeFacts, Zenon DEF Wired
    <3>2. CASE f \in files
      <4>1. Listed(f, j)
        BY <1>3, <3>2, Zenon DEF Served
      <4> QED BY <1>1, <1>21, <3>1, <4>1, Zenon DEF Listed
    <3>3. CASE f = e
      <4> SUFFICES ASSUME clients[j].active, clients[j].client_id = f.owner_id
                   PROVE  pc[fd] = "gone" \/ Serves(fd, f.file_id, f.hash)'
        <5>1. clients[j].active /\ clients[j].client_id = f.owner_id => j = i
          <6>1. clients[i].active /\ clients[i].client_id = e.owner_id
            BY <1>6, <1>9, Zenon
          <6> QED BY <1>3, <3>3, <6>1, Zenon DEF TablesConsistent
        <5>2. clients' = clients /\ pc' = pc
          BY <1>1, Zenon
        <5> QED BY <5>1, <5>2, Zenon DEF Listed
      <4> QED BY <1>1, <1>5, <1>8, <1>9, <1>12, <3>3, Zenon DEF Serves
    <3> QED BY <1>9, <3>2, <3>3, Zenon
  <2> QED BY <1>1, <2>2, <2>3, Zenon DEF Served
<1>23. LocationLeadsToOwner'
  <2> SUFFICES ASSUME NEW d \in Client, NEW n \in Range(to_client'[d]),
                      n.type = "TCP_FILE_LOCATION"
               PROVE  /\ n.peer_ip = n.peer_port
                      /\ pc[n.peer_port] = "gone" \/ Serves(n.peer_port, n.file_id, n.hash)'
    BY <1>1, Zenon DEF LocationLeadsToOwner
  <2>1. n \in Range(to_client[d]) /\ n.peer_port \in Client
    BY <1>3, <1>10, <1>13, ReplyFacts, Zenon
  <2> QED BY <1>3, <1>21, <2>1, Zenon DEF LocationLeadsToOwner
<1> QED BY <1>2, <1>12, <1>14, <1>15, <1>16, <1>17, <1>18, <1>19, <1>20, <1>22,
           <1>23, Zenon
           DEF IInv

-----------------------------------------------------------------------------
(* The handlers that change no table *)

\* A step of a round that writes nothing and changes no table.
LEMMA StillInv ==
  ASSUME IInv, NEW k, NEW t, Reads(k, t), UNCHANGED <<tables, to_client>>
  PROVE  IInv'
<1> USE ServerAssumption, MessageFacts
<1>1. TypeOK /\ RepliesInStep /\ Open /\ Round
  BY Zenon DEF IInv
<1>2. PICK fd \in Client : fd = todo[k]
  BY <1>1, TypeFacts, Zenon DEF Reads
<1>3. /\ to_server[fd] # <<>> /\ \A d \in Client \ {fd} : to_server'[d] = to_server[d]
      /\ UNCHANGED <<to_client, running, backlog, pc, request>>
  BY <1>1, <1>2, Zenon DEF Reads, Round, TypeOK
<1>4. \A d \in Client : \A n : Expected(d, n)' <=> Expected(d, n)
  BY <1>3 DEF Expected, RegisterReply, ShareReply, ListReply, LocationReply
<1>5. \A l \in DOMAIN to_client[fd] : to_client[fd][l] = EOF
  BY <1>1, <1>3, Zenon DEF RepliesInStep
<1>6. RepliesInStep'
  BY <1>1, <1>3, <1>4, <1>5 DEF RepliesInStep
<1>7. Open'
  <2>1. \A d \in Client : Connected(d)' => Connected(d)
    BY ReadInv, Zenon
  <2> QED BY <1>1, <1>3, <2>1, Zenon DEF Open
<1>8. to_client' \in [Client -> Seq(Reply \cup {EOF})]
  BY <1>1, <1>3, Zenon DEF TypeOK
<1>9. UNCHANGED tables
  BY Zenon
<1> QED BY <1>3, <1>6, <1>7, <1>8, <1>9, QuietInv, Zenon

\* A reply that enters neither a client nor a file.
LEMMA QuietAnswerInv ==
  ASSUME IInv, NEW k, NEW i, NEW fd, NEW r, Answers(k, i, fd, r), Harmless(r),
         UNCHANGED tables
  PROVE  IInv'
<1>1. Answered(fd, r)
  BY AnswerFacts, Zenon
<1>2. /\ RepliesInStep' /\ Open' /\ to_client' \in [Client -> Seq(Reply \cup {EOF})]
      /\ \A d \in Client \ {fd} : to_client'[d] = to_client[d]
      /\ \/ Range(to_client[fd]) = {} /\ Range(to_client'[fd]) = {r}
         \/ to_client' = to_client
  BY <1>1, Zenon DEF Answered
<1>3. /\ \A d \in Client : Range(to_client[d]) \subseteq Range(to_client'[d])
      /\ \A d \in Client : \A m \in Range(to_client'[d]) :
           m \in Range(to_client[d]) \/ Harmless(m)
  BY <1>2, Zenon
<1>4. Reads(k, Tail(to_server[fd]))
  BY Zenon DEF Answers
<1>5. PICK t : t = Tail(to_server[fd]) /\ Reads(k, t)
  BY <1>4, Zenon
<1> QED BY <1>2, <1>3, <1>5, QuietInv, Zenon

-----------------------------------------------------------------------------
(* remove_client *)

\* remove_client: the slot of a client that has left is freed and its files
\* leave the directory, nobody else's do.
LEMMA RemoveInv ==
  ASSUME Counting, IInv, NEW k, NEW t, Reads(k, t), NEW i \in ClientSlot, NEW fd \in Client,
         clients[i].fd = fd, todo[k] = fd, pc[fd] = "gone", PeerClosed(fd),
         clients[i].active, remove_client(i)
  PROVE  IInv'
<1> USE ServerAssumption, MessageFacts
<1>1. /\ UNCHANGED <<next_client_id, next_file_id, running, backlog, to_client,
                     pc, request, table>>
      /\ num_clients' = num_clients - 1
  BY Zenon DEF Reads, remove_client, send_response
<1>2. /\ Asked' /\ Round'
      /\ todo' \in [DOMAIN todo' -> Client] /\ DOMAIN todo' \subseteq ClientSlot
      /\ to_server' \in [Client -> Seq(Request \cup {EOF})]
      /\ \A d \in Client : Range(to_server'[d]) \subseteq Range(to_server[d]) \cup {Rest}
      /\ \A d \in Client : Connected(d)' => Connected(d)
      /\ \A l \in DOMAIN backlog :
           \A n \in Range(to_server'[backlog[l]]) : n.type # "TCP_SHARE_FILE"
  BY ReadInv, Zenon
<1>3. /\ TypeOK /\ Wired /\ Activity /\ TablesConsistent /\ Fresh /\ RepliesInStep /\ Open
      /\ FileIdsNeverReused /\ Unclaimed /\ Served /\ LocationLeadsToOwner
  BY Zenon DEF IInv
<1>4. /\ clients'[i].fd = NoFd /\ clients'[i].active = FALSE
      /\ \A j \in ClientSlot \ {i} : clients'[j] = clients[j]
  BY <1>3 DEF TypeOK, remove_client
<1>5. /\ files' \subseteq files
      /\ \A f \in files : f \in files' <=> f.owner_id # clients[i].client_id
  BY Zenon DEF FilesLeft, remove_client
<1>6. \A j \in ClientSlot \ {i} :
        clients[j].active => clients[j].fd # fd /\ clients[j].client_id # clients[i].client_id
  BY <1>3 DEF TablesConsistent, Wired
<1>7. {j \in ClientSlot : clients'[j].active} = {j \in ClientSlot : clients[j].active} \ {i}
  BY <1>4, Zenon
<1>8. /\ num_clients' = Cardinality({j \in ClientSlot : clients'[j].active})
      /\ num_clients' \in 0 .. MAX_CLIENTS
  <2> DEFINE A == {j \in ClientSlot : clients[j].active}
  <2>1. IsFiniteSet(ClientSlot)
    BY CountFacts, Zenon
  <2>2. A \subseteq ClientSlot /\ i \in A
    BY Zenon
  <2>3. num_clients = Cardinality(A) /\ num_clients \in 0 .. MAX_CLIENTS
    BY <1>3, Zenon DEF TablesConsistent, TypeOK
  <2> HIDE DEF A
  <2>4. IsFiniteSet(A)
    BY <2>1, <2>2, CountPart, Zenon
  <2>5. PICK a, b : a = Cardinality(A) /\ b = Cardinality(A \ {i})
    BY Zenon
  <2>6. b = a - 1 /\ b \in Nat
    BY <2>2, <2>4, <2>5, CountRemoved, CountFacts, Zenon
  <2>7. num_clients' = b /\ num_clients' \in 0 .. MAX_CLIENTS
    BY <1>1, <2>3, <2>5, <2>6
  <2> QED BY <1>7, <2>5, <2>7, Zenon DEF A
<1>9. IsFiniteSet(files') /\ Cardinality(files') <= MAX_FILES
  <2>1. IsFiniteSet(files) /\ Cardinality(files) <= MAX_FILES
    BY <1>3, Zenon DEF Fresh, TypeOK
  <2>2. IsFiniteSet(files') /\ Cardinality(files') <= Cardinality(files)
    BY <1>5, <2>1, CountPart, Zenon
  <2> QED BY <2>1, <2>2, CountFacts
<1>10. TypeOK'
  <2> DEFINE R == [fd : Client \cup {NoFd}, client_id : Nat, addr : Client \cup {NoFd},
                   udp_port : Client \cup {NoFd}, active : BOOLEAN]
  <2>1. clients \in [ClientSlot -> R] /\ files' \subseteq FileEntry
    BY <1>3, <1>5, Zenon DEF TypeOK
  <2>2. clients' = [j \in ClientSlot |-> clients'[j]]
    BY <2>1, Zenon DEF remove_client
  <2>3. clients'[i] = [clients[i] EXCEPT !.fd = NoFd, !.active = FALSE]
    BY <2>1, Zenon DEF remove_client
  <2>4. clients'[i] \in R
    <3>1. clients[i] \in R /\ NoFd \in Client \cup {NoFd} /\ FALSE \in BOOLEAN
      BY <2>1, Zenon
    <3> QED BY <2>3, <3>1, Zenon
  <2>5. clients' \in [ClientSlot -> R]
    <3> HIDE DEF R, ClientSlot
    <3> QED BY <1>4, <2>1, <2>2, <2>4, Zenon
  <2> QED BY <1>1, <1>2, <1>3, <1>8, <1>9, <2>1, <2>5, Zenon DEF TypeOK
<1>11. Wired'
  <2>1. \A j \in ClientSlot : clients'[j].fd # NoFd \/ clients'[j].active =>
          j # i /\ clients'[j] = clients[j]
    BY <1>4, Zenon
  <2>2. \A d \in Client, j \in ClientSlot : clients'[j].fd = d => clients[j].fd = d
    BY <2>1, Zenon
  <2> QED BY <1>1, <1>3, <2>1, <2>2, TypeFacts, SMT, SMTT(20) DEF Wired
<1>12. \A n \in Range(to_client[fd]) : n = EOF
  BY <1>3 DEF RepliesInStep, Range
<1>13. Activity'
  <2>1. ASSUME NEW j \in ClientSlot PROVE SlotActivity(j)'
    <3>1. CASE j = i
      BY <1>4, <3>1, Zenon DEF SlotActivity
    <3>2. CASE j # i
      <4>1. SlotActivity(j) /\ clients'[j] = clients[j] /\ clients[j].fd \in Client \cup {NoFd}
        BY <1>3, <1>4, <3>2, TypeFacts, Zenon DEF Activity
      <4>2. clients[j].active => clients[j].fd \in Client
        BY <1>3, <4>1, Zenon DEF Wired
      <4> QED BY <1>1, <1>2, <4>1, <4>2, ZenonT(30), Zenon DEF SlotActivity
    <3> QED BY <3>1, <3>2, Zenon
  <2>2. ASSUME NEW d \in Client, Acknowledged(d)' PROVE HasSlot(d)'
    <3>1. d # fd /\ Acknowledged(d)
      BY <1>1, <1>12, <2>2, Zenon DEF Acknowledged, Registered
    <3>2. PICK j \in ClientSlot : clients[j].active /\ clients[j].fd = d
      BY <1>3, <3>1, Zenon DEF Activity, HasSlot
    <3>3. j # i
      BY <3>1, <3>2, Zenon
    <3> QED BY <1>4, <3>2, <3>3, Zenon DEF HasSlot
  <2> QED BY <1>1, <1>2, <2>1, <2>2, Zenon DEF Activity
<1>14. Open'
  BY <1>1, <1>2, <1>3, Zenon DEF Open
<1>15. RepliesInStep'
  <2>1. \A d \in Client \ {fd} : to_server'[d] = to_server[d]
    BY <1>3, Zenon DEF Reads, TypeOK
  <2>2. \A d \in Client : \A n : Expected(d, n)' <=> Expected(d, n)
    BY <1>1, Zenon
       DEF Expected, RegisterReply, ShareReply, ListReply, LocationReply
  <2>3. \A l \in DOMAIN to_client[fd] : to_client[fd][l] = EOF
    BY <1>12, Zenon DEF Range
  <2> QED BY <1>1, <1>3, <2>1, <2>2, <2>3, SMT, SMTT(20) DEF RepliesInStep
<1>16. Fresh'
  BY <1>1, <1>3, <1>4, <1>5, <1>9, ZenonT(30), Zenon DEF Fresh
<1>17. TablesConsistent'
  <2>1. \A j, l \in ClientSlot : clients'[j].fd # NoFd /\ clients'[j].fd = clients'[l].fd => j = l
    BY <1>11, Zenon DEF Wired
  <2>2. \A j, l \in ClientSlot : j # l /\ clients'[j].active /\ clients'[l].active
          => clients'[j].client_id # clients'[l].client_id
    BY <1>3, <1>4 DEF TablesConsistent
  <2>3. \A f, g \in files' : f.file_id = g.file_id => f = g
    BY <1>3, <1>5, Zenon DEF TablesConsistent
  <2>4. ASSUME NEW f \in files'
        PROVE  \E j \in ClientSlot : clients'[j].active /\ clients'[j].client_id = f.owner_id
    <3>1. PICK j \in ClientSlot : clients[j].active /\ clients[j].client_id = f.owner_id
      BY <1>3, <1>5, Zenon DEF TablesConsistent
    <3>2. j # i
      BY <1>5, <3>1, Zenon
    <3> QED BY <1>4, <3>1, <3>2, Zenon
  <2> QED BY <1>8, <2>1, <2>2, <2>3, <2>4, Zenon DEF TablesConsistent
<1>18. FileIdsNeverReused' /\ Unclaimed'
  BY <1>1, <1>3, SMT, SMTT(20) DEF FileIdsNeverReused, Unclaimed
<1>19. \A p \in Client : \A id, h : Serves(p, id, h)' <=> Serves(p, id, h)
  BY <1>1, Zenon DEF Serves
<1>20. Served'
  <2>1. ASSUME NEW d \in Client, d # fd, NEW id, NEW h, Owned(d, id, h) PROVE Owned(d, id, h)'
    <3>1. PICK j \in ClientSlot :
            /\ clients[j].active /\ clients[j].fd = d
            /\ [file_id |-> id, hash |-> h, owner_id |-> clients[j].client_id] \in files
      BY <2>1, Zenon DEF Owned
    <3>2. j # i /\ clients'[j] = clients[j] /\ clients[j].client_id # clients[i].client_id
      BY <1>4, <1>6, <2>1, <3>1, Zenon
    <3>3. [file_id |-> id, hash |-> h, owner_id |-> clients[j].client_id] \in files'
      BY <1>5, <3>1, <3>2, Zenon
    <3> QED BY <3>1, <3>2, <3>3, Zenon DEF Owned
  <2>2. ASSUME NEW d \in Client PROVE Offers(d)'
    <3>1. d = fd => Offers(d)'
      BY <1>1, Zenon DEF Offers
    <3>2. d # fd => Offers(d)'
      BY <1>1, <1>3, <2>1, Zenon DEF Served, Offers
    <3> QED BY <3>1, <3>2, Zenon
  <2>3. ASSUME NEW f \in files', NEW j \in ClientSlot PROVE Listed(f, j)'
    <3>1. j = i => Listed(f, j)'
      BY <1>4, Zenon DEF Listed
    <3>2. Listed(f, j) /\ (clients[j].active => clients[j].fd \in Client)
      BY <1>3, <1>5, TypeFacts, ZenonT(30), Zenon DEF Served, Wired
    <3>3. j # i => clients'[j] = clients[j]
      BY <1>4, ZenonT(30), Zenon
    <3>4. j # i => Listed(f, j)'
      BY <1>1, <1>19, <3>2, <3>3, Zenon DEF Listed
    <3> QED BY <3>1, <3>4, Zenon
  <2> QED BY <2>2, <2>3, Zenon DEF Served
<1>21. LocationLeadsToOwner'
  <2> SUFFICES ASSUME NEW d \in Client, NEW n \in Range(to_client[d]),
                      n.type = "TCP_FILE_LOCATION"
               PROVE  /\ n.peer_ip = n.peer_port
                      /\ pc[n.peer_port] = "gone" \/ Serves(n.peer_port, n.file_id, n.hash)'
    BY <1>1, Zenon DEF LocationLeadsToOwner
  <2>1. n.peer_port \in Client
    BY <1>3, ReplyFacts, Zenon
  <2> QED BY <1>3, <1>19, <2>1, Zenon DEF LocationLeadsToOwner
<1> QED BY <1>2, <1>10, <1>11, <1>13, <1>14, <1>15, <1>16, <1>17, <1>18, <1>20,
           <1>21, Zenon
           DEF IInv

-----------------------------------------------------------------------------
(* A turn of the loop over the ready sockets *)

\* The location the server answers with is that of a client that shared the
\* file; a listed file always has its owner.
LEMMA RequestFacts ==
  ASSUME IInv, NEW i \in ClientSlot, NEW id \in Nat
  PROVE  /\ request_reply(i, id) \in Reply
         /\ Harmless(request_reply(i, id))
         /\ \/ request_reply(i, id).type = "TCP_ERROR"
            \/ /\ request_reply(i, id).type = "TCP_FILE_LOCATION"
               /\ request_reply(i, id).file_id = id
<1> USE ServerAssumption
<1>1. TypeOK /\ TablesConsistent /\ Wired /\ Served
  BY Zenon DEF IInv
<1>2. CASE find_file(id) = {}
  BY <1>2, Zenon DEF request_reply, tcp_error, Reply, Harmless
<1>3. CASE find_file(id) # {}
  <2>1. PICK f : f = CHOOSE g \in find_file(id) : TRUE
    BY Zenon
  <2>2. f \in files /\ f.file_id = id
    BY <1>3, <2>1, Zenon DEF find_file
  <2>3. PICK o \in ClientSlot : clients[o].active /\ clients[o].client_id = f.owner_id
    BY <1>1, <2>2, Zenon DEF TablesConsistent
  <2>4. find_client(f.owner_id) = {o}
    <3>1. {j \in ClientSlot : clients[j].active /\ clients[j].client_id = f.owner_id} = {o}
      BY <1>1, <2>3 DEF TablesConsistent
    <3>2. FirstSlot({o}) = {o}
      BY DEF FirstSlot, ClientSlot
    <3> QED BY <3>1, <3>2, Zenon DEF find_client
  <2>5. request_reply(i, id) = file_location(i, f, o)
    <3>1. (CHOOSE p \in {o} : TRUE) = o
      BY Zenon
    <3> QED BY <1>3, <2>1, <2>4, <3>1, Zenon DEF request_reply
  <2>6. PICK p \in Client : clients[o].fd = p /\ clients[o].addr = p /\ clients[o].udp_port = p
    BY <1>1, <2>3, TypeFacts, Zenon DEF Wired
  <2>7. PICK r : r = [type |-> "TCP_FILE_LOCATION", file_id |-> f.file_id, hash |-> f.hash,
                      peer_ip |-> p, peer_port |-> p]
    BY Zenon
  <2>8. request_reply(i, id) = r
    BY <2>5, <2>6, <2>7, Zenon DEF file_location
  <2>9. /\ r.type = "TCP_FILE_LOCATION" /\ r.file_id = f.file_id /\ r.hash = f.hash
        /\ r.peer_ip = p /\ r.peer_port = p
    BY <2>7, Zenon
  <2>10. r \in Reply
    <3>1. f.hash \in Hash /\ f.file_id \in Nat
      BY <1>1, <2>2, Zenon DEF TypeOK, FileEntry
    <3> QED BY <2>7, <3>1, Zenon DEF Reply
  <2>11. pc[p] = "gone" \/ Serves(p, f.file_id, f.hash)
    BY <1>1, <2>2, <2>3, <2>6, Zenon DEF Served, Listed
  <2>12. Harmless(r)
    BY <2>9, <2>11, Zenon DEF Harmless
  <2> QED BY <2>2, <2>8, <2>9, <2>10, <2>12, Zenon
<1> QED BY <1>2, <1>3, Zenon

\* What the server may leave of what a socket had for it.
LEMMA ReadsFacts ==
  ASSUME IInv, NEW k \in DOMAIN todo, NEW fd \in Client, todo[k] = fd,
         todo' = [j \in DOMAIN todo \ {k} |-> todo[j]],
         UNCHANGED <<running, backlog, pc, request, table>>,
         \A j \in ClientSlot : clients'[j].fd \in {clients[j].fd, NoFd}
  PROVE  /\ UNCHANGED to_server => Reads(k, to_server[fd])
         /\ Head(to_server[fd]) # EOF
              /\ to_server' = [to_server EXCEPT ![fd] = Tail(to_server[fd])]
              => Reads(k, Tail(to_server[fd]))
         /\ Head(to_server[fd]) # EOF
              /\ to_server' = [to_server EXCEPT ![fd] = <<Rest>> \o Tail(to_server[fd])]
              => Reads(k, <<Rest>> \o Tail(to_server[fd]))
<1> USE ServerAssumption, MessageFacts
<1> DEFINE s == to_server[fd]
           S == Request \cup {EOF}
<1>1. TypeOK /\ Round /\ Asks(fd)
  BY Zenon DEF IInv, Asked
<1>2. s \in Seq(S) /\ s # <<>> /\ RegisterFirst(s) /\ Rest \in S
  BY <1>1, TypeFacts, Zenon DEF Round, Asks
<1>3. PeerClosed(fd) <=> EOF \in Range(s)
  BY Zenon DEF PeerClosed
<1>4. UNCHANGED to_server => Reads(k, s)
  <2>1. to_server = [to_server EXCEPT ![fd] = s] /\ Len(s) \in Nat
    BY <1>1, <1>2, SeqFacts, Zenon DEF TypeOK
  <2> QED BY <1>2, <1>3, <2>1 DEF Reads
<1>5. Head(s) # EOF /\ to_server' = [to_server EXCEPT ![fd] = Tail(s)] => Reads(k, Tail(s))
  <2>1. /\ Tail(s) \in Seq(S) /\ RegisterFirst(Tail(s)) /\ Len(Tail(s)) <= Len(s)
        /\ Range(Tail(s)) \subseteq Range(s) /\ Range(s) \subseteq {Head(s)} \cup Range(Tail(s))
    <3> HIDE DEF s, S
    <3> QED BY <1>2, TailFacts, SeqFacts
  <2> HIDE DEF S
  <2> QED BY <1>3, <2>1, Zenon DEF Reads, S
<1>6. Head(s) # EOF /\ to_server' = [to_server EXCEPT ![fd] = <<Rest>> \o Tail(s)]
        => Reads(k, <<Rest>> \o Tail(s))
  <2> DEFINE t == <<Rest>> \o Tail(s)
  <2>1. /\ t \in Seq(S) /\ RegisterFirst(t) /\ Len(t) <= Len(s)
        /\ Range(t) \subseteq {Rest} \cup Range(s) /\ Range(s) \subseteq {Head(s)} \cup Range(t)
    <3> HIDE DEF s, S
    <3> QED BY <1>2, PartFacts, SeqFacts
  <2> HIDE DEF t
  <2> QED BY <1>3, <2>1, Zenon DEF Reads, t
<1> QED BY <1>4, <1>5, <1>6, Zenon

\* The server looks at the next ready socket.
LEMMA ServeInv ==
  ASSUME Counting, IInv, Serve, UNCHANGED clientVars
  PROVE  IInv'
<1> USE ServerAssumption, MessageFacts
<1>1. PICK k \in FirstSlot(DOMAIN todo) :
        /\ todo' = [j \in DOMAIN todo \ {k} |-> todo[j]]
        /\ \/ ServeNobody(todo[k])
           \/ \E i \in find_client_by_fd(todo[k]) :
                ServeDisconnect(i) \/ ServeMessage(i) \/ ServePart(i)
  BY Zenon DEF Serve
<1>2. /\ k \in DOMAIN todo /\ UNCHANGED <<running, backlog, pc, request, table>>
      /\ TypeOK /\ Round /\ Activity
  BY <1>1, Zenon DEF FirstSlot, Serve, clientVars, IInv
<1>3. PICK fd \in Client : todo[k] = fd
  BY <1>2, TypeFacts, Zenon
<1>4. running /\ to_server[fd] # <<>>
  BY <1>2, <1>3, Zenon DEF Round, TypeOK
<1>5. /\ Head(to_server[fd]) \in Range(to_server[fd])
      /\ Head(to_server[fd]) \in Request \cup {EOF}
  <2> DEFINE s == to_server[fd]
             S == Request \cup {EOF}
  <2>1. s \in Seq(S) /\ s # <<>>
    BY <1>2, <1>4, TypeFacts, Zenon
  <2>2. Head(s) \in Range(s) /\ Head(s) \in S
    <3> HIDE DEF s, S
    <3> QED BY <2>1, TailFacts, Zenon
  <2> QED BY <2>2, Zenon
<1>6. ASSUME \A j \in ClientSlot : clients'[j].fd \in {clients[j].fd, NoFd}
      PROVE  /\ UNCHANGED to_server => Reads(k, to_server[fd])
             /\ Head(to_server[fd]) # EOF
                  /\ to_server' = [to_server EXCEPT ![fd] = Tail(to_server[fd])]
                  => Reads(k, Tail(to_server[fd]))
             /\ Head(to_server[fd]) # EOF
                  /\ to_server' = [to_server EXCEPT ![fd] = <<Rest>> \o Tail(to_server[fd])]
                  => Reads(k, <<Rest>> \o Tail(to_server[fd]))
  BY <1>1, <1>2, <1>3, <1>6, ReadsFacts, Zenon
<1>7. UNCHANGED tables => /\ UNCHANGED <<clients, num_clients, next_client_id, files, next_file_id>>
                          /\ \A j \in ClientSlot : clients'[j].fd \in {clients[j].fd, NoFd}
  BY Zenon DEF tables
<1>8. CASE ServeNobody(fd)
  <2>1. UNCHANGED <<tables, to_client>> /\ UNCHANGED tables /\ UNCHANGED to_server
    BY <1>8, Zenon DEF ServeNobody
  <2>2. PICK t : t = to_server[fd] /\ Reads(k, t)
    BY <1>6, <1>7, <2>1, Zenon
  <2> QED BY <2>1, <2>2, StillInv, Zenon
<1>9. ASSUME NEW i \in ClientSlot, clients[i].fd = fd, ServePart(i) PROVE IInv'
  <2>1. /\ UNCHANGED <<tables, to_client>> /\ UNCHANGED tables /\ Head(to_server[fd]) # EOF
        /\ to_server' = [to_server EXCEPT ![fd] = <<Rest>> \o Tail(to_server[fd])]
    BY <1>9, Zenon DEF ServePart
  <2>2. PICK t : t = <<Rest>> \o Tail(to_server[fd]) /\ Reads(k, t)
    BY <1>6, <1>7, <2>1, Zenon
  <2> QED BY <2>1, <2>2, StillInv, Zenon
<1>10. ASSUME NEW i \in ClientSlot, clients[i].fd = fd, remove_client(i), PeerClosed(fd),
              \/ UNCHANGED to_server
              \/ /\ Head(to_server[fd]) # EOF
                 /\ to_server' = [to_server EXCEPT ![fd] = Tail(to_server[fd])]
       PROVE  IInv'
  <2>1. \A j \in ClientSlot : clients'[j].fd \in {clients[j].fd, NoFd}
    <3>1. CASE clients' = [clients EXCEPT ![i].fd = NoFd, ![i].active = FALSE]
      BY <1>2, <3>1 DEF TypeOK
    <3> QED BY <1>7, <1>10, <3>1, Zenon DEF remove_client
  <2>2. PICK t : Reads(k, t)
    BY <1>6, <1>10, <2>1, Zenon
  <2>3. pc[fd] = "gone"
    BY <1>4, <1>10, ServeFacts, Zenon
  <2>4. CASE clients[i].active
    BY <1>3, <1>10, <2>2, <2>3, <2>4, RemoveInv, Zenon
  <2>5. CASE ~ clients[i].active
    <3>1. UNCHANGED <<tables, to_client>>
      BY <1>10, <2>5, Zenon DEF remove_client
    <3> QED BY <2>2, <3>1, StillInv, Zenon
  <2> QED BY <2>4, <2>5, Zenon
<1>11. ASSUME NEW i \in ClientSlot, clients[i].fd = fd, ServeDisconnect(i) PROVE IInv'
  <2>1. remove_client(i) /\ PeerClosed(fd) /\ UNCHANGED to_server
    BY <1>5, <1>11, Zenon DEF ServeDisconnect, PeerClosed
  <2> QED BY <1>10, <1>11, <2>1, Zenon
<1>12. ASSUME NEW i \in ClientSlot, clients[i].fd = fd, ServeMessage(i) PROVE IInv'
  <2>1. PICK m : m = Head(to_server[fd])
    BY Zenon
  <2>2. /\ m \in Request /\ m # EOF /\ process_client_message(i, m)
        /\ to_server' = [to_server EXCEPT ![fd] = Tail(to_server[fd])]
    BY <1>5, <1>12, <2>1, Zenon DEF ServeMessage
  <2>3. ASSUME \A j \in ClientSlot : clients'[j].fd \in {clients[j].fd, NoFd}
        PROVE  Reads(k, Tail(to_server[fd]))
    BY <1>6, <2>1, <2>2, <2>3, Zenon
  <2>4. UNCHANGED tables => Reads(k, Tail(to_server[fd]))
    BY <1>7, <2>3, Zenon
  <2>5. ASSUME NEW r \in Reply, send_response(i, r), Harmless(r), UNCHANGED tables, m # Rest,
               m = request[fd] => r.type = "TCP_ERROR" \/ Expected(fd, r)
        PROVE  IInv'
    <3>1. Answers(k, i, fd, r)
      BY <1>3, <1>12, <2>1, <2>2, <2>4, <2>5, Zenon DEF Answers
    <3> QED BY <2>5, <3>1, QuietAnswerInv, Zenon
  <2>6. CASE m = Rest /\ UNCHANGED <<tables, to_client>>
    <3>1. PICK t : Reads(k, t)
      BY <2>4, <2>6, Zenon
    <3> QED BY <2>6, <3>1, StillInv, Zenon
  <2>7. CASE m.type = "TCP_REGISTER" /\ handle_register(i, m)
    <3>1. \A j \in ClientSlot : clients'[j].fd \in {clients[j].fd, NoFd}
      BY <1>2, <2>7, SMT, SMTT(20) DEF handle_register, TypeOK
    <3>2. Reads(k, Tail(to_server[fd]))
      BY <2>3, <3>1, Zenon
    <3>3. Turn(k, i, fd, m)
      BY <1>3, <1>4, <1>12, <2>1, <3>2, Zenon DEF Turn
    <3> QED BY <1>12, <2>7, <3>3, RegisterInv, Zenon
  <2>8. CASE m.type = "TCP_SHARE_FILE" /\ handle_share_file(i, m)
    <3>1. CASE FileTableFull
      <4>1. PICK r : r = tcp_error("ERR_INVALID_MSG")
        BY Zenon
      <4>2. r \in Reply /\ Harmless(r) /\ r.type = "TCP_ERROR"
        BY <4>1, Zenon DEF tcp_error, Reply, Harmless
      <4>3. send_response(i, r) /\ UNCHANGED tables
        BY <2>8, <3>1, <4>1, Zenon DEF handle_share_file
      <4>4. m # Rest
        BY <2>8, Zenon
      <4> QED BY <2>5, <4>2, <4>3, <4>4, Zenon
    <3>2. CASE ~ FileTableFull
      <4>1. /\ files' = files \cup {new_file_entry(i, m)}
            /\ next_file_id' = next_file_id + 1
            /\ send_response(i, [type    |-> "TCP_SHARE_ACK",
                                 file_id |-> new_file_entry(i, m).file_id])
            /\ UNCHANGED <<clients, num_clients, next_client_id>>
        BY <2>8, <3>2, Zenon DEF handle_share_file
      <4>2. Reads(k, Tail(to_server[fd]))
        BY <2>3, <4>1, Zenon
      <4>3. Turn(k, i, fd, m)
        BY <1>3, <1>4, <1>12, <2>1, <4>2, Zenon DEF Turn
      <4> QED BY <1>12, <2>8, <3>2, <4>1, <4>3, ShareInv, Zenon
    <3> QED BY <3>1, <3>2, Zenon
  <2>9. CASE m.type = "TCP_LIST_FILES" /\ handle_list_files(i)
    <3>1. PICK r : r = [type |-> "TCP_FILE_LIST", infos |-> files]
      BY Zenon
    <3>2. r \in Reply /\ Harmless(r) /\ (m = request[fd] => Expected(fd, r))
      BY <1>2, <2>9, <3>1, Zenon
         DEF TypeOK, Reply, Harmless, Expected, ListReply
    <3>3. send_response(i, r) /\ UNCHANGED tables /\ m # Rest
      BY <2>9, <3>1, Zenon DEF handle_list_files
    <3> QED BY <2>5, <3>2, <3>3, Zenon
  <2>10. CASE m.type = "TCP_REQUEST_FILE" /\ handle_request_file(i, m)
    <3>1. m.file_id \in Nat
      BY <2>2, <2>10, Zenon DEF Request
    <3>2. PICK r : r = request_reply(i, m.file_id)
      BY Zenon
    <3>3. /\ r \in Reply /\ Harmless(r)
          /\ \/ r.type = "TCP_ERROR"
             \/ r.type = "TCP_FILE_LOCATION" /\ r.file_id = m.file_id
      BY <3>1, <3>2, RequestFacts, Zenon
    <3>4. m = request[fd] => r.type = "TCP_ERROR" \/ Expected(fd, r)
      BY <2>10, <3>3, Zenon DEF Expected, LocationReply
    <3>5. send_response(i, r) /\ UNCHANGED tables /\ m # Rest
      BY <2>10, <3>2, Zenon DEF handle_request_file
    <3> QED BY <2>5, <3>3, <3>4, <3>5, Zenon
  <2>11. CASE m.type = "TCP_UNREGISTER" /\ handle_unregister(i)
    <3>1. PeerClosed(fd)
      <4>1. request[fd].type # "TCP_UNREGISTER" \/ pc[fd] # "waiting"
        BY Zenon DEF IInv, Asked, Asks
      <4> QED BY <1>4, <1>12, <2>1, <2>11, <4>1, ServeFacts, Zenon
    <3> QED BY <1>10, <1>12, <2>1, <2>2, <2>11, <3>1, Zenon
               DEF handle_unregister
  <2> QED BY <2>2, <2>6, <2>7, <2>8, <2>9, <2>10, <2>11, Zenon
             DEF process_client_message
<1>13. \A i \in find_client_by_fd(fd) : i \in ClientSlot /\ clients[i].fd = fd
  BY Zenon DEF find_client_by_fd, FirstSlot
<1> QED BY <1>1, <1>3, <1>8, <1>9, <1>11, <1>12, <1>13, Zenon
=============================================================================
