------------------------- MODULE FileSharingProofs --------------------------
(***************************************************************************)
(* The theorems about FileSharing, for any number of clients, slots, files *)
(* and shares: the inductive invariant, what it says, and the refinement   *)
(* of Directory.                                                           *)
(***************************************************************************)
EXTENDS FileSharingHandlers, FileSharingSteps, FiniteSetTheorems

-----------------------------------------------------------------------------
(* A client reads its reply *)

\* A client's own table has room for every file it is told it shares: the
\* server's table, which has them all, is not larger.
LEMMA TableRoom ==
  ASSUME IInv, NEW c \in Client, NEW m \in Range(to_client[c]),
         m.type = "TCP_SHARE_ACK"
  PROVE  /\ Cardinality(table[c]) \in Nat
         /\ Cardinality(table[c]) < MAX_SHARED_FILES
<1> DEFINE new == [file_id |-> m.file_id, hash |-> request[c].hash]
           T == table[c] \cup {new}
<1> USE DEF IInv
<1>1. pc[c] = "waiting"
  BY MessageFacts, Zenon DEF RepliesInStep, Range
<1>2. ASSUME NEW e \in T
      PROVE  \E f \in files : f.file_id = e.file_id /\ f.hash = e.hash
  <2>1. Owned(c, e.file_id, e.hash)
    BY <1>1, <1>2 DEF Served, Offers
  <2> QED BY <2>1, Zenon DEF Owned
<1>3. ASSUME NEW e \in T
      PROVE  e = [file_id |-> e.file_id, hash |-> e.hash]
  <2>1. table[c] \subseteq [file_id : Nat, hash : Hash]
    BY Zenon DEF TypeOK
  <2> QED BY <1>3, <2>1, Zenon
<1> DEFINE g == [e \in T |-> CHOOSE f \in files : f.file_id = e.file_id /\ f.hash = e.hash]
<1>4. \A e \in T : g[e] \in files /\ g[e].file_id = e.file_id /\ g[e].hash = e.hash
  BY <1>2, Zenon
<1>5. g \in Injection(T, files)
  <2>1. g \in [T -> files]
    BY <1>4, Zenon
  <2>2. ASSUME NEW a \in T, NEW b \in T, g[a] = g[b] PROVE a = b
    <3> HIDE DEF g, T
    <3> QED BY <1>3, <1>4, <2>2
  <2> HIDE DEF g, T
  <2> QED BY <2>1, <2>2, Zenon DEF Injection, IsInjective
<1> HIDE DEF g
<1>6. IsFiniteSet(files)
  BY Zenon DEF Fresh
<1>7. IsFiniteSet(T) /\ Cardinality(T) <= Cardinality(files)
  BY <1>5, <1>6, FS_Injection, Zenon
<1>8. new \notin table[c]
  BY Zenon DEF Unclaimed
<1>9. IsFiniteSet(table[c])
  BY <1>7, FS_Subset
<1>10. Cardinality(T) = Cardinality(table[c]) + 1
  BY <1>8, <1>9, FS_AddElement, Zenon
<1>11. Cardinality(table[c]) \in Nat /\ Cardinality(files) \in Nat
  BY <1>6, <1>9, FS_CardinalityType, Zenon
<1>12. Cardinality(files) <= MAX_FILES
  BY Zenon DEF TypeOK
<1> HIDE DEF T, IInv
<1> QED BY <1>7, <1>10, <1>11, <1>12, ServerAssumption, ClientAssumption

\* A client that reads the reply it waits for preserves the invariant.
LEMMA GoodReplyInv ==
  ASSUME IInv, NEW c \in Client, GoodReply(c)
  PROVE  IInv'
<1> USE ServerAssumption, MessageFacts DEF IInv
<1> DEFINE s == to_client[c]
           m == Head(s)
           S == Reply \cup {EOF}
           new == [file_id |-> m.file_id, hash |-> request[c].hash]
<1>1. /\ pc[c] = "waiting" /\ s # <<>> /\ Expected(c, m)
      /\ pc'[c] = "ready" /\ request'[c] = NoRequest /\ to_client'[c] = Tail(s)
      /\ \A d \in Client \ {c} : /\ pc'[d] = pc[d]
                                 /\ request'[d] = request[d]
                                 /\ to_client'[d] = to_client[d]
      /\ UNCHANGED <<clients, num_clients, next_client_id, files, next_file_id,
                     todo, running, backlog, to_server>>
  BY Zenon DEF GoodReply, TypeOK, tables
<1>2. /\ s \in Seq(S) /\ m \in Range(s) /\ m \in S
      /\ m = s[1] /\ 1 \in DOMAIN s
      /\ Tail(s) \in Seq(S) /\ Range(Tail(s)) \subseteq Range(s)
      /\ Range(s) \subseteq {m} \cup Range(Tail(s))
  <2>1. s \in Seq(S) /\ s # <<>>
    BY <1>1, TypeFacts, Zenon
  <2> HIDE DEF s, S
  <2> QED BY <2>1, TailFacts, Zenon
<1>3. m # EOF
  BY <1>1, Zenon
     DEF Expected, RegisterReply, ShareReply, ListReply, LocationReply
<1>4. to_server[c] = <<>>
  BY <1>2, <1>3, Zenon DEF RepliesInStep
<1>5. \A k \in DOMAIN Tail(s) : Tail(s)[k] = EOF
  <2> SUFFICES ASSUME NEW k \in DOMAIN Tail(s) PROVE Tail(s)[k] = EOF
    BY Zenon
  <2>1. k + 1 \in DOMAIN s /\ Tail(s)[k] = s[k + 1] /\ k + 1 # 1
    <3>1. s \in Seq(S) /\ s # <<>>
      BY <1>1, <1>2, Zenon
    <3> HIDE DEF s, S, IInv
    <3> QED BY <3>1
  <2> QED BY <2>1, Zenon DEF RepliesInStep
<1>6. Range(Tail(s)) \subseteq {EOF}
  BY <1>5, Zenon DEF Range
<1>7. /\ \A n \in Range(to_client'[c]) : n = EOF /\ n \in Range(s) /\ n.type = "EOF"
      /\ \A n \in Range(s) : n = m \/ n = EOF
  BY <1>1, <1>2, <1>6, Zenon
<1>8. \/ /\ ShareReply(c, m)
         /\ table' = [table EXCEPT ![c] = @ \cup {new}]
      \/ /\ ~ ShareReply(c, m)
         /\ table' = table
  <2>1. CASE ShareReply(c, m)
    <3>1. /\ Cardinality(table[c]) \in Nat
          /\ Cardinality(table[c]) < MAX_SHARED_FILES
      BY <1>2, <2>1, TableRoom, Zenon DEF ShareReply
    <3>2. ~ (Cardinality(table[c]) >= MAX_SHARED_FILES)
      BY <3>1, ClientAssumption
    <3> QED BY <2>1, <3>2, Zenon DEF GoodReply, add_shared_file
  <2>2. CASE ~ ShareReply(c, m)
    BY <2>2, Zenon DEF GoodReply
  <2> QED BY <2>1, <2>2, Zenon
<1>9. ShareReply(c, m) => /\ m.type = "TCP_SHARE_ACK" /\ m.file_id \in Nat
                          /\ m = [type |-> "TCP_SHARE_ACK", file_id |-> m.file_id]
                          /\ request[c].type = "TCP_SHARE_FILE"
                          /\ request[c].hash \in Hash
  <2>1. request[c] \in Request \cup {NoRequest}
    BY Zenon DEF TypeOK
  <2>2. request[c].type = "TCP_SHARE_FILE" => request[c].hash \in Hash
    BY <2>1, Zenon DEF Request, NoRequest
  <2> QED BY <1>2, <2>2, ReplyFacts, Zenon DEF ShareReply
<1>10. m.type = "TCP_SHARE_ACK" => ShareReply(c, m)
  BY <1>1, Zenon
     DEF Expected, RegisterReply, ShareReply, ListReply, LocationReply
<1>11. /\ \A d \in Client \ {c} : table'[d] = table[d]
       /\ \A e \in table[c] : e \in table'[c]
       /\ \A e \in table'[c] : e \in table[c] \/ (ShareReply(c, m) /\ e = new)
       /\ ShareReply(c, m) => new \in table'[c]
  BY <1>8 DEF TypeOK
<1> HIDE DEF s, m, S
<1>12. TypeOK'
  <2>1. table' \in [Client -> SUBSET [file_id : Nat, hash : Hash]]
    <3> DEFINE E == [file_id : Nat, hash : Hash]
    <3>1. table \in [Client -> SUBSET E] /\ (ShareReply(c, m) => new \in E)
      BY <1>9, Zenon DEF TypeOK
    <3> HIDE DEF new, E, IInv
    <3>2. ShareReply(c, m) => table[c] \cup {new} \in SUBSET E
      BY <3>1, Zenon
    <3>3. table' \in [Client -> SUBSET E]
      BY <1>8, <3>1, <3>2, Zenon
    <3> QED BY <3>3, Zenon DEF E
  <2>2. to_client' \in [Client -> Seq(Reply \cup {EOF})]
    <3>1. to_client' = [to_client EXCEPT ![c] = to_client'[c]]
      BY Zenon DEF GoodReply, TypeOK
    <3>2. to_client'[c] \in Seq(Reply \cup {EOF})
      BY <1>1, <1>2, Zenon DEF S
    <3> QED BY <3>1, <3>2, Zenon DEF TypeOK
  <2> QED BY <1>1, <2>1, <2>2, Zenon DEF TypeOK, GoodReply
<1>13. Wired'
  BY <1>1, TypeFacts DEF Wired
<1>14. Asked'
  <2>1. \A d \in Client : (Connected(d)' <=> Connected(d)) /\ (PeerClosed(d)' <=> PeerClosed(d))
    BY <1>1, Zenon DEF Connected, PeerClosed
  <2>2. Asks(c)'
    BY <1>1, <1>4, <2>1, Zenon DEF Asked, Asks
  <2>3. ASSUME NEW d \in Client \ {c} PROVE Asks(d)'
    BY <1>1, <2>1, Zenon DEF Asked, Asks
  <2> QED BY <2>2, <2>3, Zenon DEF Asked
<1>15. Activity'
  <2>1. ASSUME NEW i \in ClientSlot PROVE SlotActivity(i)'
    BY <1>1, TypeFacts, ZenonT(30) DEF Activity, SlotActivity, Wired
  <2>2. ASSUME NEW d \in Client, Acknowledged(d)' PROVE HasSlot(d)'
    <3>1. Acknowledged(c)
      BY <1>1, <1>2, Zenon
         DEF Acknowledged, Registered, Expected, RegisterReply, ShareReply,
             ListReply, LocationReply, s
    <3>2. d # c => Acknowledged(d)
      BY <1>1, <2>2, Zenon DEF Acknowledged, Registered
    <3> QED BY <1>1, <3>1, <3>2, Zenon DEF Activity, HasSlot
  <2> QED BY <1>1, <2>1, <2>2, Zenon DEF Activity
<1>16. Open'
  <2>1. \A d \in Client : Range(to_client'[d]) \subseteq Range(to_client[d])
    BY <1>1, <1>7, Zenon DEF s
  <2> QED BY <1>1, <2>1, Zenon DEF Open, Connected
<1>17. Round'
  BY <1>1, Zenon DEF Round
<1>18. RepliesInStep'
  <2> SUFFICES ASSUME NEW d \in Client, NEW k \in DOMAIN to_client'[d],
                      to_client'[d][k] # EOF
               PROVE  /\ k = 1 /\ pc'[d] = "waiting" /\ to_server'[d] = <<>>
                      /\ to_client'[d][k].type = "TCP_ERROR"
                         \/ Expected(d, to_client[d][k])'
    BY
       DEF RepliesInStep, Expected, RegisterReply, ShareReply, ListReply,
           LocationReply
  <2>1. d # c
    BY <1>1, <1>5, Zenon
  <2> QED BY <1>1, <2>1
      DEF RepliesInStep, Expected, RegisterReply, ShareReply, ListReply, LocationReply
<1>19. Fresh'
  <2>1. \A d \in Client : \A e \in table'[d] : e.file_id < next_file_id
    <3>1. ShareReply(c, m) => m.file_id < next_file_id
      BY <1>2, <1>9, Zenon DEF Fresh, s
    <3>2. \A d \in Client : \A e \in table[d] : e.file_id < next_file_id
      BY Zenon DEF Fresh
    <3>3. \A d \in Client : \A e \in table'[d] : e \in table[d] \/ (ShareReply(c, m) /\ e = new)
      BY <1>11, Zenon
    <3> HIDE DEF IInv
    <3> QED BY <3>1, <3>2, <3>3, SMT, SMTT(20)
  <2>2. \A d \in Client : \A n \in Range(to_client'[d]) :
          n.type = "TCP_SHARE_ACK" => n.file_id < next_file_id
    BY <1>1, <1>7, Zenon DEF Fresh
  <2> QED BY <1>1, <2>1, <2>2, Zenon DEF Fresh
<1>20. TablesConsistent'
  BY <1>1, Zenon DEF TablesConsistent
<1>21. ShareReply(c, m) =>
         /\ \A d \in Client : \A e \in table[d] : e.file_id # m.file_id
         /\ \A d \in Client : \A n \in Range(to_client[d]) :
              n.type = "TCP_SHARE_ACK" /\ n.file_id = m.file_id => c = d
  BY <1>2, <1>9 DEF Unclaimed, s
<1>22. FileIdsNeverReused'
  <2> SUFFICES ASSUME NEW a \in Client, NEW b \in Client,
                      NEW e \in table'[a], NEW g \in table'[b], e.file_id = g.file_id
               PROVE  a = b /\ e = g
    BY Zenon DEF FileIdsNeverReused
  <2>1. e \in table[a] \/ (ShareReply(c, m) /\ a = c /\ e = new)
    BY <1>11, Zenon
  <2>2. g \in table[b] \/ (ShareReply(c, m) /\ b = c /\ g = new)
    BY <1>11, Zenon
  <2>3. e \in table[a] /\ g \in table[b] => a = b /\ e = g
    BY DEF FileIdsNeverReused
  <2>4. ShareReply(c, m) => /\ \A x \in table[a] : x.file_id # m.file_id
                            /\ \A x \in table[b] : x.file_id # m.file_id
    BY <1>21, Zenon
  <2> HIDE DEF IInv
  <2> QED BY <2>1, <2>2, <2>3, <2>4, SMT, SMTT(20)
<1>23. Unclaimed'
  <2> SUFFICES ASSUME NEW a \in Client, NEW d \in Client,
                      NEW n \in Range(to_client'[a]), n.type = "TCP_SHARE_ACK"
               PROVE  /\ \A e \in table'[d] : e.file_id # n.file_id
                      /\ \A o \in Range(to_client'[d]) :
                           o.type = "TCP_SHARE_ACK" /\ o.file_id = n.file_id => a = d
    BY Zenon DEF Unclaimed
  <2>1. a # c /\ n \in Range(to_client[a])
    BY <1>1, <1>7, Zenon
  <2>2. \A e \in table'[d] : e \in table[d] \/ (ShareReply(c, m) /\ e = new)
    BY <1>11, Zenon
  <2>3. \A e \in table[d] : e.file_id # n.file_id
    BY <2>1, Zenon DEF Unclaimed
  <2>4. ShareReply(c, m) => n.file_id # m.file_id
    BY <1>21, <2>1, Zenon
  <2>5. \A o \in Range(to_client'[d]) : o.type = "TCP_SHARE_ACK" => o \in Range(to_client[d])
    BY <1>1, <1>7, Zenon
  <2>6. \A e \in table'[d] : e.file_id # n.file_id
    <3> HIDE DEF IInv
    <3> QED BY <2>2, <2>3, <2>4, SMT, SMTT(20)
  <2>7. \A o \in Range(to_client[d]) :
          o.type = "TCP_SHARE_ACK" /\ o.file_id = n.file_id => a = d
    BY <2>1, Zenon DEF Unclaimed
  <2> QED BY <2>5, <2>6, <2>7, Zenon
<1>24. ASSUME NEW p \in Client, NEW id, NEW h, Serves(p, id, h) PROVE Serves(p, id, h)'
  <2>1. CASE p = c
    <3>1. CASE [file_id |-> id, hash |-> h] \in table[c]
      BY <1>11, <2>1, <3>1, Zenon DEF Serves
    <3>2. CASE /\ request[c] = [type |-> "TCP_SHARE_FILE", hash |-> h]
               /\ [type |-> "TCP_SHARE_ACK", file_id |-> id] \in Range(s)
      <4>1. m = [type |-> "TCP_SHARE_ACK", file_id |-> id]
        BY <1>7, <3>2, Zenon DEF EOF
      <4>2. new = [file_id |-> id, hash |-> h] /\ ShareReply(c, m)
        BY <1>10, <3>2, <4>1
      <4> QED BY <1>11, <2>1, <4>2, Zenon DEF Serves
    <3> QED BY <1>24, <2>1, <3>1, <3>2, Zenon DEF Serves, s
  <2>2. CASE p # c
    BY <1>1, <1>11, <1>24, <2>2, Zenon DEF Serves
  <2> QED BY <2>1, <2>2, Zenon
<1>25. Served'
  <2>1. ASSUME NEW d \in Client, NEW id, NEW h PROVE Owned(d, id, h)' <=> Owned(d, id, h)
    BY <1>1, Zenon DEF Owned
  <2>2. Offers(c)'
    <3>1. ShareReply(c, m) => Owned(c, new.file_id, new.hash)
      BY <1>1, <1>2, <1>9, Zenon DEF Served, Offers, s
    <3>2. \A e \in table'[c] : Owned(c, e.file_id, e.hash)
      BY <1>1, <1>11, <3>1, Zenon DEF Served, Offers
    <3> QED BY <1>7, <2>1, <3>2, ZenonT(30) DEF Offers
  <2>3. ASSUME NEW d \in Client \ {c} PROVE Offers(d)'
    BY <1>1, <1>11, <2>1, Zenon DEF Served, Offers
  <2>4. ASSUME NEW f \in files, NEW i \in ClientSlot PROVE Listed(f, i)'
    <3>1. clients[i].active => clients[i].fd \in Client
      BY TypeFacts, Zenon DEF Wired
    <3>2. Listed(f, i)
      BY Zenon DEF Served
    <3> QED BY <1>1, <1>24, <3>1, <3>2, Zenon DEF Listed
  <2> QED BY <1>1, <2>2, <2>3, <2>4, Zenon DEF Served
<1>26. LocationLeadsToOwner'
  <2>1. \A d \in Client : Range(to_client'[d]) \subseteq Range(to_client[d])
    BY <1>1, <1>7, Zenon DEF s
  <2> QED BY <1>1, <1>24, <2>1, ReplyFacts, ZenonT(30) DEF LocationLeadsToOwner
<1> QED BY <1>12, <1>13, <1>14, <1>15, <1>16, <1>17, <1>18, <1>19, <1>20,
           <1>22, <1>23, <1>25, <1>26, Zenon

\* Every step of a client preserves the invariant.
LEMMA ClientInv ==
  ASSUME IInv, NEW c \in Client, ClientStep(c)
  PROVE  IInv'
<1> USE ServerAssumption, ClientAssumption
<1>1. CASE Connect(c)
  BY <1>1, ConnectInv, Zenon
<1>2. ASSUME NEW m, MayAsk(c, m), Ask(c, m) PROVE IInv'
  BY <1>2, AskInv, Zenon
<1>3. CASE Register(c)
  <2>1. PICK m : m = [type |-> "TCP_REGISTER", udp_port |-> c]
    BY Zenon
  <2>2. MayAsk(c, m) /\ Ask(c, m)
    BY <1>3, <2>1, Zenon DEF Register, MayAsk, Request
  <2> QED BY <1>2, <2>2, Zenon
<1>4. CASE share(c)
  <2>1. PICK h \in Hash : Ask(c, [type |-> "TCP_SHARE_FILE", hash |-> h])
    BY <1>4, Zenon DEF share
  <2>2. MayAsk(c, [type |-> "TCP_SHARE_FILE", hash |-> h])
    BY <1>4, Zenon DEF share, MayAsk, Request
  <2> QED BY <1>2, <2>1, <2>2, Zenon
<1>5. CASE list(c)
  <2>1. MayAsk(c, [type |-> "TCP_LIST_FILES"])
    BY <1>5, Zenon DEF list, MayAsk, Request
  <2> QED BY <1>2, <1>5, <2>1, Zenon DEF list
<1>6. CASE get(c)
  <2>1. PICK id \in 1 .. MaxShares : Ask(c, [type |-> "TCP_REQUEST_FILE", file_id |-> id])
    BY <1>6, Zenon DEF get
  <2>2. MayAsk(c, [type |-> "TCP_REQUEST_FILE", file_id |-> id])
    BY <1>6 DEF get, MayAsk, Request
  <2> QED BY <1>2, <2>1, <2>2, Zenon
<1>7. CASE share_unreadable(c) \/ quit(c) \/ Crash(c) \/ BadReply(c)
  <2>1. Departs(c)
    BY <1>7, Zenon DEF share_unreadable, quit, Crash, BadReply, Departs
  <2> QED BY <2>1, DepartInv, Zenon
<1>8. CASE GoodReply(c)
  BY <1>8, GoodReplyInv, Zenon
<1> QED BY <1>1, <1>3, <1>4, <1>5, <1>6, <1>7, <1>8, Zenon DEF ClientStep

-----------------------------------------------------------------------------
(* Beginning, and nothing at all *)

\* Nobody is connected and nothing is shared when the server starts.
LEMMA InitInv == Init => IInv
<1> USE ServerAssumption, ClientAssumption, EmptyFacts
<1> SUFFICES ASSUME Init PROVE IInv
  BY Zenon
<1>1. /\ \A i \in ClientSlot : clients[i].fd = NoFd /\ ~ clients[i].active
      /\ files = {} /\ backlog = <<>> /\ DOMAIN todo = {} /\ DOMAIN backlog = {}
      /\ \A c \in Client : /\ to_server[c] = <<>> /\ to_client[c] = <<>>
                           /\ pc[c] = "start" /\ table[c] = {}
      /\ num_clients = 0
  BY DEF Init, ServerInit
<1>2. Cardinality({i \in ClientSlot : clients[i].active}) = 0
  <2>1. {i \in ClientSlot : clients[i].active} = {}
    BY <1>1, Zenon
  <2> QED BY <2>1, FS_EmptySet, Zenon
<1>3. IsFiniteSet(files) /\ Cardinality(files) = 0
  BY <1>1, FS_EmptySet, Zenon
<1>4. TypeOK
  <2>1. clients \in [ClientSlot -> [fd : Client \cup {NoFd}, client_id : Nat,
                                    addr : Client \cup {NoFd},
                                    udp_port : Client \cup {NoFd}, active : BOOLEAN]]
    BY Zenon DEF Init, ServerInit
  <2>2. /\ num_clients \in 0 .. MAX_CLIENTS /\ next_client_id \in Nat /\ next_file_id \in Nat
        /\ files \subseteq FileEntry /\ Cardinality(files) <= MAX_FILES
        /\ todo \in [DOMAIN todo -> Client] /\ DOMAIN todo \subseteq ClientSlot
        /\ backlog \in Seq(Client) /\ running \in BOOLEAN
    BY <1>1, <1>3 DEF Init, ServerInit
  <2>3. /\ to_server \in [Client -> Seq(Request \cup {EOF})]
        /\ to_client \in [Client -> Seq(Reply \cup {EOF})]
        /\ pc \in [Client -> {"start", "connected", "waiting", "ready", "gone"}]
        /\ request \in [Client -> Request \cup {NoRequest}]
        /\ table \in [Client -> SUBSET [file_id : Nat, hash : Hash]]
    BY Zenon DEF Init, ServerInit
  <2> QED BY <2>1, <2>2, <2>3, Zenon DEF TypeOK
<1>5. Wired /\ Round /\ TablesConsistent
  BY <1>1, <1>2, Zenon DEF Wired, Round, TablesConsistent
<1>6. Asked
  BY <1>1, Zenon DEF Asked, Asks, Connected
<1>7. Activity
  BY <1>1, Zenon DEF Activity, SlotActivity, Acknowledged, Registered
<1>8. Open /\ RepliesInStep /\ Unclaimed /\ LocationLeadsToOwner /\ FileIdsNeverReused
  BY <1>1, Zenon
     DEF Open, RepliesInStep, Unclaimed, LocationLeadsToOwner,
         FileIdsNeverReused
<1>9. Fresh /\ Served
  BY <1>1, <1>3, Zenon DEF Fresh, Served, Offers, Listed
<1> QED BY <1>4, <1>5, <1>6, <1>7, <1>8, <1>9, Zenon DEF IInv

\* A step that changes nothing.
LEMMA StutterInv == IInv /\ UNCHANGED vars => IInv'
<1> SUFFICES ASSUME IInv, UNCHANGED vars PROVE IInv'
  BY Zenon
<1> USE DEF vars, serverVars, clientVars, tables
<1>1a. TypeOK'
  BY Zenon DEF IInv, TypeOK
<1>1b. Wired' /\ Round'
  BY Zenon DEF IInv, Wired, Round
<1>1c. TablesConsistent' /\ Fresh'
  BY Zenon DEF IInv, TablesConsistent, Fresh
<1>2. Asked' /\ Activity' /\ Open'
  BY ZenonT(30)
     DEF IInv, Asked, Asks, Connected, PeerClosed, Activity, SlotActivity,
         Acknowledged,
         Registered, HasSlot, Open
<1>3. RepliesInStep' /\ FileIdsNeverReused' /\ Unclaimed' /\ LocationLeadsToOwner'
  BY
     DEF IInv, RepliesInStep, Expected, RegisterReply, ShareReply, ListReply,
         LocationReply,
         FileIdsNeverReused, Unclaimed, LocationLeadsToOwner, Serves
<1>4. Served'
  BY ZenonT(30) DEF IInv, Served, Offers, Owned, Listed, Serves
<1> QED BY <1>1a, <1>1b, <1>1c, <1>2, <1>3, <1>4, Zenon DEF IInv

-----------------------------------------------------------------------------
(* The inductive invariant, and what it says *)

\* The facts about cardinalities that the table lemmas take as a hypothesis.
LEMMA CountingHolds == Counting
<1>1. \A S : IsFiniteSet(S) => Cardinality(S) \in Nat
  BY FS_CardinalityType, Zenon
<1>2. IsFiniteSet(ClientSlot) /\ Cardinality(ClientSlot) = MAX_CLIENTS
  BY FS_Interval, ServerAssumption DEF ClientSlot
<1>3. ASSUME NEW S, NEW x, IsFiniteSet(S), x \notin S
      PROVE  IsFiniteSet(S \cup {x}) /\ Cardinality(S \cup {x}) = Cardinality(S) + 1
  BY <1>3, FS_AddElement, Zenon
<1>4. ASSUME NEW S, NEW x, IsFiniteSet(S), x \in S
      PROVE  IsFiniteSet(S \ {x}) /\ Cardinality(S \ {x}) = Cardinality(S) - 1
  BY <1>4, FS_RemoveElement, Zenon
<1>5. ASSUME NEW S, NEW T \in SUBSET S, IsFiniteSet(S)
      PROVE  IsFiniteSet(T) /\ Cardinality(T) <= Cardinality(S)
  BY <1>5, FS_Subset, Zenon
<1> QED BY <1>1, <1>2, <1>3, <1>4, <1>5, Zenon DEF Counting

\* The invariant holds in every state of every run.
THEOREM Invariance == Spec => []IInv
<1>1. IInv /\ [Next]_vars => IInv'
  <2> SUFFICES ASSUME IInv, [Next]_vars PROVE IInv'
    BY Zenon
  <2>1. CASE Poll /\ UNCHANGED clientVars
    BY <2>1, PollInv, Zenon
  <2>2. CASE Serve /\ UNCHANGED clientVars
    BY <2>2, ServeInv, CountingHolds, Zenon
  <2>3. CASE Shutdown /\ UNCHANGED clientVars
    BY <2>3, ShutdownInv, Zenon
  <2>4. ASSUME NEW c \in Client, ClientStep(c) PROVE IInv'
    BY <2>4, ClientInv, Zenon
  <2>5. CASE UNCHANGED vars
    BY <2>5, StutterInv, Zenon
  <2> QED BY <2>1, <2>2, <2>3, <2>4, <2>5, Zenon DEF Next
<1> QED BY <1>1, InitInv, PTL DEF Spec

\* The variables keep their types, and no reply is ever ERR_NO_PEERS.
THEOREM TypeCorrect == Spec => []TypeOK
<1>1. IInv => TypeOK
  BY Zenon DEF IInv
<1> QED BY <1>1, Invariance, PTL

\* The tables of the server agree with each other.
THEOREM Consistency == Spec => []TablesConsistent
<1>1. IInv => TablesConsistent
  BY Zenon DEF IInv
<1> QED BY <1>1, Invariance, PTL

\* Nobody loses the slot of a registration that has been acknowledged.
THEOREM SlotsAreKept == Spec => []RegisteredKeepsSlot
<1>1. IInv => RegisteredKeepsSlot
  BY Zenon DEF IInv, Activity, Acknowledged, HasSlot, RegisteredKeepsSlot
<1> QED BY <1>1, Invariance, PTL

\* A file id never comes to name a second file.
THEOREM FileIdsUnique == Spec => []FileIdsNeverReused
<1>1. IInv => FileIdsNeverReused
  BY Zenon DEF IInv
<1> QED BY <1>1, Invariance, PTL

\* Requests and replies never get out of step.
THEOREM InStep == Spec => []RepliesInStep
<1>1. IInv => RepliesInStep
  BY Zenon DEF IInv
<1> QED BY <1>1, Invariance, PTL

\* The owner of a listed file serves it whenever it is in its event loop.
THEOREM ListingsHold == Spec => []ListedIsServed
<1>1. IInv => ListedIsServed
  <2> SUFFICES ASSUME IInv, NEW f \in files, NEW i \in ClientSlot, clients[i].active,
                      clients[i].client_id = f.owner_id, pc[clients[i].fd] = "ready"
               PROVE  [file_id |-> f.file_id, hash |-> f.hash] \in table[clients[i].fd]
    BY Zenon DEF ListedIsServed
  <2>1. Listed(f, i)
    BY Zenon DEF IInv, Served
  <2> QED BY <2>1, Zenon DEF Listed, Serves
<1> QED BY <1>1, Invariance, PTL

\* A TCP_FILE_LOCATION leads to a process that shared the file.
THEOREM LocationsHold == Spec => []LocationLeadsToOwner
<1>1. IInv => LocationLeadsToOwner
  BY Zenon DEF IInv
<1> QED BY <1>1, Invariance, PTL

-----------------------------------------------------------------------------
(* The refinement of Directory: every step asks, joins, publishes, tells, is
   read by its client, leaves, or changes nothing of the directory *)

\* Only a client that waits has a question.
Quiet == \A c \in Client : pc[c] # "waiting" => request[c] = NoRequest

\* A step keeps it so: whoever stops waiting forgets the question.
LEMMA QuietStep ==
  ASSUME TypeOK, Quiet, [Next]_vars
  PROVE  Quiet'
<1>1. /\ pc \in [Client -> {"start", "connected", "waiting", "ready", "gone"}]
      /\ request \in [Client -> Request \cup {NoRequest}]
  BY Zenon DEF TypeOK
<1>2. CASE UNCHANGED clientVars
  BY <1>2, Zenon DEF Quiet, clientVars
<1>3. ASSUME NEW c \in Client, ClientStep(c)
      PROVE  Quiet'
  <2>1. CASE \E m : Ask(c, m)
    BY <1>1, <2>1, Zenon DEF Quiet, Ask
  <2>2. CASE request' = [request EXCEPT ![c] = NoRequest] /\ \E p : pc' = [pc EXCEPT ![c] = p]
    BY <1>1, <2>2, Zenon DEF Quiet
  <2>3. CASE Connect(c)
    BY <1>1, <2>3, Zenon DEF Quiet, Connect
  <2> QED BY <1>3, <2>1, <2>2, <2>3, Zenon
             DEF ClientStep, Register, share, list, get, share_unreadable, quit,
                 Crash, Leave, BadReply, GoodReply
<1> QED BY <1>2, <1>3, Zenon DEF Next, vars

\* Only a client that waits has a question, in every reachable state.
THEOREM QuestionsAreAwaited == Spec => []Quiet
<1>1. Init => Quiet
  BY Zenon DEF Init, Quiet
<1>2. TypeOK /\ Quiet /\ [Next]_vars => Quiet'
  BY QuietStep, Zenon
<1> QED BY <1>1, <1>2, TypeCorrect, PTL DEF Spec

\* The replies the clients have yet to read.
Replies == [c \in Client |-> Unread(c)]

\* Nothing of the abstract directory changes.
Unseen ==
  /\ Member' = Member /\ Catalog' = Catalog
  /\ next_file_id' = next_file_id /\ Replies' = Replies
  /\ request' = request

\* A slot in use stays in use, by the same client under the same id.
SlotKept(j) ==
  clients[j].active => /\ clients'[j].active
                       /\ clients'[j].client_id = clients[j].client_id
                       /\ clients'[j].fd = clients[j].fd

-----------------------------------------------------------------------------
(* Members and their files *)

\* An id that is given out once chooses its slot.
LEMMA ChosenSlot ==
  ASSUME NEW T, NEW j \in ClientSlot, NEW id, T[j].active, T[j].client_id = id,
         \A i \in ClientSlot : T[i].active /\ T[i].client_id = id => i = j
  PROVE  (CHOOSE i \in ClientSlot : T[i].active /\ T[i].client_id = id) = j
BY Zenon

\* The process behind the id of a slot is the one connected to it.
LEMMA ProcessIs ==
  ASSUME TablesConsistent, NEW j \in ClientSlot, clients[j].active,
         NEW id, clients[j].client_id = id
  PROVE  Process(id) = clients[j].fd
<1>1. \A i \in ClientSlot : clients[i].active /\ clients[i].client_id = id => i = j
  BY Zenon DEF TablesConsistent
<1>2. (CHOOSE i \in ClientSlot : clients[i].active /\ clients[i].client_id = id) = j
  BY <1>1, ChosenSlot, Zenon
<1> QED BY <1>2, Zenon DEF Process

\* The same after the step.
LEMMA ProcessIsThen ==
  ASSUME TablesConsistent', NEW j \in ClientSlot, clients'[j].active,
         NEW id, clients'[j].client_id = id
  PROVE  Process(id)' = clients'[j].fd
<1>1. \A i \in ClientSlot : clients'[i].active /\ clients'[i].client_id = id => i = j
  BY Zenon DEF TablesConsistent
<1>2. (CHOOSE i \in ClientSlot : clients'[i].active /\ clients'[i].client_id = id) = j
  BY <1>1, ChosenSlot, Zenon
<1> QED BY <1>2, Zenon DEF Process

\* As long as its slot is kept, a file keeps its owner.
LEMMA OwnerKept ==
  ASSUME TablesConsistent, TablesConsistent', NEW f \in files, NEW j \in ClientSlot,
         clients[j].active, clients[j].client_id = f.owner_id, SlotKept(j)
  PROVE  Process(f.owner_id)' = Process(f.owner_id)
<1>1. PICK id : id = f.owner_id
  BY Zenon
<1>2. /\ clients'[j].active /\ clients'[j].client_id = id
      /\ clients'[j].fd = clients[j].fd
  BY <1>1, Zenon DEF SlotKept
<1>3. Process(id) = clients[j].fd
  BY <1>1, ProcessIs, Zenon
<1>4. Process(id)' = clients'[j].fd
  BY <1>2, ProcessIsThen, Zenon
<1> QED BY <1>1, <1>2, <1>3, <1>4, Zenon

\* The entry of the catalog for the file f.
EntryOf(f) == [file_id |-> f.file_id, hash |-> f.hash, owner |-> Process(f.owner_id)]

\* A step that keeps every slot in use keeps the catalog's entries.
LEMMA EntriesKept ==
  ASSUME TablesConsistent, TablesConsistent', \A j \in ClientSlot : SlotKept(j)
  PROVE  \A f \in files : EntryOf(f)' = EntryOf(f)
<1> SUFFICES ASSUME NEW f \in files PROVE EntryOf(f)' = EntryOf(f)
  BY Zenon
<1>1. PICK j \in ClientSlot : clients[j].active /\ clients[j].client_id = f.owner_id
  BY Zenon DEF TablesConsistent
<1>2. Process(f.owner_id)' = Process(f.owner_id)
  BY <1>1, OwnerKept, Zenon
<1> QED BY <1>2, Zenon DEF EntryOf

\* The catalog lists the files of the server's table.
LEMMA CatalogIs == Catalog = {EntryOf(f) : f \in files}
BY Zenon DEF Catalog, EntryOf

\* The same after a step.
LEMMA CatalogIsThen == Catalog' = {EntryOf(f)' : f \in files'}
BY Zenon DEF Catalog, EntryOf

\* The module of the abstract directory counts as this one does.
LEMMA SameCount == \A S : Abstract!Cardinality(S) = Cardinality(S)
BY Zenon DEF Cardinality, Abstract!Cardinality

\* The catalog has an entry for every file of the table, as no id is used twice.
LEMMA CatalogSize ==
  ASSUME IInv
  PROVE  Abstract!Cardinality(Catalog) = Cardinality(files)
<1> DEFINE b == [f \in files |-> EntryOf(f)]
<1>1. IsFiniteSet(files) /\ TablesConsistent
  BY Zenon DEF IInv, Fresh
<1>2. \A f \in files : EntryOf(f).file_id = f.file_id
  BY Zenon DEF EntryOf
<1>3. \A f, g \in files : EntryOf(f) = EntryOf(g) => f = g
  <2> SUFFICES ASSUME NEW f \in files, NEW g \in files, EntryOf(f) = EntryOf(g)
               PROVE  f = g
    BY Zenon
  <2>1. f.file_id = g.file_id
    BY <1>2, Zenon
  <2> QED BY <1>1, <2>1, Zenon DEF TablesConsistent
<1>4. b \in Bijection(files, Catalog)
  BY <1>3, CatalogIs, Zenon DEF Bijection, Injection, Surjection, IsInjective
<1>5. ExistsBijection(files, Catalog)
  BY <1>4, Zenon DEF ExistsBijection
<1>6. Cardinality(Catalog) = Cardinality(files)
  BY <1>1, <1>5, FS_Bijection, Zenon
<1> QED BY <1>6, SameCount, Zenon

\* A step that changes no table is not seen in members and catalog.
LEMMA TablesKept ==
  ASSUME TablesConsistent, TablesConsistent', files' = files,
         \A j \in ClientSlot : SlotKept(j),
         \A j \in ClientSlot : clients'[j].active => clients[j].active
  PROVE  Member' = Member /\ Catalog' = Catalog
<1>1. Member' = Member
  BY Zenon DEF Member, SlotKept
<1>2. \A f \in files : EntryOf(f)' = EntryOf(f)
  BY EntriesKept, Zenon
<1>3. Catalog' = Catalog
  BY <1>2, CatalogIs, CatalogIsThen, Zenon
<1> QED BY <1>1, <1>3, Zenon

-----------------------------------------------------------------------------
(* Replies *)

\* What a client has yet to read, as its stream grows or is emptied.
LEMMA UnreadFacts ==
  ASSUME TypeOK, NEW c \in Client
  PROVE  /\ to_client'[c] = to_client[c] => Unread(c)' = Unread(c)
         /\ to_client'[c] = Append(to_client[c], EOF) => Unread(c)' = Unread(c)
         /\ to_client'[c] = <<>> => Unread(c)' = NoFd
         /\ \A r \in Reply : to_client[c] = <<>> /\ to_client'[c] = Append(to_client[c], r)
                               => Unread(c)' = Meaning(r)
<1> DEFINE s == to_client[c]
           S == Reply \cup {EOF}
<1>1. s \in Seq(S)
  BY TypeFacts, Zenon
<1>2. /\ Append(s, EOF) # <<>>
      /\ s = <<>> => Head(Append(s, EOF)) = EOF
      /\ s # <<>> => Head(Append(s, EOF)) = Head(s)
  <2> HIDE DEF s, S
  <2>1. \A e : Append(s, e) # <<>> /\ (s = <<>> => Head(Append(s, e)) = e)
               /\ (s # <<>> => Head(Append(s, e)) = Head(s))
    BY <1>1
  <2> QED BY <2>1, Zenon
<1>3. \A r \in Reply : Append(<<>>, r) # <<>> /\ Head(Append(<<>>, r)) = r /\ r # EOF
  BY MessageFacts
<1>4. to_client'[c] = s => Unread(c)' = Unread(c)
  BY Zenon DEF Unread, Meaning
<1>5. to_client'[c] = Append(s, EOF) => Unread(c)' = Unread(c)
  BY <1>2, Zenon DEF Unread, Meaning
<1>6. to_client'[c] = <<>> => Unread(c)' = NoFd
  BY Zenon DEF Unread
<1>7. ASSUME NEW r \in Reply, s = <<>>, to_client'[c] = Append(s, r)
      PROVE  Unread(c)' = Meaning(r)
  BY <1>3, <1>7, Zenon DEF Unread
<1> QED BY <1>4, <1>5, <1>6, <1>7, Zenon

\* Nobody has a new reply.
LEMMA RepliesKept ==
  ASSUME \A c \in Client : Unread(c)' = Unread(c)
  PROVE  Replies' = Replies
BY Zenon DEF Replies

\* One client has.
LEMMA OneReply ==
  ASSUME NEW c \in Client, NEW r, Unread(c)' = r,
         \A d \in Client \ {c} : Unread(d)' = Unread(d)
  PROVE  Replies' = [Replies EXCEPT ![c] = r]
BY Zenon DEF Replies

\* send_response: the reply is what its client has yet to read, or is lost.
LEMMA Told ==
  ASSUME IInv, running, NEW i \in ClientSlot, NEW fd \in Client, clients[i].fd = fd,
         to_server[fd] # <<>>, NEW r \in Reply, send_response(i, r)
  PROVE  /\ ~ PeerClosed(fd) => Replies' = [Replies EXCEPT ![fd] = Meaning(r)]
         /\ PeerClosed(fd) => Replies' = Replies
<1>1. TypeOK /\ to_client \in [Client -> Seq(Reply \cup {EOF})]
  BY Zenon DEF IInv, TypeOK
<1>2. CASE PeerClosed(fd)
  <2>1. to_client' = to_client
    BY <1>2, Zenon DEF send_response
  <2>2. \A c \in Client : Unread(c)' = Unread(c)
    BY <1>1, <2>1, UnreadFacts, Zenon
  <2> QED BY <1>2, <2>2, RepliesKept, Zenon
<1>3. CASE ~ PeerClosed(fd)
  <2>1. to_client[fd] = <<>>
    BY <1>3, ServeFacts, Zenon
  <2>2. /\ to_client'[fd] = Append(to_client[fd], r)
        /\ \A d \in Client \ {fd} : to_client'[d] = to_client[d]
    BY <1>1, <1>3, Zenon DEF send_response
  <2>3. Unread(fd)' = Meaning(r)
    BY <1>1, <2>1, <2>2, UnreadFacts, Zenon
  <2>4. \A d \in Client \ {fd} : Unread(d)' = Unread(d)
    BY <1>1, <2>2, UnreadFacts, Zenon
  <2>5. Replies' = [Replies EXCEPT ![fd] = Meaning(r)]
    BY <2>3, <2>4, OneReply, Zenon
  <2> QED BY <1>3, <2>5, Zenon
<1> QED BY <1>2, <1>3, Zenon

\* Closing a connection is no reply.
LEMMA Closed ==
  ASSUME TypeOK, NEW i \in ClientSlot, NEW fd \in Client, clients[i].fd = fd,
         send_response(i, EOF)
  PROVE  Replies' = Replies
<1>1. to_client \in [Client -> Seq(Reply \cup {EOF})]
  BY Zenon DEF TypeOK
<1>2. \A d \in Client : \/ to_client'[d] = to_client[d]
                        \/ to_client'[d] = Append(to_client[d], EOF)
  BY <1>1, Zenon DEF send_response
<1>3. \A d \in Client : Unread(d)' = Unread(d)
  BY <1>2, UnreadFacts, Zenon
<1> QED BY <1>3, RepliesKept, Zenon

\* A client that waits reads what there is, or gives up its end.
LEMMA ReadByClient ==
  ASSUME NEW c \in Client, Unread(c)' = NoFd, request[c] # NoRequest,
         \A d \in Client \ {c} : Unread(d)' = Unread(d),
         request' = [request EXCEPT ![c] = NoRequest],
         Member' = Member, Catalog' = Catalog, next_file_id' = next_file_id
  PROVE  Abstract!Next
<1>1. Replies' = [Replies EXCEPT ![c] = NoFd]
  BY OneReply, Zenon
<1> QED BY <1>1, Zenon DEF Replies, Abstract!Next, Abstract!Read

-----------------------------------------------------------------------------
(* Steps of the clients *)

\* Reading the reply leaves none: a stream holds at most one.
LEMMA ReplyRead ==
  ASSUME IInv, NEW c \in Client, GoodReply(c)
  PROVE  Unread(c)' = NoFd
<1> DEFINE s == to_client[c]
           S == Reply \cup {EOF}
<1>1. s \in Seq(S) /\ s # <<>> /\ to_client'[c] = Tail(s)
  BY Zenon DEF IInv, TypeOK, GoodReply
<1>2. \A k \in DOMAIN s : s[k] # EOF => k = 1
  BY Zenon DEF IInv, RepliesInStep
<1>3. Tail(s) # <<>> => Head(Tail(s)) = EOF
  <2> HIDE DEF s, S
  <2>1. Tail(s) # <<>> => 2 \in DOMAIN s /\ Head(Tail(s)) = s[2]
    BY <1>1
  <2> QED BY <1>2, <2>1
<1> QED BY <1>1, <1>3, Zenon DEF Unread

\* A client without a question has nothing to read.
LEMMA NothingUnread ==
  ASSUME IInv, NEW c \in Client, request[c] = NoRequest
  PROVE  Unread(c) = NoFd
<1> USE MessageFacts
<1> DEFINE s == to_client[c]
           S == Reply \cup {EOF}
<1>1. pc[c] # "waiting"
  BY Zenon DEF IInv, Asked, Asks
<1>2. \A k \in DOMAIN s : s[k] = EOF
  BY <1>1, Zenon DEF IInv, RepliesInStep
<1>3. s \in Seq(S)
  BY Zenon DEF IInv, TypeOK
<1>4. s # <<>> => Head(s) = EOF
  <2> HIDE DEF s, S
  <2>1. s # <<>> => 1 \in DOMAIN s /\ Head(s) = s[1]
    BY <1>3
  <2> QED BY <1>2, <2>1
<1> QED BY <1>4, Zenon DEF Unread

\* A client asks one of the questions of the directory.
LEMMA AskRefines ==
  ASSUME NEW c \in Client, Quiet, pc[c] # "waiting", NEW m \in Abstract!Question(c), Ask(c, m),
         Member' = Member, Catalog' = Catalog, next_file_id' = next_file_id,
         Replies' = Replies
  PROVE  Abstract!Next
<1>1. request[c] = NoRequest /\ request' = [request EXCEPT ![c] = m]
  BY Zenon DEF Quiet, Ask
<1> QED BY <1>1, Zenon DEF Replies, Abstract!Next, Abstract!Ask

\* What a client does alone changes no table: it asks, or reads its reply.
LEMMA ClientRefines ==
  ASSUME IInv, IInv', Quiet, NEW c \in Client, ClientStep(c)
  PROVE  Abstract!Next \/ Unseen
<1>1. /\ TypeOK /\ TablesConsistent /\ TablesConsistent'
      /\ to_client \in [Client -> Seq(Reply \cup {EOF})]
      /\ request \in [Client -> Request \cup {NoRequest}]
  BY Zenon DEF IInv, TypeOK
<1>2. /\ UNCHANGED tables
      /\ \/ to_client' = to_client /\ request' = request
         \/ /\ pc[c] # "waiting" /\ to_client' = to_client
            /\ \E m \in Abstract!Question(c) : Ask(c, m)
         \/ /\ to_client' = [to_client EXCEPT ![c] = <<>>]
            /\ request' = [request EXCEPT ![c] = NoRequest]
         \/ GoodReply(c)
  BY Zenon
     DEF ClientStep, Connect, Register, share, list, get, Ask,
         share_unreadable, quit, Crash, Leave, BadReply, GoodReply,
         Abstract!Question, Abstract!registration, Abstract!publication,
         Abstract!inquiry, Abstract!listing
<1>3. clients' = clients /\ files' = files /\ next_file_id' = next_file_id
  BY <1>2, Zenon DEF tables
<1>4. Member' = Member /\ Catalog' = Catalog
  BY <1>1, <1>3, TablesKept, Zenon DEF SlotKept
<1>5. ASSUME to_client' = to_client PROVE Replies' = Replies
  <2>1. \A d \in Client : Unread(d)' = Unread(d)
    BY <1>1, <1>5, UnreadFacts, Zenon
  <2> QED BY <2>1, RepliesKept, Zenon
<1>6. CASE \/ /\ to_client' = [to_client EXCEPT ![c] = <<>>]
              /\ request' = [request EXCEPT ![c] = NoRequest]
           \/ GoodReply(c)
  <2>1. \A d \in Client \ {c} : to_client'[d] = to_client[d]
    BY <1>1, <1>6, Zenon DEF GoodReply
  <2>2. \A d \in Client \ {c} : Unread(d)' = Unread(d)
    BY <1>1, <2>1, UnreadFacts, Zenon
  <2>3. Unread(c)' = NoFd
    <3>1. CASE to_client' = [to_client EXCEPT ![c] = <<>>]
      <4>1. to_client'[c] = <<>>
        BY <1>1, <3>1, Zenon
      <4> QED BY <1>1, <4>1, UnreadFacts, Zenon
    <3>2. CASE GoodReply(c)
      BY <3>2, ReplyRead, Zenon
    <3> QED BY <1>6, <3>1, <3>2, Zenon
  <2>4. request' = [request EXCEPT ![c] = NoRequest]
    BY <1>6, Zenon DEF GoodReply
  <2>5. CASE request[c] # NoRequest
    BY <1>3, <1>4, <2>2, <2>3, <2>4, <2>5, ReadByClient, Zenon
  <2>6. CASE request[c] = NoRequest
    <3>1. Unread(c) = NoFd
      BY <2>6, NothingUnread, Zenon
    <3>2. Replies' = Replies
      BY <2>2, <2>3, <3>1, RepliesKept, Zenon
    <3>3. request' = request
      BY <1>1, <2>4, <2>6, Zenon
    <3> QED BY <1>3, <1>4, <3>2, <3>3, Zenon DEF Unseen
  <2> QED BY <2>5, <2>6, Zenon
<1>7. CASE to_client' = to_client /\ request' = request
  BY <1>3, <1>4, <1>5, <1>7, Zenon DEF Unseen
<1>8. CASE /\ pc[c] # "waiting" /\ to_client' = to_client
           /\ \E m \in Abstract!Question(c) : Ask(c, m)
  BY <1>3, <1>4, <1>5, <1>8, AskRefines, Zenon
<1> QED BY <1>2, <1>6, <1>7, <1>8, Zenon

-----------------------------------------------------------------------------
(* The poll loop *)

\* Accepting a connection, or turning it away, is not seen.
LEMMA PollRefines ==
  ASSUME IInv, IInv', Poll, request' = request
  PROVE  Unseen
<1>1. /\ TypeOK /\ TablesConsistent /\ TablesConsistent'
      /\ to_client \in [Client -> Seq(Reply \cup {EOF})]
  BY Zenon DEF IInv, TypeOK
<1>2. files' = files /\ next_file_id' = next_file_id
  BY Zenon DEF Poll, accept_new_client, tables
<1>3. \A j \in ClientSlot : SlotKept(j) /\ (clients'[j].active => clients[j].active)
  <2>1. CASE clients' = clients
    BY <2>1, Zenon DEF SlotKept
  <2>2. CASE \E i \in EmptySlot :
               clients' = [clients EXCEPT ![i].fd = Head(backlog), ![i].addr = Head(backlog),
                                          ![i].active = FALSE]
    <3>1. PICK i \in ClientSlot :
            /\ ~ clients[i].active
            /\ clients' = [clients EXCEPT ![i].fd = Head(backlog), ![i].addr = Head(backlog),
                                          ![i].active = FALSE]
      BY <2>2, Zenon DEF EmptySlot, FirstSlot
    <3>2. ~ clients'[i].active /\ \A j \in ClientSlot \ {i} : clients'[j] = clients[j]
      BY <1>1, <3>1 DEF TypeOK
    <3> QED BY <3>1, <3>2, Zenon DEF SlotKept
  <2> QED BY <2>1, <2>2, Zenon DEF Poll, accept_new_client, tables
<1>4. Member' = Member /\ Catalog' = Catalog
  BY <1>1, <1>2, <1>3, TablesKept, Zenon
<1>5. \A d \in Client : \/ to_client'[d] = to_client[d]
                        \/ to_client'[d] = Append(to_client[d], EOF)
  <2>1. CASE to_client' = to_client
    BY <2>1, Zenon
  <2>2. CASE to_client' = [to_client EXCEPT ![Head(backlog)] = Append(@, EOF)]
    BY <1>1, <2>2, Zenon
  <2> QED BY <2>1, <2>2, Zenon DEF Poll, accept_new_client
<1>6. \A d \in Client : Unread(d)' = Unread(d)
  BY <1>1, <1>5, UnreadFacts, Zenon
<1> QED BY <1>2, <1>4, <1>6, RepliesKept, Zenon DEF Unseen

\* Nor is the end of the server.
LEMMA ShutdownRefines ==
  ASSUME IInv, IInv', Shutdown, request' = request
  PROVE  Unseen
<1>1. TypeOK /\ TablesConsistent /\ TablesConsistent'
  BY Zenon DEF IInv
<1>2. clients' = clients /\ files' = files /\ next_file_id' = next_file_id
  BY Zenon DEF Shutdown, tables
<1>3. Member' = Member /\ Catalog' = Catalog
  BY <1>1, <1>2, TablesKept, Zenon DEF SlotKept
<1>4. \A d \in Client : to_client'[d] = Append(to_client[d], EOF)
  BY Zenon DEF Shutdown
<1>5. \A d \in Client : Unread(d)' = Unread(d)
  BY <1>1, <1>4, UnreadFacts, Zenon
<1> QED BY <1>2, <1>3, <1>5, RepliesKept, Zenon DEF Unseen

-----------------------------------------------------------------------------
(* The handlers *)

\* The server has a message m from the socket fd of slot i.
Heard(i, fd, m) ==
  /\ running /\ i \in ClientSlot /\ fd \in Client /\ clients[i].fd = fd
  /\ to_server[fd] # <<>> /\ m = Head(to_server[fd])

\* The slot of the socket is the only one, and only a registered client sends
\* anything but its registration.
LEMMA HeardFacts ==
  ASSUME IInv, NEW i, NEW fd, NEW m, Heard(i, fd, m)
  PROVE  /\ m \in Range(to_server[fd])
         /\ \A j \in ClientSlot : clients[j].fd = fd => j = i
         /\ m.type = "TCP_REGISTER" => ~ clients[i].active
         /\ m.type = "TCP_SHARE_FILE" => clients[i].active
         /\ m.type \in {"TCP_LIST_FILES", "TCP_REQUEST_FILE"} =>
              PeerClosed(fd) \/ clients[i].active
<1> USE ServerAssumption, MessageFacts
<1>1. /\ running /\ i \in ClientSlot /\ fd \in Client /\ clients[i].fd = fd
      /\ to_server[fd] # <<>> /\ m = Head(to_server[fd]) /\ fd # NoFd
  BY Zenon DEF Heard
<1>2. TypeOK /\ Wired /\ Activity
  BY Zenon DEF IInv
<1>3. m \in Range(to_server[fd])
  <2> DEFINE s == to_server[fd]
             S == Request \cup {EOF}
  <2>1. s \in Seq(S) /\ s # <<>>
    BY <1>1, <1>2, TypeFacts, Zenon
  <2>2. Head(s) \in Range(s)
    <3> HIDE DEF s, S
    <3> QED BY <2>1, TailFacts, Zenon
  <2> QED BY <1>1, <2>2, Zenon
<1>4. \A j \in ClientSlot : clients[j].fd = fd => j = i
  BY <1>1, <1>2, Zenon DEF Wired
<1>5. /\ m.type = "TCP_REGISTER" => ~ clients[i].active
      /\ m.type = "TCP_SHARE_FILE" => clients[i].active
  BY <1>1, <1>2, <1>3, Zenon DEF Activity, SlotActivity
<1>6. ASSUME m.type \in {"TCP_LIST_FILES", "TCP_REQUEST_FILE"}, ~ PeerClosed(fd)
      PROVE  clients[i].active
  <2>1. pc[fd] = "waiting" /\ m \in {request[fd], Rest}
    BY <1>1, <1>6, ServeFacts, Zenon
  <2>2. Registered(fd)
    BY <1>6, <2>1, Zenon DEF Registered
  <2>3. HasSlot(fd)
    BY <1>1, <1>2, <2>2, Zenon DEF Activity, Acknowledged
  <2> QED BY <1>4, <2>3, Zenon DEF HasSlot
<1> QED BY <1>3, <1>4, <1>5, <1>6, Zenon

\* What is heard, short of the end of the stream, is a request.
LEMMA HeardIsRequest ==
  ASSUME IInv, NEW i, NEW fd, NEW m, Heard(i, fd, m), m.type # "EOF"
  PROVE  m \in Request
<1>1. fd \in Client /\ m \in Range(to_server[fd])
  BY HeardFacts, Zenon DEF Heard
<1>2. Range(to_server[fd]) \subseteq Request \cup {EOF}
  BY <1>1, TypeFacts, Zenon DEF IInv
<1> QED BY <1>1, <1>2, MessageFacts, Zenon

\* A reply to a message that has been heard: it answers the question of its
\* client, or the client has died and has none.
LEMMA HeardTold ==
  ASSUME IInv, Quiet, NEW i, NEW fd, NEW m, Heard(i, fd, m), m.type # "rest",
         NEW r \in Reply, send_response(i, r)
  PROVE  \/ /\ ~ PeerClosed(fd) /\ request[fd] = m
            /\ Replies' = [Replies EXCEPT ![fd] = Meaning(r)]
         \/ /\ PeerClosed(fd) /\ request[fd] = NoRequest
            /\ Replies' = Replies
<1>1. /\ running /\ i \in ClientSlot /\ fd \in Client /\ clients[i].fd = fd
      /\ to_server[fd] # <<>> /\ m = Head(to_server[fd])
  BY Zenon DEF Heard
<1>2. /\ ~ PeerClosed(fd) => Replies' = [Replies EXCEPT ![fd] = Meaning(r)]
      /\ PeerClosed(fd) => Replies' = Replies
  BY <1>1, Told, Zenon
<1>3. ~ PeerClosed(fd) => m \in {request[fd], Rest}
  BY <1>1, ServeFacts, Zenon
<1>4. PeerClosed(fd) => pc[fd] = "gone"
  BY <1>1, ServeFacts, Zenon
<1> QED BY <1>1, <1>2, <1>3, <1>4, MessageFacts, Zenon DEF Quiet

\* handle_register: a client joins.
LEMMA JoinRefines ==
  ASSUME IInv, IInv', Quiet, request' = request, NEW i, NEW fd, NEW m, Heard(i, fd, m),
         m.type = "TCP_REGISTER", handle_register(i, m)
  PROVE  Abstract!Next
<1>1. /\ TypeOK /\ TablesConsistent /\ TablesConsistent'
      /\ i \in ClientSlot /\ fd \in Client /\ clients[i].fd = fd
  BY Zenon DEF IInv, Heard
<1>2. /\ ~ clients[i].active
      /\ \A j \in ClientSlot : clients[j].fd = fd => j = i
  BY HeardFacts, Zenon
<1>3. /\ clients'[i].fd = fd /\ clients'[i].active
      /\ \A j \in ClientSlot \ {i} : clients'[j] = clients[j]
  BY <1>1, Zenon DEF handle_register, TypeOK
<1>4. fd \notin Member /\ Member' = Member \cup {fd}
  <2>1. fd \notin Member
    BY <1>2, Zenon DEF Member
  <2>2. ASSUME NEW x \in Member' PROVE x \in Member \cup {fd}
    BY <1>3, <2>2, Zenon DEF Member
  <2>3. ASSUME NEW x \in Member PROVE x \in Member'
    <3>1. PICK j \in ClientSlot : clients[j].active /\ x = clients[j].fd
      BY Zenon DEF Member
    <3> QED BY <1>2, <1>3, <3>1, Zenon DEF Member
  <2>4. fd \in Member'
    BY <1>1, <1>3, Zenon DEF Member
  <2> QED BY <2>1, <2>2, <2>3, <2>4, Zenon
<1>5. \A j \in ClientSlot : SlotKept(j)
  BY <1>2, <1>3, Zenon DEF SlotKept
<1>6. files' = files /\ next_file_id' = next_file_id
  BY Zenon DEF handle_register
<1>7. Catalog' = Catalog
  <2>1. \A f \in files : EntryOf(f)' = EntryOf(f)
    BY <1>1, <1>5, EntriesKept, Zenon
  <2> QED BY <1>6, <2>1, CatalogIs, CatalogIsThen, Zenon
<1>8. PICK r : r = [type |-> "TCP_REGISTER_ACK", client_id |-> next_client_id]
  BY Zenon
<1>9. r \in Reply /\ send_response(i, r) /\ Meaning(r) = [type |-> "TCP_REGISTER_ACK"]
  BY <1>1, <1>8, Zenon DEF Reply, TypeOK, handle_register, Meaning
<1>10. m = Abstract!registration(fd)
  <2>1. m \in Request /\ m \in Range(to_server[fd])
    BY HeardFacts, HeardIsRequest, Zenon
  <2>2. Asks(fd)
    BY <1>1, Zenon DEF IInv, Asked
  <2>3. m.udp_port = fd
    BY <2>1, <2>2, Zenon DEF Asks
  <2> QED BY <2>1, <2>3 DEF Request, Abstract!registration
<1>11. Abstract!Answer(fd, m, [type |-> "TCP_REGISTER_ACK"]) \/ Abstract!Lost(fd)
  BY <1>9, HeardTold, Zenon DEF Replies, Abstract!Answer, Abstract!Lost
<1>12. Abstract!Join(fd)
  BY <1>4, <1>6, <1>7, <1>10, <1>11, Zenon DEF Abstract!Join
<1> QED BY <1>1, <1>4, <1>12, Zenon DEF Abstract!Next

\* The member fd is given the answer x to its question m, and nothing else
\* happens in the directory.
AnswerGiven(fd, m, x) ==
  /\ fd \in Member /\ request[fd] = m /\ Abstract!Answer(fd, m, x)
  /\ Member' = Member /\ Catalog' = Catalog /\ next_file_id' = next_file_id
  /\ request' = request

\* A client that asks something other than to register is a member and is
\* answered, or it has died.
LEMMA TellRefines ==
  ASSUME IInv, IInv', Quiet, request' = request, NEW i, NEW fd, NEW m, Heard(i, fd, m),
         UNCHANGED tables,
         m.type \in {"TCP_LIST_FILES", "TCP_REQUEST_FILE", "TCP_SHARE_FILE"},
         NEW r \in Reply, send_response(i, r)
  PROVE  AnswerGiven(fd, m, Meaning(r)) \/ Unseen
<1>1. /\ TypeOK /\ TablesConsistent /\ TablesConsistent'
      /\ i \in ClientSlot /\ fd \in Client /\ clients[i].fd = fd
  BY Zenon DEF IInv, Heard
<1>2. clients' = clients /\ files' = files /\ next_file_id' = next_file_id
  BY Zenon DEF tables
<1>3. Member' = Member /\ Catalog' = Catalog
  BY <1>1, <1>2, TablesKept, Zenon DEF SlotKept
<1>4. \/ /\ ~ PeerClosed(fd) /\ request[fd] = m
         /\ Replies' = [Replies EXCEPT ![fd] = Meaning(r)]
      \/ /\ PeerClosed(fd) /\ request[fd] = NoRequest
         /\ Replies' = Replies
  <2>1. m.type # "rest"
    BY Zenon
  <2> QED BY <2>1, HeardTold, Zenon
<1>5. CASE PeerClosed(fd)
  BY <1>2, <1>3, <1>4, <1>5, Zenon DEF Unseen
<1>6. CASE ~ PeerClosed(fd)
  <2>1. clients[i].active
    BY <1>6, HeardFacts, Zenon
  <2>2. fd \in Member
    BY <1>1, <2>1, Zenon DEF Member
  <2> QED BY <1>2, <1>3, <1>4, <1>6, <2>2, Zenon
             DEF AnswerGiven, Replies, Abstract!Answer
<1> QED BY <1>5, <1>6, Zenon

\* handle_share_file: a file is published, or refused.
LEMMA PublishRefines ==
  ASSUME IInv, IInv', Quiet, request' = request, NEW i, NEW fd, NEW m, Heard(i, fd, m),
         m.type = "TCP_SHARE_FILE", handle_share_file(i, m)
  PROVE  Abstract!Next \/ Unseen
<1>1. /\ TypeOK /\ TablesConsistent /\ TablesConsistent'
      /\ i \in ClientSlot /\ fd \in Client /\ clients[i].fd = fd
  BY Zenon DEF IInv, Heard
<1>2. clients[i].active /\ m \in Range(to_server[fd])
  BY HeardFacts, Zenon
<1>3. CASE FileTableFull
  <2>1. PICK r : r = tcp_error("ERR_INVALID_MSG")
    BY Zenon
  <2>2. r \in Reply /\ Meaning(r) = [type |-> "TCP_ERROR"]
    BY <2>1, Zenon DEF tcp_error, Reply, Meaning
  <2>3. send_response(i, r) /\ UNCHANGED tables
    BY <1>3, <2>1, Zenon DEF handle_share_file
  <2>4. AnswerGiven(fd, m, [type |-> "TCP_ERROR"]) \/ Unseen
    BY <2>2, <2>3, TellRefines, Zenon
  <2>5. Abstract!Full
    BY <1>3, CatalogSize, Zenon DEF FileTableFull, Abstract!Full
  <2>6. ASSUME AnswerGiven(fd, m, [type |-> "TCP_ERROR"]) PROVE Abstract!Next
    <3>1. fd \in Member /\ request[fd] = m
      BY <2>6, Zenon DEF AnswerGiven
    <3>2. Abstract!Refuse(fd, request[fd])
      BY <2>5, <2>6, <3>1, Zenon DEF AnswerGiven, Abstract!Refuse
    <3> QED BY <3>1, <3>2, Zenon DEF Abstract!Next
  <2> QED BY <2>4, <2>6, Zenon
<1>4. CASE ~ FileTableFull
  <2>1. m.hash \in Hash
    <3>1. m \in Request
      BY <1>1, <1>2, TypeFacts DEF EOF
    <3> QED BY <3>1, Zenon DEF Request
  <2>2. PICK e : e = [file_id |-> next_file_id, hash |-> m.hash,
                      owner_id |-> clients[i].client_id]
    BY Zenon
  <2>3. PICK r : r = [type |-> "TCP_SHARE_ACK", file_id |-> next_file_id]
    BY Zenon
  <2>4. /\ next_file_id \in Nat /\ next_file_id' = next_file_id + 1
        /\ files' = files \cup {e} /\ clients' = clients
        /\ r \in Reply /\ send_response(i, r) /\ Meaning(r) = r
    <3>1. next_file_id \in Nat
      BY <1>1, Zenon DEF TypeOK
    <3>2. r \in Reply /\ Meaning(r) = r
      BY <2>3, <3>1, Zenon DEF Reply, Meaning
    <3>3. new_file_entry(i, m) = e /\ e.file_id = next_file_id
      BY <2>2, Zenon DEF new_file_entry
    <3>4. /\ next_file_id' = next_file_id + 1
          /\ files' = files \cup {e} /\ clients' = clients
          /\ send_response(i, [type |-> "TCP_SHARE_ACK", file_id |-> next_file_id])
      BY <1>4, <3>3, Zenon DEF handle_share_file
    <3> QED BY <2>3, <3>1, <3>2, <3>4, Zenon
  <2>5. \A f \in files : EntryOf(f)' = EntryOf(f)
    <3>1. \A j \in ClientSlot : SlotKept(j)
      BY <2>4, Zenon DEF SlotKept
    <3> QED BY <1>1, <3>1, EntriesKept, Zenon
  <2>6. EntryOf(e)' = [file_id |-> next_file_id, hash |-> m.hash, owner |-> fd]
    <3>1. PICK id : id = clients[i].client_id
      BY Zenon
    <3>2. Process(id)' = fd
      BY <1>1, <1>2, <2>4, <3>1, ProcessIsThen, Zenon
    <3>3. e.file_id = next_file_id /\ e.hash = m.hash /\ e.owner_id = id
      BY <2>2, <3>1, Zenon
    <3> QED BY <3>2, <3>3, Zenon DEF EntryOf
  <2>7. Catalog' = Catalog \cup {[file_id |-> next_file_id, hash |-> m.hash, owner |-> fd]}
    BY <2>4, <2>5, <2>6, CatalogIs, CatalogIsThen, Zenon
  <2>8. Member' = Member /\ fd \in Member
    BY <1>1, <1>2, <2>4, Zenon DEF Member
  <2>9. Abstract!Answer(fd, m, r) \/ Abstract!Lost(fd)
    BY <2>4, HeardTold, Zenon DEF Replies, Abstract!Answer, Abstract!Lost
  <2>10. /\ next_file_id - 1 + 1 = next_file_id
         /\ next_file_id' - 1 = next_file_id - 1 + 1
    BY <2>4
  <2>11. m = Abstract!publication(m.hash)
    <3>1. m \in Request
      BY HeardIsRequest, Zenon
    <3> QED BY <3>1 DEF Request, Abstract!publication
  <2>12. ~ Abstract!Full
    BY <1>4, CatalogSize, Zenon DEF FileTableFull, Abstract!Full
  <2>13. Abstract!Publish(fd, m.hash)
    BY <2>3, <2>4, <2>7, <2>8, <2>9, <2>10, <2>11, <2>12, Zenon
       DEF Abstract!Publish
  <2> QED BY <2>1, <2>8, <2>13, Zenon DEF Abstract!Next
<1> QED BY <1>3, <1>4, Zenon

\* handle_list_files: the list is the catalog.
LEMMA ListRefines ==
  ASSUME IInv, IInv', Quiet, request' = request, NEW i, NEW fd, NEW m, Heard(i, fd, m),
         m.type = "TCP_LIST_FILES", handle_list_files(i)
  PROVE  Abstract!Next \/ Unseen
<1>1. PICK r : r = [type |-> "TCP_FILE_LIST", infos |-> files]
  BY Zenon
<1>2. r \in Reply /\ send_response(i, r) /\ UNCHANGED tables
  <2>1. files \subseteq FileEntry
    BY Zenon DEF IInv, TypeOK
  <2> QED BY <1>1, <2>1, Zenon DEF Reply, handle_list_files
<1>3. Meaning(r) = [type  |-> "TCP_FILE_LIST",
                    infos |-> {[file_id |-> f.file_id, hash |-> f.hash] : f \in files}]
  BY <1>1, Zenon DEF Meaning
<1>4. {[file_id |-> f.file_id, hash |-> f.hash] : f \in files}
        = {[file_id |-> e.file_id, hash |-> e.hash] : e \in Catalog}
  <2>1. \A f \in files : EntryOf(f).file_id = f.file_id /\ EntryOf(f).hash = f.hash
    BY Zenon DEF EntryOf
  <2> QED BY <2>1, CatalogIs
<1>5. AnswerGiven(fd, m, Meaning(r)) \/ Unseen
  BY <1>2, TellRefines, Zenon
<1>6. ASSUME AnswerGiven(fd, m, Meaning(r)) PROVE Abstract!Next
  <2>1. m = Abstract!listing
    <3>1. m \in Request
      BY HeardIsRequest, Zenon
    <3> QED BY <3>1 DEF Request, Abstract!listing
  <2>2. fd \in Member /\ Abstract!List(fd)
    BY <1>3, <1>4, <1>6, <2>1, Zenon DEF AnswerGiven, Abstract!List
  <2> QED BY <2>2, Zenon DEF Abstract!Next
<1> QED BY <1>5, <1>6, Zenon

\* handle_request_file: the location is an entry of the catalog.
LEMMA LocateRefines ==
  ASSUME IInv, IInv', Quiet, request' = request, NEW i, NEW fd, NEW m, Heard(i, fd, m),
         m.type = "TCP_REQUEST_FILE", handle_request_file(i, m)
  PROVE  Abstract!Next \/ Unseen
<1>1. /\ TypeOK /\ TablesConsistent /\ Wired /\ i \in ClientSlot
  BY Zenon DEF IInv, Heard
<1>2. PICK id : id = m.file_id
  BY Zenon
<1>3. send_response(i, request_reply(i, id)) /\ UNCHANGED tables
  BY <1>2, Zenon DEF handle_request_file
<1>4. CASE find_file(id) = {}
  <2>1. PICK r : r = tcp_error("ERR_FILE_NOT_FOUND")
    BY Zenon
  <2>2. r \in Reply /\ Meaning(r) = [type |-> "TCP_ERROR"]
    BY <2>1, Zenon DEF tcp_error, Reply, Meaning
  <2>3. send_response(i, r)
    BY <1>3, <1>4, <2>1, Zenon DEF request_reply
  <2>4. AnswerGiven(fd, m, [type |-> "TCP_ERROR"]) \/ Unseen
    BY <1>3, <2>2, <2>3, TellRefines, Zenon
  <2>5. \A e \in Catalog : e.file_id # m.file_id
    <3>1. \A f \in files : f.file_id # m.file_id
      BY <1>2, <1>4, Zenon DEF find_file
    <3>2. \A f \in files : EntryOf(f).file_id = f.file_id
      BY Zenon DEF EntryOf
    <3> QED BY <3>1, <3>2, CatalogIs, Zenon
  <2>6. ASSUME AnswerGiven(fd, m, [type |-> "TCP_ERROR"]) PROVE Abstract!Next
    <3>1. fd \in Member /\ request[fd] = m
      BY <2>6, Zenon DEF AnswerGiven
    <3>2. Abstract!Refuse(fd, request[fd])
      BY <2>5, <2>6, <3>1, Zenon DEF AnswerGiven, Abstract!Refuse
    <3> QED BY <3>1, <3>2, Zenon DEF Abstract!Next
  <2> QED BY <2>4, <2>6, Zenon
<1>5. CASE find_file(id) # {}
  <2>1. PICK f : f = CHOOSE g \in find_file(id) : TRUE
    BY Zenon
  <2>2. f \in files /\ f.file_id = m.file_id
    BY <1>2, <1>5, <2>1, Zenon DEF find_file
  <2>3. PICK o \in ClientSlot : clients[o].active /\ clients[o].client_id = f.owner_id
    BY <1>1, <2>2, Zenon DEF TablesConsistent
  <2>4. find_client(f.owner_id) = {o}
    <3>1. {j \in ClientSlot : clients[j].active /\ clients[j].client_id = f.owner_id} = {o}
      BY <1>1, <2>3, Zenon DEF TablesConsistent
    <3>2. FirstSlot({o}) = {o}
      BY DEF FirstSlot, ClientSlot
    <3> QED BY <3>1, <3>2, Zenon DEF find_client
  <2>5. request_reply(i, id) = file_location(i, f, o)
    <3>1. (CHOOSE p \in {o} : TRUE) = o
      BY Zenon
    <3> QED BY <1>5, <2>1, <2>4, <3>1, Zenon DEF request_reply
  <2>6. PICK p \in Client : clients[o].fd = p /\ clients[o].addr = p /\ clients[o].udp_port = p
    BY <1>1, <2>3, TypeFacts, Zenon DEF Wired
  <2>7. PICK r : r = [type |-> "TCP_FILE_LOCATION", file_id |-> f.file_id, hash |-> f.hash,
                      peer_ip |-> p, peer_port |-> p]
    BY Zenon
  <2>8. request_reply(i, id) = r
    BY <2>5, <2>6, <2>7, Zenon DEF file_location
  <2>9. r \in Reply
    <3>1. f.hash \in Hash /\ f.file_id \in Nat
      BY <1>1, <2>2, Zenon DEF TypeOK, FileEntry
    <3> QED BY <2>7, <3>1, Zenon DEF Reply
  <2>10. Meaning(r) = [type  |-> "TCP_FILE_LOCATION",
                       entry |-> [file_id |-> f.file_id, hash |-> f.hash, owner |-> p]]
    BY <2>7, Zenon DEF Meaning
  <2>11. EntryOf(f) = [file_id |-> f.file_id, hash |-> f.hash, owner |-> p]
    <3>1. PICK w : w = f.owner_id
      BY Zenon
    <3>2. Process(w) = p
      BY <1>1, <2>3, <2>6, <3>1, ProcessIs, Zenon
    <3> QED BY <3>1, <3>2, Zenon DEF EntryOf
  <2>12. EntryOf(f) \in Catalog
    BY <2>2, CatalogIs, Zenon
  <2>13. AnswerGiven(fd, m, Meaning(r)) \/ Unseen
    BY <1>3, <2>8, <2>9, TellRefines, Zenon
  <2>14. ASSUME AnswerGiven(fd, m, Meaning(r)) PROVE Abstract!Next
    <3>1. fd \in Member /\ request[fd] = m
      BY <2>14, Zenon DEF AnswerGiven
    <3>2. PICK e : e = EntryOf(f)
      BY Zenon
    <3>3. e \in Catalog /\ Meaning(r) = [type |-> "TCP_FILE_LOCATION", entry |-> e]
      BY <2>10, <2>11, <2>12, <3>2, Zenon
    <3>4. e.file_id = m.file_id
      BY <2>2, <3>2, Zenon DEF EntryOf
    <3>5. Abstract!Locate(fd, request[fd])
      BY <2>14, <3>1, <3>3, <3>4, Zenon DEF AnswerGiven, Abstract!Locate
    <3> QED BY <3>1, <3>5, Zenon DEF Abstract!Next
  <2> QED BY <2>13, <2>14, Zenon
<1> QED BY <1>4, <1>5, Zenon

\* remove_client: a member leaves, with its files.
LEMMA LeaveRefines ==
  ASSUME IInv, IInv', request' = request, NEW i \in ClientSlot, NEW fd \in Client, clients[i].fd = fd,
         remove_client(i)
  PROVE  Abstract!Next \/ Unseen
<1>1. TypeOK /\ TablesConsistent /\ TablesConsistent' /\ Wired /\ NoFd \notin Client
  BY ServerAssumption, Zenon DEF IInv
<1>2. CASE ~ clients[i].active
  <2>1. clients' = clients /\ files' = files /\ next_file_id' = next_file_id
        /\ to_client' = to_client
    BY <1>2, Zenon DEF remove_client, tables
  <2>2. Member' = Member /\ Catalog' = Catalog
    BY <1>1, <2>1, TablesKept, Zenon DEF SlotKept
  <2>3. \A d \in Client : Unread(d)' = Unread(d)
    BY <1>1, <2>1, UnreadFacts, Zenon
  <2> QED BY <2>1, <2>2, <2>3, RepliesKept, Zenon DEF Unseen
<1>3. CASE clients[i].active
  <2>1. /\ files' = FilesLeft(i) /\ send_response(i, EOF)
        /\ clients' = [clients EXCEPT ![i].fd = NoFd, ![i].active = FALSE]
        /\ next_file_id' = next_file_id
    BY <1>3, Zenon DEF remove_client
  <2>2. /\ ~ clients'[i].active
        /\ \A j \in ClientSlot \ {i} : clients'[j] = clients[j]
    BY <1>1, <2>1, Zenon DEF TypeOK
  <2>3. \A j \in ClientSlot \ {i} : clients[j].fd # fd
    BY <1>1, Zenon DEF Wired
  <2>4. fd \in Member /\ Member' = Member \ {fd}
    <3>1. fd \in Member
      BY <1>3, Zenon DEF Member
    <3>2. ASSUME NEW x \in Member' PROVE x \in Member \ {fd}
      <4>1. PICK j \in ClientSlot : clients'[j].active /\ x = clients'[j].fd
        BY Zenon DEF Member
      <4> QED BY <2>2, <2>3, <4>1, Zenon DEF Member
    <3>3. ASSUME NEW x \in Member \ {fd} PROVE x \in Member'
      <4>1. PICK j \in ClientSlot : clients[j].active /\ x = clients[j].fd
        BY Zenon DEF Member
      <4> QED BY <2>2, <4>1, Zenon DEF Member
    <3> QED BY <3>1, <3>2, <3>3, Zenon
  <2>5. ASSUME NEW f \in files
        PROVE  /\ EntryOf(f).owner = fd <=> f.owner_id = clients[i].client_id
               /\ f.owner_id # clients[i].client_id => EntryOf(f)' = EntryOf(f)
    <3>1. PICK j \in ClientSlot : clients[j].active /\ clients[j].client_id = f.owner_id
      BY <1>1, Zenon DEF TablesConsistent
    <3>2. Process(f.owner_id) = clients[j].fd
      BY <1>1, <3>1, ProcessIs, Zenon
    <3>3. EntryOf(f).owner = clients[j].fd
      BY <3>2, Zenon DEF EntryOf
    <3>4. f.owner_id = clients[i].client_id <=> i = j
      BY <1>1, <1>3, <3>1 DEF TablesConsistent
    <3>5. ASSUME i # j PROVE EntryOf(f)' = EntryOf(f)
      <4>1. SlotKept(j)
        BY <2>2, <3>5, Zenon DEF SlotKept
      <4>2. Process(f.owner_id)' = Process(f.owner_id)
        BY <1>1, <3>1, <4>1, OwnerKept, Zenon
      <4> QED BY <4>2, Zenon DEF EntryOf
    <3> QED BY <2>3, <3>3, <3>4, <3>5, Zenon
  <2>6. files' = {f \in files : f.owner_id # clients[i].client_id}
    BY <2>1, Zenon DEF FilesLeft
  <2>7. Catalog' = {e \in Catalog : e.owner # fd}
    <3>1. ASSUME NEW e \in Catalog' PROVE e \in Catalog /\ e.owner # fd
      <4>1. PICK f \in files' : e = EntryOf(f)'
        BY CatalogIsThen, Zenon
      <4> QED BY <2>5, <2>6, <4>1, CatalogIs, Zenon
    <3>2. ASSUME NEW e \in Catalog, e.owner # fd PROVE e \in Catalog'
      <4>1. PICK f \in files : e = EntryOf(f)
        BY CatalogIs, Zenon
      <4> QED BY <2>5, <2>6, <3>2, <4>1, CatalogIsThen, Zenon
    <3> QED BY <3>1, <3>2, Zenon
  <2>8. Replies' = Replies
    BY <1>1, <2>1, Closed, Zenon
  <2> QED BY <2>1, <2>4, <2>7, <2>8, Zenon
             DEF Replies, Abstract!Next, Abstract!Leave
<1> QED BY <1>2, <1>3, Zenon

\* The server looks at the next ready socket.
LEMMA ServeRefines ==
  ASSUME IInv, IInv', Quiet, Serve, request' = request
  PROVE  Abstract!Next \/ Unseen
<1>1. TypeOK /\ TablesConsistent /\ TablesConsistent' /\ Round
  BY Zenon DEF IInv
<1>2. PICK k \in DOMAIN todo :
        \/ ServeNobody(todo[k])
        \/ \E i \in find_client_by_fd(todo[k]) :
             ServeDisconnect(i) \/ ServeMessage(i) \/ ServePart(i)
  BY Zenon DEF Serve, FirstSlot
<1>3. PICK fd \in Client : todo[k] = fd
  BY <1>1, TypeFacts, Zenon
<1>4. running /\ to_server[fd] # <<>>
  BY <1>1, <1>2, <1>3, Zenon DEF Round, TypeOK
<1>5. ASSUME UNCHANGED <<tables, to_client>> PROVE Unseen
  <2>1. /\ clients' = clients /\ files' = files /\ next_file_id' = next_file_id
        /\ to_client' = to_client
    BY <1>5, Zenon DEF tables
  <2>2. Member' = Member /\ Catalog' = Catalog
    BY <1>1, <2>1, TablesKept, Zenon DEF SlotKept
  <2>3. \A d \in Client : Unread(d)' = Unread(d)
    BY <1>1, <2>1, UnreadFacts, Zenon
  <2> QED BY <2>1, <2>2, <2>3, RepliesKept, Zenon DEF Unseen
<1>6. CASE ServeNobody(fd)
  BY <1>5, <1>6, Zenon DEF ServeNobody
<1>7. ASSUME NEW i \in ClientSlot, clients[i].fd = fd, ServeDisconnect(i)
      PROVE  Abstract!Next \/ Unseen
  BY <1>7, LeaveRefines, Zenon DEF ServeDisconnect
<1>8. ASSUME NEW i \in ClientSlot, ServePart(i)
      PROVE  Abstract!Next \/ Unseen
  BY <1>5, <1>8, Zenon DEF ServePart
<1>9. ASSUME NEW i \in ClientSlot, clients[i].fd = fd, ServeMessage(i)
      PROVE  Abstract!Next \/ Unseen
  <2>1. PICK m : m = Head(to_server[fd])
    BY Zenon
  <2>2. process_client_message(i, m) /\ Heard(i, fd, m)
    BY <1>4, <1>9, <2>1, Zenon DEF ServeMessage, Heard
  <2>3. CASE m = Rest /\ UNCHANGED <<tables, to_client>>
    BY <1>5, <2>3, Zenon
  <2>4. CASE m.type = "TCP_REGISTER" /\ handle_register(i, m)
    BY <2>2, <2>4, JoinRefines, Zenon
  <2>5. CASE m.type = "TCP_SHARE_FILE" /\ handle_share_file(i, m)
    BY <2>2, <2>5, PublishRefines, Zenon
  <2>6. CASE m.type = "TCP_LIST_FILES" /\ handle_list_files(i)
    BY <2>2, <2>6, ListRefines, Zenon
  <2>7. CASE m.type = "TCP_REQUEST_FILE" /\ handle_request_file(i, m)
    BY <2>2, <2>7, LocateRefines, Zenon
  <2>8. CASE m.type = "TCP_UNREGISTER" /\ handle_unregister(i)
    BY <1>9, <2>8, LeaveRefines, Zenon DEF handle_unregister
  <2> QED BY <2>2, <2>3, <2>4, <2>5, <2>6, <2>7, <2>8, Zenon
             DEF process_client_message
<1>10. \A i \in find_client_by_fd(fd) : i \in ClientSlot /\ clients[i].fd = fd
  BY Zenon DEF find_client_by_fd, FirstSlot
<1> QED BY <1>2, <1>3, <1>6, <1>7, <1>8, <1>9, <1>10, Zenon

-----------------------------------------------------------------------------
(* The theorem *)

\* At the start the directory is empty and nobody has been told anything.
LEMMA InitRefines == Init => Abstract!Init
<1> SUFFICES ASSUME Init PROVE Abstract!Init
  BY Zenon
<1> USE DEF Init, ServerInit
<1>1. Member = {}
  BY Zenon DEF Member
<1>2. Catalog = {}
  BY Zenon DEF Catalog
<1>3. next_file_id - 1 = 0
  OBVIOUS
<1>4. [c \in Client |-> Unread(c)] = [c \in Client |-> NoFd]
  BY Zenon DEF Unread
<1> QED BY <1>1, <1>2, <1>3, <1>4, Zenon DEF Abstract!Init

\* Every step is one of the abstract directory, or is not seen there.
LEMMA StepRefines ==
  ASSUME IInv, IInv', Quiet, [Next]_vars
  PROVE  [Abstract!Next]_Abstract!vars
<1> SUFFICES Abstract!Next \/ Unseen
  BY Zenon DEF Unseen, Replies, Abstract!vars
<1>1. CASE Poll /\ UNCHANGED clientVars
  BY <1>1, PollRefines, Zenon DEF clientVars
<1>2. CASE Serve /\ UNCHANGED clientVars
  BY <1>2, ServeRefines, Zenon DEF clientVars
<1>3. CASE Shutdown /\ UNCHANGED clientVars
  BY <1>3, ShutdownRefines, Zenon DEF clientVars
<1>4. ASSUME NEW c \in Client, ClientStep(c) PROVE Abstract!Next \/ Unseen
  BY <1>4, ClientRefines, Zenon
<1>5. CASE UNCHANGED vars
  <2>1. /\ clients' = clients /\ files' = files /\ next_file_id' = next_file_id
        /\ to_client' = to_client /\ request' = request
    BY <1>5, Zenon DEF vars, serverVars, clientVars, tables
  <2>2. TypeOK /\ TablesConsistent /\ TablesConsistent'
    BY Zenon DEF IInv
  <2>3. Member' = Member /\ Catalog' = Catalog
    BY <2>1, <2>2, TablesKept, Zenon DEF SlotKept
  <2>4. \A d \in Client : Unread(d)' = Unread(d)
    BY <2>1, <2>2, UnreadFacts, Zenon
  <2> QED BY <2>1, <2>3, <2>4, RepliesKept, Zenon DEF Unseen
<1> QED BY <1>1, <1>2, <1>3, <1>4, <1>5, Zenon DEF Next

\* The server implements the abstract directory: asking, joining, publishing,
\* telling, refusing and leaving are single steps to its users, whatever is in
\* between; an answer is to the question its client waits on, and an error is
\* given for nothing but a full catalog or a file that is not on offer.
THEOREM Refinement == Spec => KeepsDirectory
<1>1. Init => Abstract!Init
  BY InitRefines, Zenon
<1>2. IInv /\ IInv' /\ Quiet /\ [Next]_vars => [Abstract!Next]_Abstract!vars
  BY StepRefines, Zenon
<1> QED BY <1>1, <1>2, Invariance, QuestionsAreAwaited, PTL DEF Spec, KeepsDirectory, Abstract!Spec
=============================================================================
