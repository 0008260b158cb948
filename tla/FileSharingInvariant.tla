------------------------ MODULE FileSharingInvariant ------------------------
(***************************************************************************)
(* The inductive invariant of FileSharing, facts about streams and about   *)
(* cardinalities, and what every step of the server that takes a message   *)
(* from a socket has in common.                                            *)
(***************************************************************************)
EXTENDS FileSharing, TLAPS

-----------------------------------------------------------------------------
(* The inductive invariant.  Its conjuncts need each other: a reply finds   *)
(* its reader only because a connection has one slot, a slot is kept only   *)
(* because nobody but a client that has left is removed, and so on.         *)
Connected(c) ==
  \/ \E k \in DOMAIN backlog : backlog[k] = c
  \/ \E i \in ClientSlot : clients[i].fd = c

HasSlot(c) == \E i \in ClientSlot : clients[i].active /\ clients[i].fd = c

\* A connection is in the backlog once or in one slot, and is its process's.
Wired ==
  /\ \A i \in ClientSlot :
       /\ clients[i].fd # NoFd => /\ pc[clients[i].fd] # "start"
                                  /\ clients[i].addr = clients[i].fd
       /\ clients[i].active => /\ clients[i].fd # NoFd
                               /\ clients[i].udp_port = clients[i].fd
  /\ \A i, j \in ClientSlot :
       clients[i].fd # NoFd /\ clients[i].fd = clients[j].fd => i = j
  /\ \A k \in DOMAIN backlog :
       /\ pc[backlog[k]] # "start"
       /\ \A i \in ClientSlot : clients[i].fd # backlog[k]
       /\ \A l \in DOMAIN backlog : backlog[k] = backlog[l] => k = l

RegisterFirst(s) ==
  \A k \in DOMAIN s : s[k].type = "TCP_REGISTER" => k = 1

\* A client that has not left has at most its request, or what remains of it,
\* on the way; one that has left has closed its end.
Asks(c) ==
  /\ pc[c] \in {"start", "connected", "ready"} => to_server[c] = <<>>
  /\ pc[c] = "waiting" =>
       /\ request[c].type \in {"TCP_REGISTER", "TCP_SHARE_FILE",
                               "TCP_REQUEST_FILE", "TCP_LIST_FILES"}
       /\ Len(to_server[c]) <= 1
       /\ Range(to_server[c]) \subseteq {request[c], Rest}
  /\ pc[c] = "gone" /\ Connected(c) => PeerClosed(c)
  /\ RegisterFirst(to_server[c])
  /\ \A m \in Range(to_server[c]) : m.type = "TCP_REGISTER" => m.udp_port = c

Asked == \A c \in Client : Asks(c)

\* A slot is active from the TCP_REGISTER of its client on, and a client that
\* has been told so has one.
SlotActivity(i) ==
  /\ clients[i].active =>
       /\ pc[clients[i].fd] # "connected"
       /\ \A m \in Range(to_server[clients[i].fd]) : m.type # "TCP_REGISTER"
  /\ ~ clients[i].active /\ clients[i].fd # NoFd =>
       \A m \in Range(to_server[clients[i].fd]) : m.type # "TCP_SHARE_FILE"

Acknowledged(c) ==
  Registered(c) \/ \E m \in Range(to_client[c]) : m.type = "TCP_REGISTER_ACK"

Activity ==
  /\ \A i \in ClientSlot : SlotActivity(i)
  /\ \A k \in DOMAIN backlog :
       \A m \in Range(to_server[backlog[k]]) : m.type # "TCP_SHARE_FILE"
  /\ \A c \in Client : Acknowledged(c) => HasSlot(c)

\* The server has closed no connection it will still write to.
Open ==
  running => \A c \in Client :
    pc[c] = "start" \/ (pc[c] # "gone" /\ Connected(c))
      => EOF \notin Range(to_client[c])

\* What is left of a round of the poll loop: sockets with something to read.
Round ==
  /\ ~ running => DOMAIN todo = {}
  /\ \A k, l \in DOMAIN todo : todo[k] = todo[l] => k = l
  /\ \A k \in DOMAIN todo : to_server[todo[k]] # <<>>

\* Ids in use are below the counters.
Fresh ==
  /\ \A i \in ClientSlot : clients[i].active => clients[i].client_id < next_client_id
  /\ IsFiniteSet(files)
  /\ \A f \in files : f.file_id < next_file_id
  /\ \A c \in Client : \A e \in table[c] : e.file_id < next_file_id
  /\ \A c \in Client : \A m \in Range(to_client[c]) :
       m.type = "TCP_SHARE_ACK" => m.file_id < next_file_id

\* An id on its way to its owner is nobody else's.
Unclaimed ==
  \A c, d \in Client : \A m \in Range(to_client[c]) : m.type = "TCP_SHARE_ACK" =>
    /\ \A e \in table[d] : e.file_id # m.file_id
    /\ \A n \in Range(to_client[d]) :
         n.type = "TCP_SHARE_ACK" /\ n.file_id = m.file_id => c = d

\* The directory has the file under the slot of c.
Owned(c, id, h) ==
  \E i \in ClientSlot :
    /\ clients[i].active /\ clients[i].fd = c
    /\ [file_id |-> id, hash |-> h, owner_id |-> clients[i].client_id] \in files

\* What a client serves the directory lists, and the other way round.
Offers(c) ==
  pc[c] # "gone" =>
    /\ \A e \in table[c] : Owned(c, e.file_id, e.hash)
    /\ \A m \in Range(to_client[c]) :
         m.type = "TCP_SHARE_ACK" => Owned(c, m.file_id, request[c].hash)

Listed(f, i) ==
  clients[i].active /\ clients[i].client_id = f.owner_id =>
    pc[clients[i].fd] = "gone" \/ Serves(clients[i].fd, f.file_id, f.hash)

Served ==
  /\ \A c \in Client : Offers(c)
  /\ \A f \in files, i \in ClientSlot : Listed(f, i)

IInv ==
  /\ TypeOK /\ Wired /\ Asked /\ Activity /\ Open /\ Round
  /\ RepliesInStep /\ Fresh /\ TablesConsistent
  /\ FileIdsNeverReused /\ Unclaimed /\ Served /\ LocationLeadsToOwner

-----------------------------------------------------------------------------
(* Streams.  Range hides positions wherever they do not matter. *)

\* An empty stream.
LEMMA EmptyFacts ==
  /\ Range(<<>>) = {} /\ RegisterFirst(<<>>) /\ Len(<<>>) = 0
  /\ \A S : <<>> \in Seq(S)
BY DEF Range, RegisterFirst

\* A stream is empty when its length is 0, and when nothing is in it.
LEMMA SeqFacts ==
  ASSUME NEW S, NEW s \in Seq(S)
  PROVE  /\ Len(s) \in Nat
         /\ (Len(s) = 0) <=> (s = <<>>)
         /\ (Range(s) = {}) <=> (s = <<>>)
         /\ Range(s) \subseteq S
<1>1. Len(s) \in Nat /\ DOMAIN s = 1 .. Len(s) /\ ((Len(s) = 0) <=> (s = <<>>))
  OBVIOUS
<1>2. s # <<>> => s[1] \in Range(s)
  BY <1>1 DEF Range
<1>3. Range(s) \subseteq S
  BY DEF Range
<1> QED BY <1>1, <1>2, <1>3, EmptyFacts, Zenon

\* What a stream is after a message has been written to it.
LEMMA AppendFacts ==
  ASSUME NEW S, NEW s \in Seq(S), NEW m \in S
  PROVE  /\ Append(s, m) \in Seq(S)
         /\ Append(s, m) # <<>> /\ Len(Append(s, m)) = Len(s) + 1
         /\ Range(Append(s, m)) = Range(s) \cup {m}
         /\ RegisterFirst(s) /\ (s = <<>> \/ m.type # "TCP_REGISTER")
              => RegisterFirst(Append(s, m))
<1> DEFINE t == Append(s, m)
<1>1. /\ t \in Seq(S) /\ Len(t) = Len(s) + 1 /\ Len(s) \in Nat
      /\ DOMAIN s = 1 .. Len(s) /\ DOMAIN t = 1 .. Len(s) + 1
      /\ \A k \in 1 .. Len(s) : t[k] = s[k]
      /\ t[Len(s) + 1] = m
  OBVIOUS
<1> HIDE DEF t
<1>2. t # <<>>
  BY <1>1
<1>3. Range(t) = Range(s) \cup {m}
  <2>1. ASSUME NEW x \in Range(t) PROVE x \in Range(s) \cup {m}
    <3>1. PICK k \in 1 .. Len(s) + 1 : x = t[k]
      BY <1>1, <2>1, Zenon DEF Range
    <3> QED BY <1>1, <3>1 DEF Range
  <2>2. ASSUME NEW x \in Range(s) PROVE x \in Range(t)
    <3>1. PICK k \in 1 .. Len(s) : x = s[k]
      BY <1>1, <2>2, Zenon DEF Range
    <3> QED BY <1>1, <3>1 DEF Range
  <2>3. m \in Range(t)
    BY <1>1 DEF Range
  <2> QED BY <2>1, <2>2, <2>3, Zenon
<1>4. ASSUME RegisterFirst(s), s = <<>> \/ m.type # "TCP_REGISTER"
      PROVE  RegisterFirst(t)
  <2>1. s = <<>> => Len(s) = 0
    OBVIOUS
  <2> QED BY <1>1, <1>4, <2>1 DEF RegisterFirst
<1> QED BY <1>1, <1>2, <1>3, <1>4, Zenon DEF t

\* What is left of a stream after its first message has been read.
LEMMA TailFacts ==
  ASSUME NEW S, NEW s \in Seq(S), s # <<>>
  PROVE  /\ Head(s) \in Range(s) /\ Head(s) \in S
         /\ Head(s) = s[1] /\ 1 \in DOMAIN s
         /\ Tail(s) \in Seq(S) /\ Len(Tail(s)) = Len(s) - 1
         /\ Range(Tail(s)) \subseteq Range(s)
         /\ Range(s) \subseteq {Head(s)} \cup Range(Tail(s))
         /\ RegisterFirst(s) => /\ RegisterFirst(Tail(s))
                                /\ \A m \in Range(Tail(s)) : m.type # "TCP_REGISTER"
<1> DEFINE t == Tail(s)
<1>1. /\ t \in Seq(S) /\ Len(s) \in Nat \ {0} /\ Len(t) = Len(s) - 1
      /\ DOMAIN s = 1 .. Len(s) /\ DOMAIN t = 1 .. Len(s) - 1
      /\ \A k \in 1 .. Len(s) - 1 : t[k] = s[k + 1]
      /\ Head(s) = s[1] /\ s[1] \in S
  OBVIOUS
<1> HIDE DEF t
<1>2. Head(s) \in Range(s)
  BY <1>1 DEF Range
<1>3. Range(t) \subseteq Range(s)
  <2> SUFFICES ASSUME NEW x \in Range(t) PROVE x \in Range(s)
    BY Zenon
  <2>1. PICK k \in 1 .. Len(s) - 1 : x = t[k]
    BY <1>1, Zenon DEF Range
  <2>2. x = s[k + 1] /\ k + 1 \in 1 .. Len(s)
    BY <1>1, <2>1
  <2> QED BY <1>1, <2>2, Zenon DEF Range
<1>4. Range(s) \subseteq {Head(s)} \cup Range(t)
  <2> SUFFICES ASSUME NEW x \in Range(s), x # Head(s) PROVE x \in Range(t)
    BY Zenon
  <2>1. PICK k \in 1 .. Len(s) : x = s[k]
    BY <1>1, Zenon DEF Range
  <2>2. k - 1 \in 1 .. Len(s) - 1 /\ x = t[k - 1]
    BY <1>1, <2>1
  <2> QED BY <1>1, <2>2, Zenon DEF Range
<1>5. ASSUME RegisterFirst(s), NEW k \in DOMAIN t PROVE t[k].type # "TCP_REGISTER"
  <2>1. k \in Nat \ {0} /\ t[k] = s[k + 1] /\ k + 1 \in DOMAIN s
    BY <1>1
  <2> QED BY <1>5, <2>1 DEF RegisterFirst
<1>6. RegisterFirst(s) => /\ RegisterFirst(t)
                          /\ \A m \in Range(t) : m.type # "TCP_REGISTER"
  BY <1>5, Zenon DEF RegisterFirst, Range
<1> QED BY <1>1, <1>2, <1>3, <1>4, <1>6 DEF t

\* A stream whose first message has been read in part.
LEMMA PartFacts ==
  ASSUME NEW S, Rest \in S, NEW s \in Seq(S), s # <<>>
  PROVE  /\ <<Rest>> \o Tail(s) \in Seq(S)
         /\ <<Rest>> \o Tail(s) # <<>>
         /\ Range(<<Rest>> \o Tail(s)) \subseteq {Rest} \cup Range(s)
         /\ Range(s) \subseteq {Head(s)} \cup Range(<<Rest>> \o Tail(s))
         /\ RegisterFirst(s) => RegisterFirst(<<Rest>> \o Tail(s))
         /\ Len(<<Rest>> \o Tail(s)) = Len(s)
<1> DEFINE t == <<Rest>> \o Tail(s)
<1>1. /\ t \in Seq(S) /\ Len(s) \in Nat \ {0} /\ Len(t) = Len(s)
      /\ DOMAIN s = 1 .. Len(s) /\ DOMAIN t = 1 .. Len(s)
      /\ t[1] = Rest
      /\ \A k \in 2 .. Len(s) : t[k] = s[k]
      /\ Head(s) = s[1]
  OBVIOUS
<1> HIDE DEF t
<1>3. t # <<>>
  BY <1>1, Zenon
<1>4. Range(t) \subseteq {Rest} \cup Range(s)
  <2> SUFFICES ASSUME NEW x \in Range(t) PROVE x = Rest \/ x \in Range(s)
    BY Zenon
  <2>1. PICK k \in 1 .. Len(s) : x = t[k]
    BY <1>1, Zenon DEF Range
  <2>2. CASE k = 1
    BY <1>1, <2>1, <2>2, Zenon
  <2>3. CASE k # 1
    <3>1. k \in 2 .. Len(s)
      BY <1>1, <2>3
    <3> QED BY <1>1, <2>1, <3>1, Zenon DEF Range
  <2> QED BY <2>2, <2>3, Zenon
<1>5. Range(s) \subseteq {Head(s)} \cup Range(t)
  <2> SUFFICES ASSUME NEW x \in Range(s), x # Head(s) PROVE x \in Range(t)
    BY Zenon
  <2>1. PICK k \in 1 .. Len(s) : x = s[k]
    BY <1>1, Zenon DEF Range
  <2>2. k \in 2 .. Len(s) /\ x = t[k]
    BY <1>1, <2>1
  <2> QED BY <1>1, <2>2, Zenon DEF Range
<1>6. RegisterFirst(s) => RegisterFirst(t)
  <2> SUFFICES ASSUME RegisterFirst(s), NEW k \in 1 .. Len(s),
                      t[k].type = "TCP_REGISTER"
               PROVE  k = 1
    BY <1>1, Zenon DEF RegisterFirst
  <2>1. CASE k \in 2 .. Len(s)
    BY <1>1, <2>1, Zenon DEF RegisterFirst
  <2> QED BY <1>1, <2>1
<1> QED BY <1>1, <1>3, <1>4, <1>5, <1>6, Zenon DEF t

\* What a client that leaves writes: last, if anything, and the end.
LEMMA LeaveFacts ==
  ASSUME NEW S, NEW s \in Seq(S), NEW u \in S
  PROVE  /\ s \o <<>> \o <<u>> = Append(s, u)
         /\ \A v : s \o <<v>> \o <<u>> = Append(Append(s, v), u)
OBVIOUS

-----------------------------------------------------------------------------
(* Messages and types *)

\* Kinds of messages are told apart by their type.
LEMMA MessageFacts ==
  /\ EOF.type = "EOF" /\ Rest.type = "rest" /\ Rest \in Request
  /\ NoRequest.type = "none"
  /\ \A m \in Request : m # EOF /\ m.type # "EOF"
  /\ \A m \in Reply : m # EOF /\ m.type # "EOF"
BY DEF EOF, Rest, NoRequest, Request, Reply

\* What most steps need of the type invariant.
LEMMA TypeFacts ==
  ASSUME TypeOK
  PROVE  /\ \A i \in ClientSlot : clients[i].fd \in Client \cup {NoFd}
         /\ \A k \in DOMAIN backlog : backlog[k] \in Client
         /\ \A k \in DOMAIN todo : todo[k] \in Client
         /\ \A d \in Client : to_server[d] \in Seq(Request \cup {EOF})
         /\ \A d \in Client : to_client[d] \in Seq(Reply \cup {EOF})
         /\ \A d \in Client : Range(to_server[d]) \subseteq Request \cup {EOF}
         /\ \A d \in Client : Range(to_client[d]) \subseteq Reply \cup {EOF}
<1>1. /\ \A i \in ClientSlot : clients[i].fd \in Client \cup {NoFd}
      /\ \A k \in DOMAIN backlog : backlog[k] \in Client
      /\ \A k \in DOMAIN todo : todo[k] \in Client
      /\ \A d \in Client : to_server[d] \in Seq(Request \cup {EOF})
      /\ \A d \in Client : to_client[d] \in Seq(Reply \cup {EOF})
  BY DEF TypeOK
<1> QED BY <1>1, SeqFacts, Zenon

\* What a reply on its way says, by its type.
LEMMA ReplyFacts ==
  ASSUME TypeOK, NEW d \in Client, NEW m \in Range(to_client[d])
  PROVE  /\ m = EOF \/ m \in Reply
         /\ m.type = "TCP_FILE_LOCATION" => m.peer_port \in Client
         /\ m.type = "TCP_SHARE_ACK" =>
              m.file_id \in Nat /\ m = [type |-> "TCP_SHARE_ACK", file_id |-> m.file_id]
<1>1. m = EOF \/ m \in Reply
  BY TypeFacts, Zenon
<1> QED BY <1>1 DEF Reply, EOF

-----------------------------------------------------------------------------
(* Cardinalities *)

(***************************************************************************)
(* What the two tables need to know about cardinalities.  It is a theorem  *)
(* of the library of finite sets (CountingHolds in FileSharingProofs); the *)
(* lemmas that count take it as a hypothesis.                              *)
(***************************************************************************)
Counting ==
  /\ \A S : IsFiniteSet(S) => Cardinality(S) \in Nat
  /\ IsFiniteSet(ClientSlot) /\ Cardinality(ClientSlot) = MAX_CLIENTS
  /\ \A S, x : IsFiniteSet(S) /\ x \notin S =>
       IsFiniteSet(S \cup {x}) /\ Cardinality(S \cup {x}) = Cardinality(S) + 1
  /\ \A S, x : IsFiniteSet(S) /\ x \in S =>
       IsFiniteSet(S \ {x}) /\ Cardinality(S \ {x}) = Cardinality(S) - 1
  /\ \A S : \A T \in SUBSET S : IsFiniteSet(S) =>
       IsFiniteSet(T) /\ Cardinality(T) <= Cardinality(S)

\* A finite set has a natural number of elements, and there are MAX_CLIENTS
\* slots.
LEMMA CountFacts ==
  ASSUME Counting
  PROVE  /\ \A S : IsFiniteSet(S) => Cardinality(S) \in Nat
         /\ IsFiniteSet(ClientSlot) /\ Cardinality(ClientSlot) = MAX_CLIENTS
BY Zenon DEF Counting

\* A new element counts for one.
LEMMA CountAdded ==
  ASSUME Counting, NEW S, NEW x, IsFiniteSet(S), x \notin S
  PROVE  IsFiniteSet(S \cup {x}) /\ Cardinality(S \cup {x}) = Cardinality(S) + 1
BY Zenon DEF Counting

\* An element taken out counts for one.
LEMMA CountRemoved ==
  ASSUME Counting, NEW S, NEW x, IsFiniteSet(S), x \in S
  PROVE  IsFiniteSet(S \ {x}) /\ Cardinality(S \ {x}) = Cardinality(S) - 1
BY Zenon DEF Counting

\* A part is finite and not larger.
LEMMA CountPart ==
  ASSUME Counting, NEW S, NEW T, IsFiniteSet(S), T \subseteq S
  PROVE  IsFiniteSet(T) /\ Cardinality(T) <= Cardinality(S)
BY Zenon DEF Counting

-----------------------------------------------------------------------------
(* What the server reads *)

\* A socket the server reads from is that of a client that waits, and reads
\* nothing but the answer, or that has left.
LEMMA ServeFacts ==
  ASSUME IInv, running, NEW i \in ClientSlot, NEW fd \in Client, clients[i].fd = fd,
         to_server[fd] # <<>>
  PROVE  /\ PeerClosed(fd) => pc[fd] = "gone"
         /\ ~ PeerClosed(fd) =>
              /\ pc[fd] = "waiting" /\ to_client[fd] = <<>>
              /\ Len(to_server[fd]) = 1
              /\ Head(to_server[fd]) \in {request[fd], Rest}
         /\ \A n \in Range(to_client[fd]) : n = EOF
         /\ pc[fd] \in {"waiting", "gone"}
<1> USE ServerAssumption, MessageFacts DEF IInv
<1>1. Connected(fd)
  BY Zenon DEF Connected
<1>2. pc[fd] \in {"waiting", "gone"}
  BY Zenon DEF Asked, Asks, TypeOK
<1>3. \A n \in Range(to_client[fd]) : n = EOF
  BY Zenon DEF RepliesInStep, Range
<1>4. pc[fd] = "waiting" => ~ PeerClosed(fd)
  BY Zenon DEF Asked, Asks, PeerClosed
<1>5. pc[fd] = "gone" => PeerClosed(fd)
  BY <1>1, Zenon DEF Asked, Asks
<1>6. pc[fd] = "waiting" =>
        /\ Len(to_server[fd]) = 1
        /\ Head(to_server[fd]) \in {request[fd], Rest}
  <2> DEFINE s == to_server[fd]
             S == Request \cup {EOF}
  <2>1. s \in Seq(S) /\ s # <<>>
    BY TypeFacts, Zenon
  <2>2. Len(s) \in Nat \ {0} /\ Head(s) \in Range(s)
    <3> HIDE DEF s, S, IInv
    <3> QED BY <2>1, TailFacts
  <2>3. pc[fd] = "waiting" => Len(s) <= 1 /\ Range(s) \subseteq {request[fd], Rest}
    BY Zenon DEF Asked, Asks
  <2>4. pc[fd] = "waiting" => Head(s) \in {request[fd], Rest}
    BY <2>2, <2>3, Zenon
  <2>5. pc[fd] = "waiting" => Len(s) = 1
    <3> DEFINE n == Len(s)
    <3>1. n \in Nat \ {0} /\ (pc[fd] = "waiting" => n <= 1)
      BY <2>2, <2>3, Zenon
    <3> HIDE DEF n
    <3>2. pc[fd] = "waiting" => n = 1
      BY <3>1
    <3> QED BY <3>2, Zenon DEF n
  <2> QED BY <2>4, <2>5, Zenon
<1>7. pc[fd] = "waiting" => to_client[fd] = <<>>
  <2>1. pc[fd] = "waiting" => Range(to_client[fd]) = {}
    BY <1>1, <1>3, Zenon DEF Open
  <2>2. to_client[fd] \in Seq(Reply \cup {EOF})
    BY TypeFacts, Zenon
  <2> QED BY <2>1, <2>2, SeqFacts, Zenon
<1> QED BY <1>2, <1>3, <1>4, <1>5, <1>6, <1>7, Zenon

\* The server looks at the k-th socket of its round and leaves t unread.
Reads(k, t) ==
  /\ k \in DOMAIN todo
  /\ todo' = [j \in DOMAIN todo \ {k} |-> todo[j]]
  /\ to_server' = [to_server EXCEPT ![todo[k]] = t]
  /\ t \in Seq(Request \cup {EOF}) /\ RegisterFirst(t)
  /\ Len(t) <= Len(to_server[todo[k]])
  /\ Range(t) \subseteq Range(to_server[todo[k]]) \cup {Rest}
  /\ PeerClosed(todo[k]) => EOF \in Range(t)
  /\ UNCHANGED <<running, backlog, pc, request, table>>
  /\ \A j \in ClientSlot : clients'[j].fd \in {clients[j].fd, NoFd}

\* Whatever it does, the streams and the round stay in order.
LEMMA ReadInv ==
  ASSUME IInv, NEW k, NEW t, Reads(k, t)
  PROVE  /\ Asked' /\ Round' /\ running
         /\ todo' \in [DOMAIN todo' -> Client] /\ DOMAIN todo' \subseteq ClientSlot
         /\ to_server' \in [Client -> Seq(Request \cup {EOF})]
         /\ \A d \in Client : Range(to_server'[d]) \subseteq Range(to_server[d]) \cup {Rest}
         /\ \A d \in Client : Connected(d)' => Connected(d)
         /\ \A l \in DOMAIN backlog :
              \A m \in Range(to_server'[backlog[l]]) : m.type # "TCP_SHARE_FILE"
<1> USE ServerAssumption, MessageFacts DEF IInv
<1>0. PICK fd \in Client : fd = todo[k]
  BY TypeFacts, Zenon DEF Reads
<1>1. /\ to_server[fd] # <<>> /\ k \in DOMAIN todo
      /\ UNCHANGED <<running, backlog, pc, request, table>>
  BY <1>0, Zenon DEF Reads, Round
<1>2. /\ to_server'[fd] = t
      /\ \A d \in Client \ {fd} : to_server'[d] = to_server[d]
  BY <1>0, <1>1, Zenon DEF Reads, TypeOK
<1>3. running
  BY <1>1, Zenon DEF Round, TypeOK
<1>4. \A d \in Client : Connected(d)' => Connected(d)
  BY <1>1, Zenon DEF Reads, Connected
<1>5. Asked'
  <2>1. Asks(fd)'
    <3>1. Asks(fd) /\ Len(to_server[fd]) \in Nat /\ Len(t) \in Nat
      BY TypeFacts, SeqFacts, SMT, SMTT(20) DEF Asked, Reads
    <3>2. /\ Len(t) <= Len(to_server[fd]) /\ RegisterFirst(t)
          /\ Range(t) \subseteq Range(to_server[fd]) \cup {Rest}
          /\ PeerClosed(fd) => EOF \in Range(t)
      BY <1>0, Zenon DEF Reads
    <3>3. PeerClosed(fd)' <=> EOF \in Range(t)
      BY <1>2, Zenon DEF PeerClosed
    <3>4. pc[fd] \notin {"start", "connected", "ready"}
      BY <1>1, <3>1, Zenon DEF Asks
    <3>5. pc[fd] = "waiting" =>
            /\ request[fd].type \in {"TCP_REGISTER", "TCP_SHARE_FILE",
                                     "TCP_REQUEST_FILE", "TCP_LIST_FILES"}
            /\ Len(t) <= 1
            /\ Range(t) \subseteq {request[fd], Rest}
      BY <3>1, <3>2 DEF Asks
    <3>6. pc[fd] = "gone" /\ Connected(fd) => EOF \in Range(t)
      BY <3>1, <3>2, Zenon DEF Asks
    <3>7. \A m \in Range(t) : m.type = "TCP_REGISTER" => m.udp_port = fd
      BY <3>1, <3>2, Zenon DEF Asks
    <3> HIDE DEF IInv
    <3> QED BY <1>1, <1>2, <1>4, <3>2, <3>3, <3>4, <3>5, <3>6, <3>7, Zenon
               DEF Asks
  <2>2. ASSUME NEW d \in Client \ {fd} PROVE Asks(d)'
    <3>1. PeerClosed(d)' <=> PeerClosed(d)
      BY <1>2, Zenon DEF PeerClosed
    <3> QED BY <1>1, <1>2, <1>4, <3>1, Zenon DEF Asked, Asks
  <2> QED BY <2>1, <2>2, Zenon DEF Asked
<1>6. /\ DOMAIN todo' = DOMAIN todo \ {k}
      /\ \A j \in DOMAIN todo' : todo'[j] = todo[j] /\ todo[j] # fd /\ todo[j] \in Client
  BY <1>0, <1>1, TypeFacts, Zenon DEF Reads, Round
<1>7. Round'
  BY <1>1, <1>2, <1>3, <1>6 DEF Round
<1>8. to_server' \in [Client -> Seq(Request \cup {EOF})]
  BY Zenon DEF Reads, TypeOK
<1>9. \A d \in Client : Range(to_server'[d]) \subseteq Range(to_server[d]) \cup {Rest}
  BY <1>0, <1>2, Zenon DEF Reads
<1>10. todo' \in [DOMAIN todo' -> Client] /\ DOMAIN todo' \subseteq ClientSlot
  <2>1. todo' = [j \in DOMAIN todo' |-> todo'[j]]
    BY <1>6, Zenon DEF Reads
  <2> QED BY <1>6, <2>1, Zenon DEF TypeOK
<1>11. \A l \in DOMAIN backlog :
         \A m \in Range(to_server'[backlog[l]]) : m.type # "TCP_SHARE_FILE"
  BY <1>9, TypeFacts, Zenon DEF Activity
<1> QED BY <1>3, <1>4, <1>5, <1>7, <1>8, <1>9, <1>10, <1>11, Zenon

-----------------------------------------------------------------------------
(* What the server writes *)

\* The registered clients and their files stay what they are.
Settled ==
  /\ UNCHANGED <<num_clients, next_client_id, files, next_file_id>>
  /\ \A i \in ClientSlot : /\ clients'[i].active = clients[i].active
                           /\ clients[i].active => clients'[i] = clients[i]

\* What the server may write without entering a client or a file.
Harmless(m) ==
  /\ m.type \notin {"TCP_REGISTER_ACK", "TCP_SHARE_ACK"}
  /\ m.type = "TCP_FILE_LOCATION" =>
       /\ m.peer_ip = m.peer_port /\ m.peer_port \in Client
       /\ pc[m.peer_port] = "gone" \/ Serves(m.peer_port, m.file_id, m.hash)

\* Steps of the server that change no table keep what the tables promise.
LEMMA SettledInv ==
  ASSUME IInv, UNCHANGED clientVars, Settled, Wired',
         \A d \in Client : Range(to_client[d]) \subseteq Range(to_client'[d]),
         \A d \in Client : \A m \in Range(to_client'[d]) :
           m \in Range(to_client[d]) \/ Harmless(m)
  PROVE  /\ Fresh' /\ TablesConsistent' /\ FileIdsNeverReused' /\ Unclaimed'
         /\ Served' /\ LocationLeadsToOwner'
         /\ \A d \in Client : Acknowledged(d)' => HasSlot(d)'
<1> USE ServerAssumption, MessageFacts DEF IInv
<1>1. /\ UNCHANGED <<pc, request, table, num_clients, next_client_id, files, next_file_id>>
      /\ \A i \in ClientSlot : /\ clients'[i].active = clients[i].active
                               /\ clients[i].active => clients'[i] = clients[i]
  BY Zenon DEF Settled, clientVars
<1>2. \A d \in Client : \A m \in Range(to_client'[d]) :
        m.type \in {"TCP_REGISTER_ACK", "TCP_SHARE_ACK"} => m \in Range(to_client[d])
  BY Zenon DEF Harmless
<1>3. Fresh'
  BY <1>1, <1>2, Zenon DEF Fresh
<1>4. TablesConsistent'
  <2>1. {i \in ClientSlot : clients'[i].active} = {i \in ClientSlot : clients[i].active}
    BY <1>1, Zenon
  <2>2. \A i, j \in ClientSlot : clients'[i].fd # NoFd /\ clients'[i].fd = clients'[j].fd => i = j
    BY Zenon DEF Wired
  <2>3. \A f \in files : \E i \in ClientSlot :
          clients'[i].active /\ clients'[i].client_id = f.owner_id
    BY <1>1 DEF TablesConsistent
  <2>4. num_clients' = Cardinality({i \in ClientSlot : clients'[i].active})
    BY <1>1, <2>1, Zenon DEF TablesConsistent
  <2>5. \A i, j \in ClientSlot : i # j /\ clients'[i].active /\ clients'[j].active
          => clients'[i].client_id # clients'[j].client_id
    BY <1>1 DEF TablesConsistent
  <2>6. \A f, g \in files : f.file_id = g.file_id => f = g
    BY Zenon DEF TablesConsistent
  <2> HIDE DEF IInv
  <2> QED BY <1>1, <2>2, <2>3, <2>4, <2>5, <2>6, Zenon DEF TablesConsistent
<1>5. FileIdsNeverReused' /\ Unclaimed'
  BY <1>1, <1>2 DEF FileIdsNeverReused, Unclaimed
<1>6. ASSUME NEW p \in Client, NEW id, NEW h, Serves(p, id, h) PROVE Serves(p, id, h)'
  BY <1>1, <1>6, Zenon DEF Serves
<1>7. Served'
  <2>1. ASSUME NEW d \in Client, NEW id, NEW h, Owned(d, id, h) PROVE Owned(d, id, h)'
    BY <1>1, <2>1, Zenon DEF Owned
  <2>2. ASSUME NEW d \in Client PROVE Offers(d)'
    BY <1>1, <1>2, <2>1, Zenon DEF Served, Offers
  <2>3. ASSUME NEW f \in files, NEW i \in ClientSlot PROVE Listed(f, i)'
    <3>1. clients[i].active => clients[i].fd \in Client
      BY TypeFacts, Zenon DEF Wired
    <3> QED BY <1>1, <1>6, <3>1, Zenon DEF Served, Listed
  <2> QED BY <1>1, <2>2, <2>3, Zenon DEF Served
<1>8. LocationLeadsToOwner'
  <2> SUFFICES ASSUME NEW d \in Client, NEW m \in Range(to_client'[d]),
                      m.type = "TCP_FILE_LOCATION"
               PROVE  /\ m.peer_ip = m.peer_port
                      /\ pc[m.peer_port] = "gone" \/ Serves(m.peer_port, m.file_id, m.hash)'
    BY <1>1, Zenon DEF LocationLeadsToOwner
  <2>1. /\ m.peer_ip = m.peer_port /\ m.peer_port \in Client
        /\ pc[m.peer_port] = "gone" \/ Serves(m.peer_port, m.file_id, m.hash)
    BY ReplyFacts, Zenon DEF LocationLeadsToOwner, Harmless
  <2> QED BY <1>6, <2>1, Zenon
<1>9. ASSUME NEW d \in Client, Acknowledged(d)' PROVE HasSlot(d)'
  <2>1. Acknowledged(d)
    BY <1>1, <1>2, <1>9, Zenon DEF Acknowledged, Registered
  <2> QED BY <1>1, <2>1 DEF Activity, HasSlot
<1> QED BY <1>3, <1>4, <1>5, <1>7, <1>8, <1>9, Zenon

\* The server reads a request from the k-th socket of its round and writes r.
Answers(k, i, fd, r) ==
  /\ i \in ClientSlot /\ fd \in Client /\ clients[i].fd = fd /\ todo[k] = fd
  /\ Head(to_server[fd]) \notin {EOF, Rest}
  /\ Reads(k, Tail(to_server[fd]))
  /\ r \in Reply /\ send_response(i, r)
  /\ Head(to_server[fd]) = request[fd] => r.type = "TCP_ERROR" \/ Expected(fd, r)

\* The reply is the only thing its client can read, or the client has left and
\* the reply is lost.
Answered(fd, r) ==
  /\ RepliesInStep' /\ Open'
  /\ to_client' \in [Client -> Seq(Reply \cup {EOF})]
  /\ \A d \in Client \ {fd} : to_client'[d] = to_client[d]
  /\ \/ /\ pc[fd] = "waiting" /\ Head(to_server[fd]) = request[fd]
        /\ Range(to_client[fd]) = {} /\ Range(to_client'[fd]) = {r}
     \/ pc[fd] = "gone" /\ to_client' = to_client

\* Requests and replies stay in step.
LEMMA AnswerFacts ==
  ASSUME IInv, NEW k, NEW i, NEW fd, NEW r, Answers(k, i, fd, r)
  PROVE  Answered(fd, r)
<1> USE ServerAssumption, MessageFacts
<1>a. /\ i \in ClientSlot /\ fd \in Client /\ clients[i].fd = fd
      /\ Head(to_server[fd]) \notin {EOF, Rest}
      /\ to_server' = [to_server EXCEPT ![fd] = Tail(to_server[fd])]
      /\ UNCHANGED <<running, pc, request>>
      /\ r \in Reply /\ send_response(i, r)
      /\ Head(to_server[fd]) = request[fd] => r.type = "TCP_ERROR" \/ Expected(fd, r)
  BY Zenon DEF Answers, Reads
<1>b. running /\ \A d \in Client : Connected(d)' => Connected(d)
  BY ReadInv, Zenon DEF Answers
<1>c. to_server[fd] # <<>>
  BY Zenon DEF Answers, Reads, IInv, Round
<1>1. /\ PeerClosed(fd) => pc[fd] = "gone"
      /\ ~ PeerClosed(fd) =>
              /\ pc[fd] = "waiting" /\ to_client[fd] = <<>>
              /\ Len(to_server[fd]) = 1
              /\ Head(to_server[fd]) = request[fd]
      /\ \A n \in Range(to_client[fd]) : n = EOF
  BY <1>a, <1>b, <1>c, ServeFacts, Zenon
<1> USE <1>a, <1>b, <1>c
<1>2. TypeOK /\ RepliesInStep /\ Open
  BY Zenon DEF IInv
<1>3. \A d \in Client \ {fd} : to_server'[d] = to_server[d]
  BY <1>2, Zenon DEF TypeOK
<1>4. ASSUME NEW d \in Client, to_client'[d] = to_client[d],
             d = fd => \A n \in Range(to_client[fd]) : n = EOF,
             NEW l \in DOMAIN to_client'[d], to_client'[d][l] # EOF
      PROVE  /\ l = 1 /\ pc[d] = "waiting" /\ to_server'[d] = <<>>
             /\ to_client'[d][l].type = "TCP_ERROR" \/ Expected(d, to_client'[d][l])
  BY <1>2, <1>3, <1>4 DEF RepliesInStep, Range
<1>5. \A d \in Client : \A m : Expected(d, m)' <=> Expected(d, m)
  BY Zenon DEF Expected, RegisterReply, ShareReply, ListReply, LocationReply
<1>6. CASE PeerClosed(fd)
  <2>1. to_client' = to_client
    BY <1>6, Zenon DEF send_response
  <2>2. RepliesInStep'
    <3> SUFFICES ASSUME NEW d \in Client, NEW l \in DOMAIN to_client'[d],
                        to_client'[d][l] # EOF
                 PROVE  /\ l = 1 /\ pc[d] = "waiting" /\ to_server'[d] = <<>>
                        /\ to_client'[d][l].type = "TCP_ERROR" \/ Expected(d, to_client'[d][l])
      BY <1>5, SMT, SMTT(20) DEF RepliesInStep
    <3> QED BY <1>1, <1>4, <2>1, Zenon
  <2>3. Open'
    BY <1>2, <2>1, Zenon DEF Open
  <2>4. to_client' \in [Client -> Seq(Reply \cup {EOF})]
    BY <1>2, <2>1, Zenon DEF TypeOK
  <2> QED BY <1>1, <1>6, <2>1, <2>2, <2>3, <2>4, Zenon DEF Answered
<1>7. CASE ~ PeerClosed(fd)
  <2>1. to_client' = [to_client EXCEPT ![fd] = Append(<<>>, r)]
    BY <1>1, <1>7, Zenon DEF send_response
  <2>2. /\ to_client'[fd] = <<r>>
        /\ \A d \in Client \ {fd} : to_client'[d] = to_client[d]
    BY <1>2, <2>1 DEF TypeOK
  <2>3. Range(to_client[fd]) = {} /\ Range(to_client'[fd]) = {r}
    <3>1. Range(<<r>>) = {r}
      BY DEF Range
    <3> QED BY <1>1, <1>7, <2>2, <3>1, EmptyFacts, Zenon
  <2>4. to_client' \in [Client -> Seq(Reply \cup {EOF})]
    <3>1. <<r>> \in Seq(Reply \cup {EOF})
      OBVIOUS
    <3>2. to_client' = [to_client EXCEPT ![fd] = <<r>>]
      BY <2>1
    <3> QED BY <1>2, <3>1, <3>2, Zenon DEF TypeOK
  <2>5. to_server'[fd] = <<>>
    <3> DEFINE s == to_server[fd]
               S == Request \cup {EOF}
    <3>1. s \in Seq(S) /\ Len(s) = 1
      BY <1>1, <1>2, <1>7, TypeFacts, Zenon
    <3>2. Tail(s) = <<>>
      <4> HIDE DEF s, S
      <4>1. s # <<>>
        BY <3>1
      <4>2. Tail(s) \in Seq(S) /\ Len(Tail(s)) = 0
        BY <3>1, <4>1, TailFacts
      <4> QED BY <4>2, SeqFacts, Zenon
    <3>3. to_server'[fd] = Tail(s)
      BY <1>2, Zenon DEF TypeOK
    <3> QED BY <3>2, <3>3, Zenon
  <2>6. RepliesInStep'
    <3> SUFFICES ASSUME NEW d \in Client, NEW l \in DOMAIN to_client'[d],
                        to_client'[d][l] # EOF
                 PROVE  /\ l = 1 /\ pc[d] = "waiting" /\ to_server'[d] = <<>>
                        /\ to_client'[d][l].type = "TCP_ERROR" \/ Expected(d, to_client'[d][l])
      BY <1>5, SMT, SMTT(20) DEF RepliesInStep
    <3>1. CASE d = fd
      <4>1. l = 1 /\ to_client'[d][l] = r
        BY <2>2, <3>1, SMT, SMTT(20)
      <4> QED BY <1>1, <1>7, <2>5, <3>1, <4>1, Zenon
    <3>2. CASE d # fd
      BY <1>4, <2>2, <3>2, Zenon
    <3> QED BY <3>1, <3>2, Zenon
  <2>7. Open'
    BY <1>2, <2>2, <2>3, Zenon DEF Open
  <2> QED BY <1>1, <1>7, <2>2, <2>3, <2>4, <2>6, <2>7, Zenon DEF Answered
<1> QED BY <1>6, <1>7, Zenon

\* A step of a round that changes no table.
LEMMA QuietInv ==
  ASSUME IInv, NEW k, NEW t, Reads(k, t), UNCHANGED tables,
         RepliesInStep', Open', to_client' \in [Client -> Seq(Reply \cup {EOF})],
         \A d \in Client : Range(to_client[d]) \subseteq Range(to_client'[d]),
         \A d \in Client : \A m \in Range(to_client'[d]) :
           m \in Range(to_client[d]) \/ Harmless(m)
  PROVE  IInv'
<1> USE ServerAssumption, MessageFacts
<1>1. /\ TypeOK /\ Wired /\ Activity
      /\ UNCHANGED <<clients, num_clients, next_client_id, files, next_file_id,
                     running, backlog, pc, request, table>>
  BY Zenon DEF IInv, Reads, tables
<1>2. /\ Asked' /\ Round'
      /\ todo' \in [DOMAIN todo' -> Client] /\ DOMAIN todo' \subseteq ClientSlot
      /\ to_server' \in [Client -> Seq(Request \cup {EOF})]
      /\ \A d \in Client : Range(to_server'[d]) \subseteq Range(to_server[d]) \cup {Rest}
      /\ \A l \in DOMAIN backlog :
           \A m \in Range(to_server'[backlog[l]]) : m.type # "TCP_SHARE_FILE"
  BY ReadInv, Zenon
<1>3. TypeOK'
  BY <1>1, <1>2, Zenon DEF TypeOK
<1>4. Wired' /\ Settled /\ UNCHANGED clientVars
  BY <1>1, Zenon DEF Wired, Settled, clientVars
<1>5. /\ Fresh' /\ TablesConsistent' /\ FileIdsNeverReused' /\ Unclaimed'
      /\ Served' /\ LocationLeadsToOwner'
      /\ \A d \in Client : Acknowledged(d)' => HasSlot(d)'
  BY <1>4, SettledInv, Zenon
<1>6. ASSUME NEW j \in ClientSlot PROVE SlotActivity(j)'
  <2>1. SlotActivity(j) /\ clients[j].fd \in Client \cup {NoFd}
    BY <1>1, TypeFacts, Zenon DEF Activity
  <2>2. clients[j].active => clients[j].fd \in Client
    BY <1>1, <2>1, Zenon DEF Wired
  <2> QED BY <1>1, <1>2, <2>1, <2>2, Zenon DEF SlotActivity
<1>7. Activity'
  BY <1>1, <1>2, <1>5, <1>6, Zenon DEF Activity
<1> QED BY <1>2, <1>3, <1>4, <1>5, <1>7, Zenon DEF IInv
=============================================================================
