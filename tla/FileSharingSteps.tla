-------------------------- MODULE FileSharingSteps --------------------------
(***************************************************************************)
(* The steps of FileSharing preserve its inductive invariant in which a    *)
(* client writes, leaves or is accepted, or the server ends.               *)
(***************************************************************************)
EXTENDS FileSharingInvariant

-----------------------------------------------------------------------------
(* A client writes *)

\* The requests a client may write, by where it is.
MayAsk(c, m) ==
  /\ m \in Request
  /\ \/ pc[c] = "connected" /\ m = [type |-> "TCP_REGISTER", udp_port |-> c]
     \/ /\ pc[c] = "ready"
        /\ m.type \in {"TCP_SHARE_FILE", "TCP_REQUEST_FILE", "TCP_LIST_FILES"}

\* A client that registers or runs a command preserves the invariant.
LEMMA AskInv ==
  ASSUME IInv, NEW c \in Client, NEW m, MayAsk(c, m), Ask(c, m)
  PROVE  IInv'
<1> USE ServerAssumption, MessageFacts DEF IInv
<1>1. /\ m \in Request /\ m # EOF /\ m.type # "EOF" /\ m # Rest
      /\ m.type \in {"TCP_REGISTER", "TCP_SHARE_FILE",
                     "TCP_REQUEST_FILE", "TCP_LIST_FILES"}
      /\ m.type = "TCP_REGISTER" => m.udp_port = c /\ pc[c] = "connected"
      /\ m.type # "TCP_REGISTER" => pc[c] = "ready"
      /\ pc[c] \in {"connected", "ready"}
  BY DEF MayAsk, Rest
<1>2. to_server[c] = <<>>
  BY <1>1, Zenon DEF Asked, Asks
<1>3. /\ to_server'[c] \in Seq(Request \cup {EOF}) /\ to_server'[c] # <<>>
      /\ Len(to_server'[c]) = 1
      /\ Range(to_server'[c]) = {m}
      /\ RegisterFirst(to_server'[c])
  <2> DEFINE s == to_server[c]
  <2>1. to_server'[c] = Append(s, m) /\ s = <<>>
    BY <1>2, Zenon DEF Ask, TypeOK
  <2>2. m \in Request \cup {EOF} /\ s \in Seq(Request \cup {EOF})
    BY <1>1, TypeFacts, Zenon
  <2>3. /\ Append(s, m) \in Seq(Request \cup {EOF})
        /\ Append(s, m) # <<>> /\ Len(Append(s, m)) = Len(s) + 1
        /\ Range(Append(s, m)) = Range(s) \cup {m}
        /\ RegisterFirst(s) /\ s = <<>> => RegisterFirst(Append(s, m))
    <3> HIDE DEF s, IInv
    <3> QED BY <2>2, AppendFacts
  <2> QED BY <2>1, <2>3, EmptyFacts
<1>4. /\ pc'[c] = "waiting" /\ request'[c] = m
      /\ \A d \in Client \ {c} : /\ pc'[d] = pc[d]
                                 /\ request'[d] = request[d]
                                 /\ to_server'[d] = to_server[d]
      /\ UNCHANGED <<clients, num_clients, next_client_id, files, next_file_id,
                     todo, running, backlog, to_client, table>>
  BY Zenon DEF Ask, TypeOK, tables
<1>5. TypeOK'
  BY <1>1, <1>3, Zenon DEF TypeOK, Ask, tables
<1>6. Wired'
  BY <1>1, <1>4, TypeFacts DEF Wired
<1>7. Asked'
  <2> SUFFICES ASSUME NEW d \in Client PROVE Asks(d)'
    BY Zenon DEF Asked
  <2>1. Asks(c)'
    BY <1>1, <1>3, <1>4 DEF Asks
  <2>2. CASE d # c
    <3>1. Asks(d) /\ (Connected(d)' <=> Connected(d)) /\ (PeerClosed(d)' <=> PeerClosed(d))
      BY <1>4, <2>2, Zenon DEF Asked, Connected, PeerClosed
    <3> QED BY <1>4, <2>2, <3>1, Zenon DEF Asks
  <2> QED BY <2>1, <2>2, Zenon
<1>8. Activity'
  <2>1. ASSUME NEW i \in ClientSlot PROVE SlotActivity(i)'
    <3>1. CASE clients[i].fd = c
      <4>1. m.type = "TCP_SHARE_FILE" => HasSlot(c)
        BY <1>1, Zenon DEF Activity, Acknowledged, Registered
      <4>2. m.type = "TCP_SHARE_FILE" => clients[i].active
        BY <3>1, <4>1, Zenon DEF HasSlot, Wired
      <4>3. clients[i].active => pc[c] # "connected"
        BY <3>1, Zenon DEF Activity, SlotActivity
      <4> QED BY <1>1, <1>3, <1>4, <3>1, <4>2, <4>3 DEF SlotActivity
    <3>2. CASE clients[i].fd # c
      <4>1. SlotActivity(i)
        BY Zenon DEF Activity
      <4>2. clients[i].active \/ clients[i].fd # NoFd => clients[i].fd \in Client \ {c}
        BY <3>2, TypeFacts, Zenon DEF Wired
      <4> QED BY <1>4, <4>1, <4>2, Zenon DEF SlotActivity
    <3> QED BY <3>1, <3>2, Zenon
  <2>2. ASSUME NEW k \in DOMAIN backlog
        PROVE  \A n \in Range(to_server'[backlog[k]]) : n.type # "TCP_SHARE_FILE"
    <3>1. CASE backlog[k] = c
      <4>1. ~ HasSlot(c)
        BY <3>1, Zenon DEF HasSlot, Wired
      <4>2. m.type # "TCP_SHARE_FILE"
        BY <1>1, <4>1, Zenon DEF Activity, Acknowledged, Registered
      <4> QED BY <1>3, <3>1, <4>2, Zenon
    <3>2. CASE backlog[k] # c
      BY <1>4, <3>2, TypeFacts, Zenon DEF Activity
    <3> QED BY <3>1, <3>2, Zenon
  <2>3. ASSUME NEW d \in Client, Acknowledged(d)' PROVE HasSlot(d)'
    <3>1. Acknowledged(d)
      BY <1>1, <1>4, <2>3, Zenon DEF Registered, Acknowledged
    <3> QED BY <1>4, <3>1, Zenon DEF Activity, HasSlot
  <2> QED BY <1>4, <2>1, <2>2, <2>3, Zenon DEF Activity
<1>9. Open'
  BY <1>1, <1>4, Zenon DEF Open, Connected
<1>10. Round'
  BY <1>3, <1>4, TypeFacts, Zenon DEF Round
<1>11. RepliesInStep'
  BY <1>1, <1>4
     DEF RepliesInStep, Expected, RegisterReply, ShareReply, ListReply,
         LocationReply
<1>12. Fresh'
  BY <1>4, Zenon DEF Fresh
<1>13. TablesConsistent' /\ FileIdsNeverReused' /\ Unclaimed'
  BY <1>4 DEF TablesConsistent, FileIdsNeverReused, Unclaimed
<1>14. ASSUME NEW p \in Client, NEW id, NEW h, Serves(p, id, h) PROVE Serves(p, id, h)'
  BY <1>1, <1>4, <1>14, Zenon DEF Serves
<1>15. Served'
  <2>1. ASSUME NEW n \in Range(to_client[c]) PROVE n = EOF
    BY <1>1, <2>1, Zenon DEF RepliesInStep, Range
  <2>2. ASSUME NEW d \in Client, NEW id, NEW h PROVE Owned(d, id, h)' <=> Owned(d, id, h)
    BY <1>4, Zenon DEF Owned
  <2>3. ASSUME NEW d \in Client PROVE Offers(d)'
    <3>1. CASE d = c
      BY <1>1, <1>4, <2>1, <2>2, <3>1, Zenon DEF Served, Offers
    <3>2. CASE d # c
      BY <1>4, <2>2, <3>2, Zenon DEF Served, Offers
    <3> QED BY <3>1, <3>2, Zenon
  <2>4. ASSUME NEW f \in files, NEW i \in ClientSlot PROVE Listed(f, i)'
    BY <1>1, <1>4, <1>14, TypeFacts DEF Served, Listed, Wired
  <2> QED BY <1>4, <2>3, <2>4, Zenon DEF Served
<1>16. LocationLeadsToOwner'
  BY <1>1, <1>4, <1>14, ReplyFacts, Zenon DEF LocationLeadsToOwner
<1> QED BY <1>5, <1>6, <1>7, <1>8, <1>9, <1>10, <1>11, <1>12, <1>13, <1>15,
           <1>16, Zenon

\* connect().
LEMMA ConnectInv ==
  ASSUME IInv, NEW c \in Client, Connect(c)
  PROVE  IInv'
<1> USE ServerAssumption, MessageFacts DEF IInv
<1>1. /\ pc[c] = "start"
      /\ \A d \in Client \ {c} : pc'[d] = pc[d]
      /\ UNCHANGED <<clients, num_clients, next_client_id, files, next_file_id,
                     todo, running, to_server, to_client, request, table>>
  BY Zenon DEF Connect, TypeOK, tables
<1>2. ~ Connected(c) /\ to_server[c] = <<>>
  BY <1>1, Zenon DEF Wired, Connected, Asked, Asks
<1>3. \/ /\ running /\ pc'[c] = "connected"
         /\ backlog' = Append(backlog, c)
      \/ /\ ~ running /\ pc'[c] = "gone"
         /\ backlog' = backlog
  BY Zenon DEF Connect, TypeOK
<1>4. /\ backlog' \in Seq(Client)
      /\ \A k \in DOMAIN backlog' :
           \/ backlog'[k] = c
           \/ k \in DOMAIN backlog /\ backlog'[k] = backlog[k]
      /\ \A k, l \in DOMAIN backlog' : backlog'[k] = c /\ backlog'[l] = c => k = l
  <2>1. backlog \in Seq(Client) /\ \A k \in DOMAIN backlog : backlog[k] # c
    BY <1>2, Zenon DEF TypeOK, Connected
  <2> QED BY <1>3, <2>1
<1>5. TypeOK'
  <2>1. pc' \in [Client -> {"start", "connected", "waiting", "ready", "gone"}]
    BY Zenon DEF TypeOK, Connect
  <2> QED BY <1>1, <1>4, <2>1, Zenon DEF TypeOK
<1>6. Wired'
  BY <1>1, <1>2, <1>3, <1>4, TypeFacts DEF Wired, Connected
<1>7. \A d \in Client \ {c} : Connected(d)' => Connected(d)
  BY <1>1, <1>4, Zenon DEF Connected
<1>8. Asked'
  <2>1. Asks(c)'
    <3>1. ~ running => ~ Connected(c)'
      BY <1>1, <1>2, <1>3, Zenon DEF Connected
    <3> QED BY <1>1, <1>2, <1>3, <3>1, EmptyFacts, Zenon DEF Asks
  <2>2. ASSUME NEW d \in Client \ {c} PROVE Asks(d)'
    BY <1>1, <1>7, Zenon DEF Asked, Asks, PeerClosed
  <2> QED BY <2>1, <2>2, Zenon DEF Asked
<1>9. Activity'
  <2>1. ASSUME NEW i \in ClientSlot PROVE SlotActivity(i)'
    <3>1. clients[i].active \/ clients[i].fd # NoFd => clients[i].fd \in Client \ {c}
      BY <1>2, TypeFacts, Zenon DEF Wired, Connected
    <3>2. SlotActivity(i)
      BY Zenon DEF Activity
    <3> QED BY <1>1, <3>1, <3>2, Zenon DEF SlotActivity
  <2>2. ASSUME NEW k \in DOMAIN backlog'
        PROVE  \A n \in Range(to_server'[backlog'[k]]) : n.type # "TCP_SHARE_FILE"
    BY <1>1, <1>2, <1>4, EmptyFacts, Zenon DEF Activity
  <2>3. ASSUME NEW d \in Client, Acknowledged(d)' PROVE HasSlot(d)'
    <3>1. Acknowledged(d)
      BY <1>1, <1>3, <2>3, Zenon DEF Registered, Acknowledged
    <3> QED BY <1>1, <3>1, Zenon DEF Activity, HasSlot
  <2> QED BY <2>1, <2>2, <2>3, Zenon DEF Activity
<1>10. Open'
  <2> SUFFICES ASSUME running, NEW d \in Client,
                      pc'[d] = "start" \/ (pc'[d] # "gone" /\ Connected(d)')
               PROVE  EOF \notin Range(to_client[d])
    BY <1>1, Zenon DEF Open
  <2>1. CASE d = c
    BY <1>1, <2>1, Zenon DEF Open
  <2>2. CASE d # c
    BY <1>1, <1>7, <2>2, Zenon DEF Open
  <2> QED BY <2>1, <2>2, Zenon
<1>11. Round' /\ Fresh' /\ TablesConsistent' /\ FileIdsNeverReused' /\ Unclaimed'
  BY <1>1 DEF Round, Fresh, TablesConsistent, FileIdsNeverReused, Unclaimed
<1>12. RepliesInStep'
  BY <1>1, SMT, SMTT(20)
     DEF RepliesInStep, Expected, RegisterReply, ShareReply, ListReply,
         LocationReply
<1>13. ASSUME NEW p \in Client, NEW id, NEW h, Serves(p, id, h) PROVE Serves(p, id, h)'
  BY <1>1, <1>13, Zenon DEF Serves
<1>14. Served'
  <2>1. ASSUME NEW d \in Client, NEW id, NEW h PROVE Owned(d, id, h)' <=> Owned(d, id, h)
    BY <1>1, Zenon DEF Owned
  <2>2. ASSUME NEW d \in Client PROVE Offers(d)'
    BY <1>1, <2>1, Zenon DEF Served, Offers
  <2>3. ASSUME NEW f \in files, NEW i \in ClientSlot PROVE Listed(f, i)'
    <3>1. clients[i].active => clients[i].fd \in Client \ {c}
      BY <1>2, TypeFacts, Zenon DEF Wired, Connected
    <3> QED BY <1>1, <1>13, <3>1, Zenon DEF Served, Listed
  <2> QED BY <1>1, <2>2, <2>3, Zenon DEF Served
<1>15. LocationLeadsToOwner'
  BY <1>1, <1>13, ReplyFacts, Zenon DEF LocationLeadsToOwner
<1> QED BY <1>5, <1>6, <1>8, <1>9, <1>10, <1>11, <1>12, <1>14, <1>15, Zenon

\* The ways a client leaves: with or without a last message, or by a reset
\* that loses what the server has not read.
Departs(c) ==
  /\ pc[c] \in {"connected", "waiting", "ready"}
  /\ \/ Leave(c, <<>>)
     \/ Leave(c, unregister)
     \/ /\ to_server' = [to_server EXCEPT ![c] = <<EOF>>]
        /\ to_client' = [to_client EXCEPT ![c] = <<>>]
        /\ pc' = [pc EXCEPT ![c] = "gone"]
        /\ request' = [request EXCEPT ![c] = NoRequest]
        /\ UNCHANGED <<tables, todo, running, backlog, table>>

\* A client that quits, gives up or crashes preserves the invariant.
LEMMA DepartInv ==
  ASSUME IInv, NEW c \in Client, Departs(c)
  PROVE  IInv'
<1> USE ServerAssumption, MessageFacts DEF IInv
<1>1. /\ pc[c] \in {"connected", "waiting", "ready"}
      /\ pc' = [pc EXCEPT ![c] = "gone"]
      /\ request' = [request EXCEPT ![c] = NoRequest]
      /\ to_client' = [to_client EXCEPT ![c] = <<>>]
      /\ UNCHANGED <<clients, num_clients, next_client_id, files, next_file_id,
                     todo, running, backlog, table>>
  BY Zenon DEF Departs, Leave, tables
<1>2. /\ pc'[c] = "gone" /\ to_client'[c] = <<>>
      /\ \A d \in Client \ {c} : /\ pc'[d] = pc[d]
                                 /\ request'[d] = request[d]
                                 /\ to_server'[d] = to_server[d]
                                 /\ to_client'[d] = to_client[d]
  BY <1>1, Zenon DEF Departs, Leave, TypeOK
<1>3. /\ to_server' \in [Client -> Seq(Request \cup {EOF})]
      /\ to_server'[c] # <<>>
      /\ EOF \in Range(to_server'[c])
      /\ RegisterFirst(to_server'[c])
      /\ \A m \in Range(to_server'[c]) :
           m \in Range(to_server[c]) \/ m.type \in {"EOF", "TCP_UNREGISTER"}
  <2> DEFINE s == to_server[c]
             S == Request \cup {EOF}
             u == [type |-> "TCP_UNREGISTER"]
  <2>1. s \in Seq(S) /\ RegisterFirst(s) /\ EOF \in S /\ u \in S
    BY TypeFacts, Zenon DEF Asked, Asks, Request
  <2>2. to_server' = [to_server EXCEPT ![c] = to_server'[c]]
    BY Zenon DEF Departs, Leave, TypeOK
  <2>3. \/ to_server'[c] = Append(s, EOF)
        \/ to_server'[c] = Append(Append(s, u), EOF)
        \/ to_server'[c] = <<EOF>>
    <3>1. s \o <<>> \o <<EOF>> = Append(s, EOF)
          /\ s \o <<u>> \o <<EOF>> = Append(Append(s, u), EOF)
      BY <2>1
    <3> QED BY <3>1, Zenon DEF Departs, Leave, TypeOK, unregister
  <2> HIDE DEF s, S
  <2>4. ASSUME NEW t \in Seq(S), RegisterFirst(t),
               \A m \in Range(t) : m \in Range(s) \/ m.type \in {"EOF", "TCP_UNREGISTER"},
               NEW m \in {EOF, u}
        PROVE  /\ Append(t, m) \in Seq(S) /\ Append(t, m) # <<>>
               /\ RegisterFirst(Append(t, m))
               /\ m \in Range(Append(t, m))
               /\ \A n \in Range(Append(t, m)) :
                    n \in Range(s) \/ n.type \in {"EOF", "TCP_UNREGISTER"}
    BY <2>1, <2>4, AppendFacts
  <2>5. /\ <<EOF>> \in Seq(S) /\ <<EOF>> # <<>> /\ RegisterFirst(<<EOF>>)
        /\ Range(<<EOF>>) = {EOF}
    BY <2>1 DEF RegisterFirst, Range
  <2>6. /\ to_server'[c] \in Seq(S) /\ to_server'[c] # <<>>
        /\ EOF \in Range(to_server'[c])
        /\ RegisterFirst(to_server'[c])
        /\ \A m \in Range(to_server'[c]) :
             m \in Range(s) \/ m.type \in {"EOF", "TCP_UNREGISTER"}
    BY <2>1, <2>3, <2>4, <2>5, Zenon
  <2> QED BY <2>2, <2>6, Zenon DEF TypeOK, S, s
<1>4. TypeOK'
  BY <1>1, <1>3, EmptyFacts, Zenon DEF TypeOK
<1>5. Wired'
  BY <1>1, <1>2, TypeFacts DEF Wired
<1>6. Asked'
  <2>1. Asks(c)'
    BY <1>2, <1>3, Zenon DEF Asked, Asks, PeerClosed
  <2>2. ASSUME NEW d \in Client \ {c} PROVE Asks(d)'
    <3>1. Connected(d)' <=> Connected(d)
      BY <1>1, Zenon DEF Connected
    <3> QED BY <1>2, <3>1, Zenon DEF Asked, Asks, PeerClosed
  <2> QED BY <2>1, <2>2, Zenon DEF Asked
<1>7. Activity'
  <2>1. ASSUME NEW i \in ClientSlot PROVE SlotActivity(i)'
    <3>1. SlotActivity(i)
      BY Zenon DEF Activity
    <3>2. CASE clients[i].fd = c
      BY <1>1, <1>2, <1>3, <3>1, <3>2, Zenon DEF SlotActivity
    <3>3. CASE clients[i].fd # c
      <4>1. clients[i].active \/ clients[i].fd # NoFd => clients[i].fd \in Client \ {c}
        BY <3>3, TypeFacts, Zenon DEF Wired
      <4> QED BY <1>1, <1>2, <3>1, <4>1, SMT, SMTT(20) DEF SlotActivity
    <3> QED BY <3>2, <3>3, Zenon
  <2>2. ASSUME NEW k \in DOMAIN backlog
        PROVE  \A n \in Range(to_server'[backlog[k]]) : n.type # "TCP_SHARE_FILE"
    BY <1>2, <1>3, TypeFacts, Zenon DEF Activity
  <2>3. ASSUME NEW d \in Client, Acknowledged(d)' PROVE HasSlot(d)'
    <3>1. Acknowledged(d)
      BY <1>2, <2>3, EmptyFacts, Zenon DEF Registered, Acknowledged
    <3> QED BY <1>1, <3>1, Zenon DEF Activity, HasSlot
  <2> QED BY <1>1, <2>1, <2>2, <2>3, Zenon DEF Activity
<1>8. Open'
  BY <1>1, <1>2, Zenon DEF Open, Connected
<1>9. Round'
  BY <1>1, <1>2, <1>3, TypeFacts, Zenon DEF Round
<1>10. RepliesInStep'
  <2> SUFFICES ASSUME NEW d \in Client, NEW k \in DOMAIN to_client'[d],
                      to_client'[d][k] # EOF
               PROVE  /\ k = 1 /\ pc'[d] = "waiting" /\ to_server'[d] = <<>>
                      /\ to_client'[d][k].type = "TCP_ERROR"
                         \/ Expected(d, to_client[d][k])'
    BY
       DEF RepliesInStep, Expected, RegisterReply, ShareReply, ListReply,
           LocationReply
  <2>1. d # c
    BY <1>2
  <2> QED BY <1>2, <2>1
      DEF RepliesInStep, Expected, RegisterReply, ShareReply, ListReply, LocationReply
<1>11. \A d \in Client : Range(to_client'[d]) \subseteq Range(to_client[d])
  BY <1>2, EmptyFacts, Zenon
<1>12. Fresh' /\ TablesConsistent' /\ FileIdsNeverReused'
  <2>1. Fresh'
    BY <1>1, <1>11, Zenon DEF Fresh
  <2>2. TablesConsistent' /\ FileIdsNeverReused'
    BY <1>1, ZenonT(30) DEF TablesConsistent, FileIdsNeverReused
  <2> QED BY <2>1, <2>2, Zenon
<1>13. Unclaimed'
  <2> SUFFICES ASSUME NEW a \in Client, NEW d \in Client,
                      NEW n \in Range(to_client'[a]), n.type = "TCP_SHARE_ACK"
               PROVE  /\ \A e \in table[d] : e.file_id # n.file_id
                      /\ \A o \in Range(to_client'[d]) :
                           o.type = "TCP_SHARE_ACK" /\ o.file_id = n.file_id => a = d
    BY <1>1 DEF Unclaimed
  <2>1. n \in Range(to_client[a]) /\ Range(to_client'[d]) \subseteq Range(to_client[d])
    BY <1>11, Zenon
  <2> QED BY <2>1, Zenon DEF Unclaimed
<1>14. ASSUME NEW p \in Client \ {c}, NEW id, NEW h, Serves(p, id, h)
       PROVE  Serves(p, id, h)'
  BY <1>1, <1>2, <1>14, Zenon DEF Serves
<1>15. Served'
  <2>1. ASSUME NEW d \in Client, NEW id, NEW h PROVE Owned(d, id, h)' <=> Owned(d, id, h)
    BY <1>1, Zenon DEF Owned
  <2>2. ASSUME NEW d \in Client PROVE Offers(d)'
    BY <1>1, <1>2, <2>1, Zenon DEF Served, Offers
  <2>3. ASSUME NEW f \in files, NEW i \in ClientSlot PROVE Listed(f, i)'
    <3>1. clients[i].active => clients[i].fd \in Client
      BY TypeFacts, Zenon DEF Wired
    <3>2. Listed(f, i)
      BY Zenon DEF Served
    <3>3. CASE clients[i].fd = c
      BY <1>1, <1>2, <3>3, Zenon DEF Listed
    <3>4. CASE clients[i].fd # c
      BY <1>1, <1>2, <1>14, <3>1, <3>2, <3>4 DEF Listed
    <3> QED BY <3>3, <3>4, Zenon
  <2> QED BY <1>1, <2>2, <2>3, Zenon DEF Served
<1>16. LocationLeadsToOwner'
  BY <1>1, <1>2, <1>11, <1>14, ReplyFacts DEF LocationLeadsToOwner
<1> QED BY <1>4, <1>5, <1>6, <1>7, <1>8, <1>9, <1>10, <1>12, <1>13, <1>15,
           <1>16, Zenon

-----------------------------------------------------------------------------
(* The server *)

\* Closing a connection puts nothing out of step.
LEMMA CloseFacts ==
  ASSUME NEW S, EOF \in S, NEW s \in Seq(S)
  PROVE  /\ Append(s, EOF) \in Seq(S) /\ Range(Append(s, EOF)) = Range(s) \cup {EOF}
         /\ \A k \in DOMAIN Append(s, EOF) : Append(s, EOF)[k] # EOF =>
              k \in DOMAIN s /\ Append(s, EOF)[k] = s[k]
<1>1. Append(s, EOF) \in Seq(S) /\ Range(Append(s, EOF)) = Range(s) \cup {EOF}
  BY AppendFacts
<1>2. \A k \in DOMAIN Append(s, EOF) : Append(s, EOF)[k] # EOF =>
        k \in DOMAIN s /\ Append(s, EOF)[k] = s[k]
  OBVIOUS
<1> QED BY <1>1, <1>2, Zenon

\* Ctrl-C at the server preserves the invariant.
LEMMA ShutdownInv ==
  ASSUME IInv, Shutdown, UNCHANGED clientVars
  PROVE  IInv'
<1> USE ServerAssumption, MessageFacts DEF IInv
<1>1. /\ ~ running' /\ backlog' = <<>> /\ DOMAIN todo = {}
      /\ UNCHANGED <<clients, num_clients, next_client_id, files, next_file_id,
                     todo, to_server, pc, request, table>>
  BY Zenon DEF Shutdown, tables, clientVars
<1>2. ASSUME NEW d \in Client
      PROVE  /\ to_client'[d] \in Seq(Reply \cup {EOF})
             /\ Range(to_client'[d]) = Range(to_client[d]) \cup {EOF}
             /\ \A k \in DOMAIN to_client'[d] : to_client'[d][k] # EOF =>
                  k \in DOMAIN to_client[d] /\ to_client'[d][k] = to_client[d][k]
  <2> DEFINE s == to_client[d]
             S == Reply \cup {EOF}
  <2>1. s \in Seq(S) /\ EOF \in S
    BY TypeFacts, Zenon
  <2>2. to_client'[d] = Append(s, EOF)
    BY Zenon DEF Shutdown
  <2>3. /\ Append(s, EOF) \in Seq(S) /\ Range(Append(s, EOF)) = Range(s) \cup {EOF}
        /\ \A k \in DOMAIN Append(s, EOF) : Append(s, EOF)[k] # EOF =>
             k \in DOMAIN s /\ Append(s, EOF)[k] = s[k]
    <3> HIDE DEF s, S, IInv
    <3> QED BY <2>1, CloseFacts, Zenon
  <2> QED BY <2>2, <2>3, Zenon
<1>3. TypeOK'
  <2>1. to_client' \in [Client -> Seq(Reply \cup {EOF})]
    <3>1. to_client' = [d \in Client |-> to_client'[d]]
      BY Zenon DEF Shutdown
    <3> QED BY <1>2, <3>1, Zenon
  <2>2. running' \in BOOLEAN
    BY Zenon DEF Shutdown
  <2> QED BY <1>1, <2>1, <2>2, EmptyFacts, Zenon DEF TypeOK
<1>4. DOMAIN backlog' = {}
  BY <1>1
<1>5. Wired'
  BY <1>1, <1>4, Zenon DEF Wired
<1>6. Asked'
  <2>1. \A d \in Client : Connected(d)' => Connected(d)
    BY <1>1, <1>4, Zenon DEF Connected
  <2> QED BY <1>1, <2>1, Zenon DEF Asked, Asks, PeerClosed
<1>7. Settled
  BY <1>1, Zenon DEF Settled
<1>8. /\ Fresh' /\ TablesConsistent' /\ FileIdsNeverReused' /\ Unclaimed'
      /\ Served' /\ LocationLeadsToOwner'
      /\ \A d \in Client : Acknowledged(d)' => HasSlot(d)'
  <2>1. \A d \in Client : \A m \in Range(to_client'[d]) :
          m \in Range(to_client[d]) \/ Harmless(m)
    BY <1>2, Zenon DEF Harmless
  <2> QED BY <1>2, <1>5, <1>7, <2>1, SettledInv, Zenon
<1>9. Activity'
  <2>1. \A i \in ClientSlot : SlotActivity(i)'
    BY <1>1, Zenon DEF Activity, SlotActivity
  <2> QED BY <1>4, <1>8, <2>1, Zenon DEF Activity
<1>10. Open' /\ Round'
  BY <1>1, Zenon DEF Open, Round
<1>11. RepliesInStep'
  BY <1>1, <1>2
     DEF RepliesInStep, Expected, RegisterReply, ShareReply, ListReply,
         LocationReply
<1> QED BY <1>3, <1>5, <1>6, <1>8, <1>9, <1>10, <1>11, Zenon

\* What a server step does to the round and to the type of todo.
LEMMA PollRound ==
  ASSUME IInv, running, todo' = [i \in ReadySlots |-> clients[i].fd],
         UNCHANGED <<running, to_server>>
  PROVE  /\ Round'
         /\ todo' \in [DOMAIN todo' -> Client] /\ DOMAIN todo' \subseteq ClientSlot
<1> USE ServerAssumption DEF IInv
<1>1. /\ DOMAIN todo' = ReadySlots
      /\ \A k \in ReadySlots : /\ k \in ClientSlot /\ todo'[k] = clients[k].fd
                               /\ clients[k].fd # NoFd /\ to_server[clients[k].fd] # <<>>
  BY Zenon DEF ReadySlots
<1>2. Round'
  BY <1>1 DEF Round, Wired
<1> QED BY <1>1, <1>2, TypeFacts, Zenon

\* poll returns: a connection is accepted into a free slot, or refused, or
\* there is none.
LEMMA PollInv ==
  ASSUME IInv, Poll, UNCHANGED clientVars
  PROVE  IInv'
<1> USE ServerAssumption, MessageFacts DEF IInv
<1> DEFINE c == Head(backlog)
<1>1. /\ running /\ running' = running
      /\ UNCHANGED <<num_clients, next_client_id, files, next_file_id,
                     to_server, pc, request, table>>
  BY Zenon DEF Poll, accept_new_client, tables, clientVars
<1>2. /\ Round'
      /\ todo' \in [DOMAIN todo' -> Client] /\ DOMAIN todo' \subseteq ClientSlot
  BY <1>1, PollRound, Zenon DEF Poll
<1>3. backlog # <<>> =>
        /\ c \in Client /\ pc[c] # "start"
        /\ \A i \in ClientSlot : clients[i].fd # c
        /\ \A m \in Range(to_server[c]) : m.type # "TCP_SHARE_FILE"
        /\ Connected(c)
        /\ Tail(backlog) \in Seq(Client)
        /\ \A k \in DOMAIN Tail(backlog) : /\ k + 1 \in DOMAIN backlog
                                           /\ Tail(backlog)[k] = backlog[k + 1]
                                           /\ Tail(backlog)[k] # c
  <2> SUFFICES ASSUME backlog # <<>>
               PROVE  /\ c \in Client /\ pc[c] # "start"
                      /\ \A i \in ClientSlot : clients[i].fd # c
                      /\ \A m \in Range(to_server[c]) : m.type # "TCP_SHARE_FILE"
                      /\ Connected(c)
                      /\ Tail(backlog) \in Seq(Client)
                      /\ \A k \in DOMAIN Tail(backlog) : /\ k + 1 \in DOMAIN backlog
                                                         /\ Tail(backlog)[k] = backlog[k + 1]
                                                         /\ Tail(backlog)[k] # c
    BY Zenon
  <2>1. backlog \in Seq(Client)
    BY Zenon DEF TypeOK
  <2>2. /\ c = backlog[1] /\ 1 \in DOMAIN backlog /\ Tail(backlog) \in Seq(Client)
        /\ \A k \in DOMAIN Tail(backlog) : /\ k + 1 \in DOMAIN backlog /\ k + 1 # 1
                                           /\ Tail(backlog)[k] = backlog[k + 1]
    <3> HIDE DEF IInv
    <3> QED BY <2>1
  <2> HIDE DEF c
  <2>3. /\ pc[c] # "start" /\ \A i \in ClientSlot : clients[i].fd # c
        /\ \A m \in Range(to_server[c]) : m.type # "TCP_SHARE_FILE"
        /\ c \in Client
    BY <2>2, TypeFacts, Zenon DEF Wired, Activity
  <2>4. \A k \in DOMAIN Tail(backlog) : Tail(backlog)[k] # c
    BY <2>2 DEF Wired
  <2>5. Connected(c)
    BY <2>2, Zenon DEF Connected
  <2> QED BY <2>2, <2>3, <2>4, <2>5, Zenon
<1> HIDE DEF c
<1>4. CASE /\ backlog # <<>> /\ backlog' = Tail(backlog) /\ to_client' = to_client
           /\ \E i \in EmptySlot :
                clients' = [clients EXCEPT ![i].fd = c, ![i].addr = c, ![i].active = FALSE]
  <2>1. PICK i \in EmptySlot :
          clients' = [clients EXCEPT ![i].fd = c, ![i].addr = c, ![i].active = FALSE]
    BY <1>4, Zenon
  <2>2. i \in ClientSlot /\ ~ clients[i].active
    BY Zenon DEF EmptySlot, FirstSlot
  <2>3. /\ clients'[i].fd = c /\ clients'[i].addr = c /\ clients'[i].active = FALSE
        /\ \A j \in ClientSlot \ {i} : clients'[j] = clients[j]
    BY <2>1, <2>2 DEF TypeOK
  <2>4. TypeOK'
    <3>1. clients' \in [ClientSlot -> [fd : Client \cup {NoFd}, client_id : Nat,
                                       addr : Client \cup {NoFd},
                                       udp_port : Client \cup {NoFd}, active : BOOLEAN]]
      <4> HIDE DEF ClientSlot
      <4>1. c \in Client \cup {NoFd} /\ i \in ClientSlot
        BY <1>3, <1>4, <2>2, Zenon
      <4>2. clients \in [ClientSlot -> [fd : Client \cup {NoFd}, client_id : Nat,
                                        addr : Client \cup {NoFd},
                                        udp_port : Client \cup {NoFd}, active : BOOLEAN]]
        BY Zenon DEF TypeOK
      <4> HIDE DEF IInv
      <4>3. clients' = [j \in ClientSlot |-> clients'[j]]
        BY <2>1, <4>2, Zenon
      <4>4. clients'[i] \in [fd : Client \cup {NoFd}, client_id : Nat,
                             addr : Client \cup {NoFd},
                             udp_port : Client \cup {NoFd}, active : BOOLEAN]
        <5>1. clients'[i] = [clients[i] EXCEPT !.fd = c, !.addr = c, !.active = FALSE]
          BY <2>1, <4>1, <4>2, Zenon
        <5> QED BY <4>1, <4>2, <5>1, Zenon
      <4> QED BY <2>3, <4>2, <4>3, <4>4, Zenon
    <3> QED BY <1>1, <1>2, <1>3, <1>4, <3>1, Zenon DEF TypeOK
  <2>5. Wired'
    <3>1. \A j \in ClientSlot :
            /\ clients'[j].fd # NoFd => /\ pc[clients'[j].fd] # "start"
                                        /\ clients'[j].addr = clients'[j].fd
            /\ clients'[j].active => /\ clients'[j].fd # NoFd
                                     /\ clients'[j].udp_port = clients'[j].fd
      <4> TAKE j \in ClientSlot
      <4>1. CASE j = i
        BY <1>3, <1>4, <2>3, <4>1, Zenon
      <4>2. CASE j # i
        BY <2>3, <4>2, Zenon DEF Wired
      <4> QED BY <4>1, <4>2, Zenon
    <3>2. \A j, k \in ClientSlot :
            clients'[j].fd # NoFd /\ clients'[j].fd = clients'[k].fd => j = k
      <4>1. \A j \in ClientSlot : j # i => clients'[j].fd = clients[j].fd /\ clients[j].fd # c
        BY <1>3, <1>4, <2>3, Zenon
      <4> QED BY <2>3, <4>1 DEF Wired
    <3>3. \A k \in DOMAIN backlog' :
            /\ pc[backlog'[k]] # "start"
            /\ \A j \in ClientSlot : clients'[j].fd # backlog'[k]
            /\ \A l \in DOMAIN backlog' : backlog'[k] = backlog'[l] => k = l
      <4> SUFFICES ASSUME NEW k \in DOMAIN backlog'
                   PROVE  /\ pc[backlog'[k]] # "start"
                          /\ \A j \in ClientSlot : clients'[j].fd # backlog'[k]
                          /\ \A l \in DOMAIN backlog' : backlog'[k] = backlog'[l] => k = l
        BY Zenon
      <4>1. k + 1 \in DOMAIN backlog /\ backlog'[k] = backlog[k + 1] /\ backlog'[k] # c
        BY <1>3, <1>4, Zenon
      <4>2. pc[backlog'[k]] # "start" /\ \A j \in ClientSlot : clients[j].fd # backlog'[k]
        BY <4>1, Zenon DEF Wired
      <4>3. ASSUME NEW l \in DOMAIN backlog', backlog'[k] = backlog'[l] PROVE k = l
        <5>1. l + 1 \in DOMAIN backlog /\ backlog'[l] = backlog[l + 1]
          BY <1>3, <1>4, Zenon
        <5>2. k + 1 = l + 1
          BY <4>1, <4>3, <5>1, Zenon DEF Wired
        <5>3. k \in Int /\ l \in Int
          BY <1>3, <1>4
        <5> QED BY <5>2, <5>3
      <4> QED BY <2>3, <4>1, <4>2, <4>3, Zenon
    <3> QED BY <1>1, <3>1, <3>2, <3>3, Zenon DEF Wired
  <2>6. \A d \in Client : Connected(d)' => Connected(d)
    <3> SUFFICES ASSUME NEW d \in Client, Connected(d)' PROVE Connected(d)
      BY Zenon
    <3>1. CASE \E k \in DOMAIN backlog' : backlog'[k] = d
      BY <1>3, <1>4, <3>1, Zenon DEF Connected
    <3>2. CASE \E j \in ClientSlot : clients'[j].fd = d
      <4>1. PICK j \in ClientSlot : clients'[j].fd = d
        BY <3>2, Zenon
      <4>2. j = i => d = c
        BY <2>3, <4>1, Zenon
      <4>3. j # i => clients[j].fd = d
        BY <2>3, <4>1, Zenon
      <4> QED BY <1>3, <1>4, <4>2, <4>3, Zenon DEF Connected
    <3> QED BY <3>1, <3>2, Zenon DEF Connected
  <2>7. Asked'
    BY <1>1, <2>6, Zenon DEF Asked, Asks, PeerClosed
  <2>8. Settled
    BY <1>1, <2>2, <2>3, Zenon DEF Settled, TypeOK
  <2>9. /\ Fresh' /\ TablesConsistent' /\ FileIdsNeverReused' /\ Unclaimed'
        /\ Served' /\ LocationLeadsToOwner'
        /\ \A d \in Client : Acknowledged(d)' => HasSlot(d)'
    BY <1>4, <2>5, <2>8, SettledInv, Zenon
  <2>10. Activity'
    <3>1. ASSUME NEW j \in ClientSlot PROVE SlotActivity(j)'
      BY <1>1, <1>3, <1>4, <2>3, ZenonT(30) DEF Activity, SlotActivity
    <3>2. \A k \in DOMAIN backlog' :
            \A m \in Range(to_server[backlog'[k]]) : m.type # "TCP_SHARE_FILE"
      BY <1>3, <1>4 DEF Activity
    <3> QED BY <1>1, <2>9, <3>1, <3>2, Zenon DEF Activity
  <2>11. Open'
    BY <1>1, <1>4, <2>6, Zenon DEF Open
  <2>12. RepliesInStep'
    BY <1>1, <1>4
       DEF RepliesInStep, Expected, RegisterReply, ShareReply, ListReply,
           LocationReply
  <2> QED BY <1>2, <2>4, <2>5, <2>7, <2>9, <2>10, <2>11, <2>12, Zenon
<1>5. CASE /\ backlog # <<>> /\ backlog' = Tail(backlog) /\ clients' = clients
           /\ to_client' = [to_client EXCEPT ![c] = Append(@, EOF)]
  <2>1. /\ to_client'[c] \in Seq(Reply \cup {EOF})
        /\ Range(to_client'[c]) = Range(to_client[c]) \cup {EOF}
        /\ \A k \in DOMAIN to_client'[c] : to_client'[c][k] # EOF =>
             k \in DOMAIN to_client[c] /\ to_client'[c][k] = to_client[c][k]
        /\ \A d \in Client \ {c} : to_client'[d] = to_client[d]
    <3> DEFINE s == to_client[c]
               S == Reply \cup {EOF}
    <3>1. s \in Seq(S) /\ EOF \in S
      BY <1>3, <1>5, TypeFacts, Zenon
    <3>2. to_client'[c] = Append(s, EOF) /\ \A d \in Client \ {c} : to_client'[d] = to_client[d]
      BY <1>3, <1>5, Zenon DEF TypeOK
    <3>3. /\ Append(s, EOF) \in Seq(S) /\ Range(Append(s, EOF)) = Range(s) \cup {EOF}
          /\ \A k \in DOMAIN Append(s, EOF) : Append(s, EOF)[k] # EOF =>
               k \in DOMAIN s /\ Append(s, EOF)[k] = s[k]
      <4> HIDE DEF s, S, IInv
      <4> QED BY <3>1, CloseFacts, Zenon
    <3> QED BY <3>2, <3>3, Zenon
  <2>2. TypeOK'
    <3>1. to_client' = [to_client EXCEPT ![c] = to_client'[c]]
      BY <1>3, <1>5, Zenon DEF TypeOK
    <3>2. to_client' \in [Client -> Seq(Reply \cup {EOF})]
      BY <2>1, <3>1, Zenon DEF TypeOK
    <3> QED BY <1>1, <1>2, <1>3, <1>5, <3>2, Zenon DEF TypeOK
  <2>3. \A k, l \in DOMAIN backlog' : backlog'[k] = backlog'[l] => k = l
    <3> SUFFICES ASSUME NEW k \in DOMAIN backlog', NEW l \in DOMAIN backlog',
                        backlog'[k] = backlog'[l]
                 PROVE  k = l
      BY Zenon
    <3>1. k + 1 = l + 1
      BY <1>3, <1>5 DEF Wired
    <3>2. k \in Int /\ l \in Int
      BY <1>3, <1>5
    <3> QED BY <3>1, <3>2
  <2>4. Wired'
    BY <1>1, <1>3, <1>5, <2>3, SMT, SMTT(20) DEF Wired
  <2>5. \A d \in Client : Connected(d)' => Connected(d) /\ d # c
    BY <1>3, <1>5, Zenon DEF Connected
  <2>6. Asked'
    BY <1>1, <2>5, Zenon DEF Asked, Asks, PeerClosed
  <2>7. Settled
    BY <1>1, <1>5, Zenon DEF Settled
  <2>8. /\ Fresh' /\ TablesConsistent' /\ FileIdsNeverReused' /\ Unclaimed'
        /\ Served' /\ LocationLeadsToOwner'
        /\ \A d \in Client : Acknowledged(d)' => HasSlot(d)'
    <3>1. \A d \in Client : \A m \in Range(to_client'[d]) :
            m \in Range(to_client[d]) \/ Harmless(m)
      BY <2>1, Zenon DEF Harmless
    <3>2. \A d \in Client : Range(to_client[d]) \subseteq Range(to_client'[d])
      BY <2>1, Zenon
    <3> QED BY <2>4, <2>7, <3>1, <3>2, SettledInv, Zenon
  <2>9. Activity'
    <3>1. \A j \in ClientSlot : SlotActivity(j)'
      BY <1>1, <1>5, Zenon DEF Activity, SlotActivity
    <3>2. \A k \in DOMAIN backlog' :
            \A m \in Range(to_server[backlog'[k]]) : m.type # "TCP_SHARE_FILE"
      BY <1>3, <1>5, Zenon DEF Activity
    <3> QED BY <1>1, <2>8, <3>1, <3>2, Zenon DEF Activity
  <2>10. Open'
    BY <1>1, <1>3, <1>5, <2>1, <2>5, Zenon DEF Open
  <2>11. RepliesInStep'
    <3> SUFFICES ASSUME NEW d \in Client, NEW k \in DOMAIN to_client'[d],
                        to_client'[d][k] # EOF
                 PROVE  /\ k = 1 /\ pc[d] = "waiting" /\ to_server[d] = <<>>
                        /\ to_client'[d][k].type = "TCP_ERROR" \/ Expected(d, to_client'[d][k])
      BY <1>1
         DEF RepliesInStep, Expected, RegisterReply, ShareReply, ListReply,
             LocationReply
    <3>1. k \in DOMAIN to_client[d] /\ to_client'[d][k] = to_client[d][k]
      BY <2>1, Zenon
    <3> QED BY <3>1, Zenon DEF RepliesInStep
  <2> QED BY <1>2, <2>2, <2>4, <2>6, <2>8, <2>9, <2>10, <2>11, Zenon
<1>6. CASE backlog' = backlog /\ clients' = clients /\ to_client' = to_client
  <2>1. TypeOK'
    BY <1>1, <1>2, <1>6, Zenon DEF TypeOK
  <2>2. Wired' /\ Open'
    BY <1>1, <1>6, Zenon DEF Wired, Open, Connected
  <2>3. Asked'
    BY <1>1, <1>6, Zenon DEF Asked, Asks, Connected, PeerClosed
  <2>4. Settled
    BY <1>1, <1>6, Zenon DEF Settled
  <2>5. /\ Fresh' /\ TablesConsistent' /\ FileIdsNeverReused' /\ Unclaimed'
        /\ Served' /\ LocationLeadsToOwner'
        /\ \A d \in Client : Acknowledged(d)' => HasSlot(d)'
    BY <1>6, <2>2, <2>4, SettledInv, Zenon
  <2>6. Activity'
    BY <1>1, <1>6, <2>5, Zenon DEF Activity, SlotActivity
  <2>7. RepliesInStep'
    BY <1>1, <1>6, SMT, SMTT(20)
       DEF RepliesInStep, Expected, RegisterReply, ShareReply, ListReply,
                      LocationReply
  <2> QED BY <1>2, <2>1, <2>2, <2>3, <2>5, <2>6, <2>7, Zenon
<1> QED BY <1>4, <1>5, <1>6, Zenon DEF Poll, accept_new_client, tables, c
=============================================================================
