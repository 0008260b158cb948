------------------------------ MODULE Directory -----------------------------
(***************************************************************************)
(* What the directory promises its users, without connections, slots or    *)
(* poll rounds: clients join and leave, a client publishes files under     *)
(* fresh ids, its files go when it goes, and every answer is one to the    *)
(* question its client waits on, true of the catalog at one moment between *)
(* the question and the reading of it.                                     *)
(***************************************************************************)
EXTENDS Integers, FiniteSets

CONSTANTS Client, Hash, FileId, MAX_FILES, None, NoQuestion

VARIABLES
  member,    \* clients that have joined and not left
  catalog,   \* the files on offer, each with its owner
  issued,    \* the number of ids given out; they are 1 .. issued
  asked,     \* the question each client waits on, or NoQuestion
  reply      \* the answer each client has yet to read, or None

vars == <<member, catalog, issued, asked, reply>>

Init ==
  /\ member = {} /\ catalog = {} /\ issued = 0
  /\ asked = [c \in Client |-> NoQuestion]
  /\ reply = [c \in Client |-> None]

registration(c) == [type |-> "TCP_REGISTER", udp_port |-> c]
publication(h)  == [type |-> "TCP_SHARE_FILE", hash |-> h]
inquiry(id)     == [type |-> "TCP_REQUEST_FILE", file_id |-> id]
listing         == [type |-> "TCP_LIST_FILES"]

Question(c) ==
  {registration(c), listing}
    \cup {publication(h) : h \in Hash} \cup {inquiry(id) : id \in FileId}

Ask(c) ==
  /\ asked[c] = NoQuestion
  /\ \E q \in Question(c) : asked' = [asked EXCEPT ![c] = q]
  /\ UNCHANGED <<member, catalog, issued, reply>>

\* m answers the question q of c.
Answer(c, q, m) == asked[c] = q /\ reply' = [reply EXCEPT ![c] = m]

\* The client that asked has died.
Lost(c) == asked[c] = NoQuestion /\ UNCHANGED reply

Join(c) ==
  /\ member' = member \cup {c}
  /\ Answer(c, registration(c), [type |-> "TCP_REGISTER_ACK"]) \/ Lost(c)
  /\ UNCHANGED <<catalog, issued, asked>>

Full == Cardinality(catalog) >= MAX_FILES

Publish(c, h) ==
  /\ issued' = issued + 1
  /\ ~ Full
  /\ catalog' = catalog \cup {[file_id |-> issued + 1, hash |-> h, owner |-> c]}
  /\ \/ Answer(c, publication(h), [type |-> "TCP_SHARE_ACK", file_id |-> issued + 1])
     \/ Lost(c)
  /\ UNCHANGED <<member, asked>>

\* A list of exactly the files on offer.
List(c) ==
  /\ Answer(c, listing,
            [type  |-> "TCP_FILE_LIST",
             infos |-> {[file_id |-> e.file_id, hash |-> e.hash] : e \in catalog}])
  /\ UNCHANGED <<member, catalog, issued, asked>>

\* The location of the file asked for.
Locate(c, q) ==
  /\ q.type = "TCP_REQUEST_FILE"
  /\ \E e \in catalog :
       /\ e.file_id = q.file_id
       /\ Answer(c, q, [type |-> "TCP_FILE_LOCATION", entry |-> e])
  /\ UNCHANGED <<member, catalog, issued, asked>>

\* An error, for nothing but a publication that finds the catalog full and a
\* file that is not on offer.
Refuse(c, q) ==
  /\ \/ q.type = "TCP_SHARE_FILE" /\ Full
     \/ q.type = "TCP_REQUEST_FILE" /\ \A e \in catalog : e.file_id # q.file_id
  /\ Answer(c, q, [type |-> "TCP_ERROR"])
  /\ UNCHANGED <<member, catalog, issued, asked>>

\* The client reads its answer, or gives up waiting for one.
Read(c) ==
  /\ asked[c] # NoQuestion
  /\ asked' = [asked EXCEPT ![c] = NoQuestion]
  /\ reply' = [reply EXCEPT ![c] = None]
  /\ UNCHANGED <<member, catalog, issued>>

Leave(c) ==
  /\ member' = member \ {c}
  /\ catalog' = {e \in catalog : e.owner # c}
  /\ UNCHANGED <<issued, asked, reply>>

\* Only members are served.
Next ==
  \/ \E c \in Client : Ask(c) \/ Read(c)
  \/ \E c \in Client \ member : Join(c)
  \/ \E c \in member :
       \/ List(c) \/ Locate(c, asked[c]) \/ Refuse(c, asked[c])
       \/ Leave(c)
       \/ \E h \in Hash : Publish(c, h)

Spec == Init /\ [][Next]_vars
=============================================================================
