--------------------------- MODULE MCPeerTransfer ---------------------------
(* Instances of PeerTransfer: two or three clients and a few short files. *)
EXTENDS PeerTransfer, TLC

CONSTANTS Ann, Bob, Cy,     \* clients
          Doc, Pic, Nil,    \* file names
          PartA, PartB       \* chunks

Long  == 0 :> PartA @@ 1 :> PartB
Short == 0 :> PartB
Empty == << >>

Entry(id, file, path) ==
  [file_id |-> id, hash |-> compute_sha256(file), file_name |-> path]

\* What each client has registered, and has on its disk.
Sharing(shares) ==
  [p \in Peer |-> IF p \in DOMAIN shares THEN shares[p] ELSE {}]

Holding(shares) ==
  [p \in Peer |-> [path \in Path |->
     LET found == {e \in Sharing(shares)[p] : e.file_name = path}
     IN  IF found = {} THEN NoFile ELSE (CHOOSE e \in found : TRUE).hash.sha256]]

\* Bob is the only owner.
OneOwner ==
  Bob :> {Entry(1, Long, Doc), Entry(2, Short, Pic), Entry(3, Empty, Nil)}

OneOwnerTable == Sharing(OneOwner)
OneOwnerDisk == Holding(OneOwner)

\* Bob and Cy share different files under the same name.
SameName == Bob :> {Entry(1, Long, Doc)} @@ Cy :> {Entry(2, Short, Doc)}

SameNameTable == Sharing(SameName)
SameNameDisk == Holding(SameName)

\* A user shortens a file, or deletes it.
MCContent == {Short, NoFile}
=============================================================================
