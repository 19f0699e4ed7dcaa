--------------------------- MODULE DecisionLedger ---------------------------
(***************************************************************************)
(* The in-memory Decision Ledger (class DecisionLedger of                  *)
(* services/shared/ledger/merkle.py), a family of independent instances.   *)
(* Every method runs to its end on one thread, so it is one action here.   *)
(* It is also what PostgresLedger promises: one instance per tenant.       *)
(***************************************************************************)
EXTENDS Merkle, FiniteSets

CONSTANTS Ledgers,   \* the instances (Python objects, or tenants)
          Requests,  \* request identifiers
          Clients,   \* holders of inclusion proofs
          MaxEntries \* bound of the model: entries of one instance

ASSUME BoundAssumption == MaxEntries \in Nat

VARIABLES leaves, \* leaves[l]: the leaf digests, in insertion order
          root,   \* root[l]: merkle_root, recomputed on every insertion
          held    \* held[c]: the last proof client c obtained, if any

vars == <<leaves, root, held>>

\* Seeded fault: positions counted from 1.
LeafFromOne(r, i) == [request |-> r, index |-> i + 1]

\* The digest of an entry: its identifier and position stand for the record.
Leaf(r, i) == [request |-> r, index |-> i]

NoProof == [none |-> TRUE]

Init ==
  /\ leaves = [l \in Ledgers |-> <<>>]
  /\ root = [l \in Ledgers |-> EmptyHash]
  /\ held = [c \in Clients |-> NoProof]

\* Seeded fault: the root is not recomputed.
AddEntryStaleRoot(l, r) ==
  /\ Len(leaves[l]) < MaxEntries
  /\ leaves' = [leaves EXCEPT ![l] = Append(@, Leaf(r, Len(leaves[l])))]
  /\ UNCHANGED <<root, held>>

AddEntry(l, r) ==
  LET grown == Append(leaves[l], Leaf(r, Len(leaves[l])))
  IN  /\ Len(leaves[l]) < MaxEntries
      /\ leaves' = [leaves EXCEPT ![l] = grown]
      /\ root' = [root EXCEPT ![l] = MerkleRoot(grown)]
      /\ UNCHANGED held

\* A proof as get_proof returns it; "size" is history: the leaves it covers.
Proof(l, hashes, idx, theRoot) ==
  [ledger    |-> l,
   entry_id  |-> hashes[idx + 1].request,
   leaf_hash |-> hashes[idx + 1],
   proof     |-> MerkleProof(hashes, idx),
   root      |-> theRoot,
   size      |-> Len(hashes)]

\* The FIRST entry with that identifier; an unknown one raises KeyError.
FirstIndex(l, r) ==
  CHOOSE i \in 0..(Len(leaves[l]) - 1) :
    /\ leaves[l][i + 1].request = r
    /\ \A j \in 0..(i - 1) : leaves[l][j + 1].request # r

GetProof(c, l, r) ==
  /\ \E i \in 1..Len(leaves[l]) : leaves[l][i].request = r
  /\ held' = [held EXCEPT ![c] = Proof(l, leaves[l], FirstIndex(l, r), root[l])]
  /\ UNCHANGED <<leaves, root>>

\* Seeded fault: the root the proof quotes is compared, the path is not walked.
VerifyQuotedRoot(entry_id, p) == p.root = root[p.ledger]

\* The verdict on a proof presented for entry_id: the code never looks at it.
VerifyIntegrity(entry_id, p) == FoldProof(p.leaf_hash, p.proof) = root[p.ledger]

Next ==
  \/ \E l \in Ledgers, r \in Requests : AddEntry(l, r)
  \/ \E c \in Clients, l \in Ledgers, r \in Requests : GetProof(c, l, r)

Spec == Init /\ [][Next]_vars
-----------------------------------------------------------------------------
HasProof(c) == held[c] # NoProof

(* Types: every leaf records the position it was inserted at.              *)
TypeOK ==
  /\ DOMAIN leaves = Ledgers /\ DOMAIN root = Ledgers /\ DOMAIN held = Clients
  /\ \A l \in Ledgers :
       /\ Len(leaves[l]) <= MaxEntries
       /\ \A i \in 1..Len(leaves[l]) :
            leaves[l][i] \in [request : Requests, index : {i - 1}]

(* verify_integrity accepts the proof of an entry exactly as long as no    *)
(* entry was added to that ledger since get_proof (merkle.py 136-137:      *)
(* False means tampering or a proof of an earlier state).                  *)
ProofExact ==
  \A c \in Clients : HasProof(c) =>
    (VerifyIntegrity(held[c].entry_id, held[c])
       <=> held[c].size = Len(leaves[held[c].ledger]))

(* A leaf put in the place of the proven one is refused by the same steps, *)
(* at any time: a proof binds its leaf and its position.                   *)
ProofBindsLeaf ==
  \A c \in Clients : HasProof(c) =>
    \A l \in Ledgers : \A i \in 1..Len(leaves[l]) :
      leaves[l][i] # held[c].leaf_hash =>
        ~ VerifyIntegrity(held[c].entry_id,
                          [held[c] EXCEPT !.leaf_hash = leaves[l][i]])

(* The layer-by-layer loop of _compute_merkle_root, which pads an odd      *)
(* layer with its last digest, builds the tree defined from the root down  *)
(* (merkle.py 28-36): layers that are odd at several levels at once are    *)
(* where the loop could go wrong.                                          *)
RootIsTree ==
  \A l \in Ledgers : leaves[l] # <<>> => root[l] = Tree(leaves[l])

(* The in-memory ledger: its root is that of the tree its leaves make, a   *)
(* proof is accepted exactly until the next entry, and binds its leaf and  *)
(* its position (merkle.py 28-61 and 110-146).                             *)
LedgerSound == TypeOK /\ RootIsTree /\ ProofExact /\ ProofBindsLeaf
=============================================================================
