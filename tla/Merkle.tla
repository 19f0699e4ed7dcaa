------------------------------- MODULE Merkle -------------------------------
(***************************************************************************)
(* The Merkle tree of services/shared/ledger/merkle.py.                    *)
(*                                                                         *)
(* SHA-256 is a free constructor: the digest of a record is the record     *)
(* itself, the digest of a concatenation of two digests is the node made   *)
(* of both, so two digests are equal exactly when their preimages are.     *)
(* Positions are 0-based as in the code, sequences 1-based as in TLA+.     *)
(***************************************************************************)
EXTENDS Naturals, SequencesExt

EmptyHash == [empty |-> TRUE]
Node(l, r) == [left |-> l, right |-> r]

\* Seeded fault: a layer of odd length is filled up with the empty digest.
PaddedWithEmpty(layer) ==
  IF Len(layer) % 2 = 1 THEN Append(layer, EmptyHash) ELSE layer

\* A layer of odd length repeats its last digest.
Padded(layer) ==
  IF Len(layer) % 2 = 1 THEN Append(layer, layer[Len(layer)]) ELSE layer

ParentLayer(layer) ==
  LET full == Padded(layer)
  IN  [i \in 1..(Len(full) \div 2) |-> Node(full[2 * i - 1], full[2 * i])]

\* LayerAt(hashes, k): the layer after k turns of the loop.
LayerAt(hashes, k) ==
  LET layer[j \in Nat] == IF j = 0 THEN hashes ELSE ParentLayer(layer[j - 1])
  IN  layer[k]

\* The number of turns: the loop stops at the first layer of one digest.
Height(hashes) ==
  CHOOSE k \in 0..Len(hashes) :
    /\ Len(LayerAt(hashes, k)) <= 1
    /\ \A j \in 0..(k - 1) : Len(LayerAt(hashes, j)) > 1

MerkleRoot(hashes) ==
  IF hashes = <<>> THEN EmptyHash ELSE LayerAt(hashes, Height(hashes))[1]

\* Seeded fault: the sibling on the right is taken one place too early.
ProofStepOffByOne(layer, pos) ==
  IF pos % 2 = 1
  THEN [sibling |-> Padded(layer)[pos], position |-> "left"]
  ELSE [sibling |-> Padded(layer)[pos + 1], position |-> "right"]

\* One step of the proof of the leaf at position pos of a layer.
ProofStep(layer, pos) ==
  IF pos % 2 = 1
  THEN [sibling |-> Padded(layer)[pos], position |-> "left"]
  ELSE [sibling |-> Padded(layer)[pos + 2], position |-> "right"]

\* The position of the leaf at idx, or of what covers it, after k turns.
PositionAt(idx, k) ==
  LET position[j \in Nat] == IF j = 0 THEN idx ELSE position[j - 1] \div 2
  IN  position[k]

MerkleProof(hashes, idx) ==
  [k \in 1..Height(hashes) |->
     ProofStep(LayerAt(hashes, k - 1), PositionAt(idx, k - 1))]

\* The digest a proof leads to from a leaf.
ApplyStep(current, step) ==
  IF step.position = "right" THEN Node(current, step.sibling)
                             ELSE Node(step.sibling, current)

\* The digest after k steps of a proof.
CurrentAt(leaf, steps, k) ==
  LET current[j \in Nat] == IF j = 0 THEN leaf ELSE ApplyStep(current[j - 1], steps[j])
  IN  current[k]

FoldProof(leaf, steps) == CurrentAt(leaf, steps, Len(steps))
-----------------------------------------------------------------------------
(* A reference definition, from the root down: a tree of height k that     *)
(* begins at a leaf covers Span(k) of them, each half of it is a tree, and *)
(* where the right half has no leaf the left one stands in for it.         *)

Span(k) ==
  LET span[j \in Nat] == IF j = 0 THEN 1 ELSE 2 * span[j - 1]
  IN  span[k]

\* The tree of height k from a leaf on, for every leaf.
TreesFrom(hashes, k) ==
  LET trees[j \in Nat] ==
        IF j = 0 THEN hashes
        ELSE LET half == Span(j - 1)
                 smaller == trees[j - 1]
             IN  [i \in 1..Len(hashes) |->
                    Node(smaller[i], smaller[IF i + half <= Len(hashes) THEN i + half ELSE i])]
  IN  trees[k]

Tree(hashes) == TreesFrom(hashes, Height(hashes))[1]
=============================================================================
