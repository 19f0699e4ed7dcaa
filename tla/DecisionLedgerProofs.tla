------------------------ MODULE DecisionLedgerProofs ------------------------
(***************************************************************************)
(* What the root and the proofs of inclusion of the in-memory ledger are   *)
(* worth, for any number of instances, identifiers, clients and entries.   *)
(***************************************************************************)
EXTENDS DecisionLedger, MerkleProofs

\* The digests a ledger is made of.
Leaves == [request : Requests, index : Nat]

\* Every root is that of the leaves it stands beside.
RootsCurrent ==
  /\ leaves \in [Ledgers -> Seq(Leaves)]
  /\ root = [l \in Ledgers |-> MerkleRoot(leaves[l])]

\* What a client holds is the proof of one leaf over a prefix of the list.
ProofOf(p, l, n, idx) ==
  /\ p.ledger = l /\ p.size = n
  /\ n \in 1..Len(leaves[l]) /\ idx \in 0..(n - 1)
  /\ p.leaf_hash = leaves[l][idx + 1]
  /\ p.proof = MerkleProof(SubSeq(leaves[l], 1, n), idx)

HeldFromPrefix ==
  \A c \in Clients : HasProof(c) =>
    \E l \in Ledgers : \E n \in Nat : \E idx \in Nat : ProofOf(held[c], l, n, idx)

IInv == TypeOK /\ RootsCurrent /\ HeldFromPrefix

(* A leaf is no node of a tree.                                            *)
LEMMA LeafIsNoNode == \A x \in Leaves : NotNode(x)
<1> SUFFICES ASSUME NEW x \in Leaves, NEW l, NEW r, x = Node(l, r) PROVE FALSE
  BY DEF NotNode
<1>1. DOMAIN x = {"request", "index"}
  BY DEF Leaves
<1>2. DOMAIN Node(l, r) = {"left", "right"}
  BY DEF Node
<1>3. "request" \notin {"left", "right"}
  OBVIOUS
<1> QED
  BY <1>1, <1>2, <1>3

(* The leaves of a ledger are distinct: each records its position.         *)
LEMMA LeavesAreDistinct ==
  ASSUME TypeOK, RootsCurrent, NEW l \in Ledgers, leaves[l] # <<>>
  PROVE  LeafList(leaves[l])
<1>1. leaves[l] \in Seq(Leaves)
  BY DEF RootsCurrent
<1>2. Len(leaves[l]) \in Nat \ {0}
  BY <1>1
<1>3. IsLayer(leaves[l])
  BY <1>1, <1>2 DEF IsLayer
<1>4. \A i \in 1..Len(leaves[l]) : leaves[l][i] \in Leaves /\ leaves[l][i].index = i - 1
  BY <1>1 DEF TypeOK
<1> QED
  BY <1>3, <1>4, LeafIsNoNode DEF LeafList

(* The empty ledgers satisfy the invariant.                                *)
LEMMA InitSound == Init => IInv
<1> SUFFICES ASSUME Init PROVE IInv
  OBVIOUS
<1>1. TypeOK
  BY BoundAssumption DEF Init, TypeOK
<1>2. RootsCurrent
  BY DEF Init, RootsCurrent, MerkleRoot
<1>3. HeldFromPrefix
  BY DEF Init, HeldFromPrefix, HasProof
<1> QED
  BY <1>1, <1>2, <1>3 DEF IInv

(* A new entry leaves every prefix as it was.                              *)
LEMMA EntryStep ==
  ASSUME IInv, NEW l \in Ledgers, NEW r \in Requests, AddEntry(l, r)
  PROVE  IInv'
<1> DEFINE new == Leaf(r, Len(leaves[l]))
           grown == Append(leaves[l], new)
<1>1. leaves[l] \in Seq(Leaves) /\ Len(leaves[l]) \in Nat /\ Len(leaves[l]) < MaxEntries
  BY DEF IInv, RootsCurrent, AddEntry
<1>2. new \in [request : Requests, index : {Len(leaves[l])}] /\ new \in Leaves
  BY <1>1 DEF Leaf, Leaves
<1>3. /\ leaves' = [leaves EXCEPT ![l] = grown]
      /\ root' = [root EXCEPT ![l] = MerkleRoot(grown)]
      /\ held' = held
  BY DEF AddEntry
<1> HIDE DEF new
<1>4. /\ grown \in Seq(Leaves) /\ Len(grown) = Len(leaves[l]) + 1
      /\ \A i \in 1..Len(leaves[l]) : grown[i] = leaves[l][i]
      /\ grown[Len(leaves[l]) + 1] = new
  BY <1>1, <1>2
<1> HIDE DEF grown
<1>5. /\ leaves \in [Ledgers -> Seq(Leaves)] /\ DOMAIN root = Ledgers
      /\ leaves'[l] = grown /\ \A k \in Ledgers \ {l} : leaves'[k] = leaves[k]
  BY <1>3 DEF IInv, RootsCurrent
<1>6. TypeOK'
  <2>1. DOMAIN leaves' = Ledgers /\ DOMAIN root' = Ledgers /\ DOMAIN held' = Clients
    BY <1>3 DEF IInv, TypeOK
  <2>2. Len(leaves'[l]) <= MaxEntries
    BY <1>1, <1>4, <1>5, BoundAssumption
  <2>3. ASSUME NEW i \in 1..Len(leaves'[l])
        PROVE  leaves'[l][i] \in [request : Requests, index : {i - 1}]
    <3>1. CASE i \in 1..Len(leaves[l])
      BY <3>1, <1>4, <1>5 DEF IInv, TypeOK
    <3>2. CASE i = Len(leaves[l]) + 1
      BY <3>2, <1>1, <1>2, <1>4, <1>5
    <3> QED
      BY <3>1, <3>2, <1>1, <1>4, <1>5
  <2>4. ASSUME NEW k \in Ledgers \ {l}
        PROVE  /\ Len(leaves'[k]) <= MaxEntries
               /\ \A i \in 1..Len(leaves'[k]) :
                    leaves'[k][i] \in [request : Requests, index : {i - 1}]
    BY <1>5 DEF IInv, TypeOK
  <2> QED
    BY <2>1, <2>2, <2>3, <2>4 DEF TypeOK
<1>7. RootsCurrent'
  <2>1. leaves' \in [Ledgers -> Seq(Leaves)]
    BY <1>3, <1>4, <1>5
  <2>2. root' = [k \in Ledgers |-> MerkleRoot(leaves'[k])]
    BY <1>3, <1>5 DEF IInv, RootsCurrent
  <2> QED
    BY <2>1, <2>2 DEF RootsCurrent, Leaves
<1>8. HeldFromPrefix'
  <2> SUFFICES ASSUME NEW c \in Clients, HasProof(c)'
               PROVE  \E k \in Ledgers : \E n \in Nat : \E idx \in Nat :
                        ProofOf(held[c], k, n, idx)'
    BY DEF HeldFromPrefix
  <2>1. HasProof(c) /\ held'[c] = held[c]
    BY <1>3 DEF HasProof
  <2>2. PICK k \in Ledgers, n \in Nat, idx \in Nat : ProofOf(held[c], k, n, idx)
    BY <2>1 DEF IInv, HeldFromPrefix
  <2>3. CASE k = l
    <3>1. n \in 1..Len(leaves[l]) /\ idx \in 0..(n - 1)
      BY <2>2, <2>3 DEF ProofOf
    <3>2. SubSeq(grown, 1, n) = SubSeq(leaves[l], 1, n) /\ grown[idx + 1] = leaves[l][idx + 1]
      BY <3>1, <1>1, <1>2, <1>4 DEF grown
    <3>3. n \in 1..Len(grown)
      BY <3>1, <1>1, <1>4
    <3> QED
      BY <2>1, <2>2, <2>3, <3>1, <3>2, <3>3, <1>5, ZenonT(60) DEF ProofOf
  <2>4. CASE k # l
    BY <2>1, <2>2, <2>4, <1>5 DEF ProofOf
  <2> QED
    BY <2>3, <2>4
<1> QED
  BY <1>6, <1>7, <1>8 DEF IInv

(* get_proof hands out the proof of the whole list, a prefix of itself.    *)
LEMMA GetProofStep ==
  ASSUME IInv, NEW c \in Clients, NEW l \in Ledgers, NEW r \in Requests, GetProof(c, l, r)
  PROVE  IInv'
<1> DEFINE idx == FirstIndex(l, r)
           n == Len(leaves[l])
<1>1. leaves[l] \in Seq(Leaves) /\ n \in Nat
  BY DEF IInv, RootsCurrent
<1>2. PICK i \in 1..n : leaves[l][i].request = r
  BY DEF GetProof
<1>3. idx \in 0..(n - 1)
  <2> DEFINE Q(j) == /\ leaves[l][j + 1].request = r
                     /\ \A k \in 0..(j - 1) : leaves[l][k + 1].request # r
             S == {j \in 0..(n - 1) : leaves[l][j + 1].request = r}
  <2>1. S \in SUBSET Nat /\ i - 1 \in S
    BY <1>1, <1>2
  <2>2. PICK m \in S : \A j \in S : m <= j
    <3> HIDE DEF S
    <3> QED
      BY <2>1, LeastNumber
  <2>3. m \in 0..(n - 1) /\ Q(m)
    <3>1. ASSUME NEW k \in 0..(m - 1) PROVE leaves[l][k + 1].request # r
      <4>1. k \in 0..(n - 1) /\ ~ (m <= k)
        BY <1>1, <2>2
      <4>2. k \notin S
        BY <2>2, <4>1
      <4> QED
        BY <4>1, <4>2
    <3> QED
      BY <2>2, <3>1
  <2>4. idx = CHOOSE j \in 0..(n - 1) : Q(j)
    BY DEF FirstIndex
  <2> HIDE DEF Q
  <2> QED
    BY <2>3, <2>4
<1>4. leaves' = leaves /\ root' = root
      /\ held' = [held EXCEPT ![c] = Proof(l, leaves[l], idx, root[l])]
  BY DEF GetProof
<1> HIDE DEF idx
<1>5. TypeOK' /\ RootsCurrent'
  BY <1>4 DEF IInv, TypeOK, RootsCurrent, Leaves
<1>6. HeldFromPrefix'
  <2> SUFFICES ASSUME NEW d \in Clients, HasProof(d)'
               PROVE  \E k \in Ledgers : \E m \in Nat : \E j \in Nat : ProofOf(held[d], k, m, j)'
    BY DEF HeldFromPrefix
  <2>1. CASE d = c
    <3>1. held'[d] = Proof(l, leaves[l], idx, root[l])
      BY <1>4, <2>1 DEF IInv, TypeOK
    <3>2. n \in 1..n /\ IsLayer(leaves[l])
      BY <1>1, <1>2 DEF IsLayer
    <3>3. SubSeq(leaves[l], 1, n) = leaves[l]
      BY <3>2, PrefixShape
    <3>4. PICK m \in Nat, j \in Nat : m = n /\ j = idx
      BY <1>1, <1>3
    <3>5. ProofOf(held[d], l, m, j)'
      <4>1. /\ held'[d].ledger = l /\ held'[d].size = m
            /\ held'[d].leaf_hash = leaves[l][j + 1]
            /\ held'[d].proof = MerkleProof(SubSeq(leaves[l], 1, m), j)
        <5>1. /\ held'[d].ledger = l /\ held'[d].size = Len(leaves[l])
              /\ held'[d].leaf_hash = leaves[l][idx + 1]
              /\ held'[d].proof = MerkleProof(leaves[l], idx)
          BY <3>1 DEF Proof
        <5>2. SubSeq(leaves[l], 1, m) = leaves[l]
          BY <3>3, <3>4
        <5> QED
          BY <3>4, <5>1, <5>2
      <4>2. m \in 1..Len(leaves[l]) /\ j \in 0..(m - 1)
        BY <1>3, <3>2, <3>4
      <4> QED
        BY <1>4, <4>1, <4>2 DEF ProofOf
    <3> QED
      BY <3>5
  <2>2. CASE d # c
    <3>1. held'[d] = held[d] /\ HasProof(d)
      BY <1>4, <2>2 DEF HasProof
    <3> QED
      BY <1>4, <3>1 DEF IInv, HeldFromPrefix, ProofOf
  <2> QED
    BY <2>1, <2>2
<1> QED
  BY <1>5, <1>6 DEF IInv

(* Every step keeps it.                                                    *)
LEMMA StepSound == IInv /\ [Next]_vars => IInv'
<1> SUFFICES ASSUME IInv, [Next]_vars PROVE IInv'
  OBVIOUS
<1>1. CASE UNCHANGED vars
  BY <1>1, ZenonT(60) DEF vars, IInv, TypeOK, RootsCurrent, Leaves, HeldFromPrefix, HasProof, ProofOf
<1>2. CASE Next
  BY <1>2, EntryStep, GetProofStep DEF Next
<1> QED
  BY <1>1, <1>2

(* What the invariant says of one held proof.                              *)
LEMMA HeldProof ==
  ASSUME IInv, NEW c \in Clients, HasProof(c)
  PROVE  \E l \in Ledgers : \E n \in Nat : \E idx \in Nat :
           /\ ProofOf(held[c], l, n, idx)
           /\ LeafList(leaves[l]) /\ root[l] = MerkleRoot(leaves[l])
<1>1. PICK l \in Ledgers, n \in Nat, idx \in Nat : ProofOf(held[c], l, n, idx)
  BY DEF IInv, HeldFromPrefix
<1>2. n \in 1..Len(leaves[l]) /\ idx \in 0..(n - 1)
  BY <1>1 DEF ProofOf
<1>3. leaves[l] # <<>>
  <2>1. Len(leaves[l]) # 0
    BY <1>2
  <2> QED
    BY <2>1
<1>4. LeafList(leaves[l]) /\ root[l] = MerkleRoot(leaves[l])
  BY <1>3, LeavesAreDistinct DEF IInv, RootsCurrent
<1> QED
  BY <1>1, <1>2, <1>4

(* A proof is accepted exactly while its list is the whole ledger.         *)
LEMMA ExactFromInv == IInv => ProofExact
<1> SUFFICES ASSUME IInv, NEW c \in Clients, HasProof(c)
             PROVE  VerifyIntegrity(held[c].entry_id, held[c])
                      <=> held[c].size = Len(leaves[held[c].ledger])
  BY DEF ProofExact
<1>1. PICK l \in Ledgers, n \in Nat, idx \in Nat :
             /\ ProofOf(held[c], l, n, idx)
             /\ LeafList(leaves[l]) /\ root[l] = MerkleRoot(leaves[l])
  BY HeldProof
<1>2. n \in 1..Len(leaves[l]) /\ idx \in 0..(n - 1)
  BY <1>1 DEF ProofOf
<1>3. FoldProof(held[c].leaf_hash, held[c].proof) = MerkleRoot(SubSeq(leaves[l], 1, n))
  BY <1>1, <1>2, ProofOfPrefix DEF ProofOf, LeafList
<1>4. MerkleRoot(SubSeq(leaves[l], 1, n)) = MerkleRoot(leaves[l]) <=> n = Len(leaves[l])
  BY <1>1, <1>2, PrefixRoot
<1>5. held[c].ledger = l /\ held[c].size = n
  BY <1>1 DEF ProofOf
<1> QED
  BY <1>1, <1>3, <1>4, <1>5 DEF VerifyIntegrity

(* Another leaf in the place of the proven one is refused.                 *)
LEMMA BindsFromInv == IInv => ProofBindsLeaf
<1> SUFFICES ASSUME IInv, NEW c \in Clients, HasProof(c),
                    NEW k \in Ledgers, NEW i \in 1..Len(leaves[k]),
                    leaves[k][i] # held[c].leaf_hash,
                    VerifyIntegrity(held[c].entry_id,
                                    [held[c] EXCEPT !.leaf_hash = leaves[k][i]])
             PROVE  FALSE
  BY DEF ProofBindsLeaf
<1> DEFINE x == leaves[k][i]
           p == held[c]
           q == [held[c] EXCEPT !.leaf_hash = x]
<1>1. PICK l \in Ledgers, n \in Nat, idx \in Nat :
             /\ ProofOf(p, l, n, idx)
             /\ LeafList(leaves[l]) /\ root[l] = MerkleRoot(leaves[l])
  BY HeldProof
<1>2. n \in 1..Len(leaves[l]) /\ idx \in 0..(n - 1)
  BY <1>1 DEF ProofOf
<1>3. NotNode(x)
  <2>1. leaves[k] # <<>>
    <3>1. Len(leaves[k]) # 0
      BY DEF IInv, RootsCurrent
    <3> QED
      BY <3>1
  <2> QED
    BY <2>1, LeavesAreDistinct DEF IInv, LeafList
<1>4. q.ledger = l /\ q.leaf_hash = x /\ q.proof = MerkleProof(SubSeq(leaves[l], 1, n), idx)
  BY <1>1 DEF ProofOf
<1>5. FoldProof(x, MerkleProof(SubSeq(leaves[l], 1, n), idx)) = MerkleRoot(leaves[l])
  BY <1>1, <1>4 DEF VerifyIntegrity
<1>6. IsLayer(leaves[l]) /\ Len(leaves[l]) \in Nat
  BY <1>1 DEF LeafList, IsLayer
<1>7. IsLayer(SubSeq(leaves[l], 1, n)) /\ Len(SubSeq(leaves[l], 1, n)) = n
  BY <1>2, <1>6, PrefixShape
<1>8. x = leaves[l][idx + 1]
  <2> DEFINE s == SubSeq(leaves[l], 1, n)
             t == leaves[l]
  <2>1. idx \in 0..(Len(s) - 1) /\ Len(s) <= Len(t)
    BY <1>2, <1>6, <1>7
  <2> HIDE DEF s, t, x
  <2>2. IsLayer(s) /\ IsLayer(t) /\ FoldProof(x, MerkleProof(s, idx)) = MerkleRoot(t)
    BY <1>5, <1>6, <1>7 DEF s, t
  <2>3. x = t[idx + 1]
    BY <1>3, <2>1, <2>2, ProofBinds
  <2> QED
    BY <2>3 DEF t
<1> QED
  BY <1>1, <1>8 DEF ProofOf

(* The root that stands beside the leaves is that of their tree.           *)
LEMMA TreeFromInv == IInv => RootIsTree
<1> SUFFICES ASSUME IInv, NEW l \in Ledgers, leaves[l] # <<>>
             PROVE  root[l] = Tree(leaves[l])
  BY DEF RootIsTree
<1>1. LeafList(leaves[l]) /\ root[l] = MerkleRoot(leaves[l])
  BY LeavesAreDistinct DEF IInv, RootsCurrent
<1>2. IsLayer(leaves[l])
  BY <1>1 DEF LeafList
<1> QED
  BY <1>1, <1>2, RootIsOfTree
-----------------------------------------------------------------------------
(* Every reachable state satisfies the inductive invariant.                *)
THEOREM Invariance == Spec => []IInv
BY InitSound, StepSound, PTL DEF Spec

(* For ledgers of any size: the root is that of the tree of its leaves, a  *)
(* proof of inclusion is accepted exactly until the next entry, and it     *)
(* binds its leaf and its position for good (merkle.py 28-61 and 110-146). *)
THEOREM ProofsAreSound == Spec => []LedgerSound
<1>1. IInv => LedgerSound
  BY TreeFromInv, ExactFromInv, BindsFromInv DEF IInv, LedgerSound
<1> QED
  BY <1>1, Invariance, PTL
=============================================================================
