--------------------------- MODULE PlatformProofs ---------------------------
(***************************************************************************)
(* The parts of the platform that share no state with each other, each for *)
(* every value of its constants: the keys of the data subjects, the schema *)
(* migrations, the monitors over public data, Defensor, TaxPredict, the    *)
(* score engines, the graph of lawsuits, the table of jurimetria and the   *)
(* advice products.                                                        *)
(***************************************************************************)
EXTENDS CryptoShredding, Migrations, PublicMonitors, Defensor, TaxPredict, Answers,
        CaseGraph, Jurimetrics, MerkleProofs, FiniteSetTheorems, SequenceTheorems
-----------------------------------------------------------------------------
(* CryptoShredding *)

(***************************************************************************)
(* Crypto-shredding, for any number of processes, callers, titulares and   *)
(* tenants and however often titulares are erased and processes restarted. *)
(*                                                                         *)
(* The properties speak of tokens in the ledger; a token is also on its    *)
(* way in a caller, and what makes it unreadable is that its key is in no  *)
(* store.  The inductive invariant says so of both: a key that was drawn   *)
(* belongs to one subject of one process for ever.                         *)
(***************************************************************************)
\* The tokens that are in the ledger, or will be.
Made == ledger \cup ({holding[c] : c \in Callers} \ {NoToken})

\* The key of a token opens the current tokens of one subject of one process.
Matches(token) ==
  /\ token.key \in 1..drawn
  /\ token.erased[token.process] <= erasures[token.process][token.subject]
  /\ token.restart <= restarts[token.process]
  /\ \A p \in Processes, s \in Subjects :
       store[p][KeyId(s)] = token.key <=>
         (Alive(token) /\ p = token.process /\ s = token.subject)

KeysMatch == \A token \in Made : Matches(token)

\* No key is in two places.
KeysDistinct ==
  \A p, q \in Processes, s, r \in Subjects :
    (store[p][KeyId(s)] = store[q][KeyId(r)] /\ store[p][KeyId(s)] # 0)
      => p = q /\ s = r

KeysInv == KeysTypeOK /\ KeysMatch /\ KeysDistinct
-----------------------------------------------------------------------------
\* The two parts of a key's name can be told apart again.
LEMMA KeyIdInjective ==
  /\ \A s \in Subjects : KeyId(s) \in KeyIds
  /\ \A s, r \in Subjects : KeyId(s) = KeyId(r) => s = r
BY DEF Subjects, KeyId, KeyIds

(* Tokens that were made are tokens.                                       *)
LEMMA MadeTokens ==
  ASSUME KeysTypeOK PROVE Made \subseteq Tokens /\ NoToken \notin Tokens
BY DEF KeysTypeOK, Made, Tokens, NoToken

(* Every variable keeps its type, and no store holds a key that was not    *)
(* drawn (lgpd_crypto.py 55-65, 109-126).                                  *)
LEMMA KeysTyped == KeysSpec => []KeysTypeOK
<1>1. KeysInit => KeysTypeOK
  BY DEF KeysInit, KeysTypeOK
<1>2. KeysTypeOK /\ [KeysNext]_keyVars => KeysTypeOK'
  <2> SUFFICES ASSUME KeysTypeOK, [KeysNext]_keyVars PROVE KeysTypeOK'
    OBVIOUS
  <2>1. ASSUME NEW c \in Callers, NEW p \in Processes, NEW s \in Subjects,
               LoadOrCreateKey(c, p, s)
        PROVE  KeysTypeOK'
    <3>1. \A key \in Nat : Token(p, s, key) \in Tokens
      BY DEF Token, Tokens, KeysTypeOK
    <3>2. CASE store[p][KeyId(s)] # 0
      BY <2>1, <3>1, <3>2, KeyIdInjective DEF LoadOrCreateKey, KeysTypeOK
    <3>3. CASE store[p][KeyId(s)] = 0
      <4>1. drawn' = drawn + 1 /\ drawn + 1 \in Nat /\ 0..drawn \subseteq 0..(drawn + 1)
        BY <2>1, <3>3 DEF LoadOrCreateKey, KeysTypeOK
      <4>2. store' = [store EXCEPT ![p][KeyId(s)] = drawn + 1]
        BY <2>1, <3>3 DEF LoadOrCreateKey
      <4>3. store' \in [Processes -> [KeyIds -> 0..(drawn + 1)]]
        BY <4>1, <4>2, KeyIdInjective DEF KeysTypeOK
      <4>4. holding' \in [Callers -> Tokens \cup {NoToken}]
        BY <2>1, <3>1, <3>3, <4>1 DEF LoadOrCreateKey, KeysTypeOK
      <4> QED BY <2>1, <4>1, <4>3, <4>4 DEF LoadOrCreateKey, KeysTypeOK
    <3> QED BY <3>2, <3>3
  <2>2. ASSUME NEW c \in Callers, Seal(c) PROVE KeysTypeOK'
    BY <2>2 DEF Seal, KeysTypeOK
  <2>3. ASSUME NEW p \in Processes, NEW s \in Subjects, EraseTitular(p, s)
        PROVE  KeysTypeOK'
    BY <2>3, KeyIdInjective DEF EraseTitular, KeysTypeOK
  <2>4. ASSUME NEW p \in Processes, Restart(p) PROVE KeysTypeOK'
    BY <2>4 DEF Restart, KeysTypeOK
  <2>5. CASE UNCHANGED keyVars
    BY <2>5 DEF keyVars, KeysTypeOK
  <2> QED BY <2>1, <2>2, <2>3, <2>4, <2>5 DEF KeysNext
<1> QED BY <1>1, <1>2, PTL DEF KeysSpec

(* Every step keeps each token with the subject of its key.                *)
LEMMA KeysMatchStep ==
  ASSUME KeysInv, KeysTypeOK', [KeysNext]_keyVars PROVE KeysMatch'
<1> USE DEF Alive
<1>0. /\ \A token \in Made : token \in Tokens /\ Matches(token)
      /\ NoToken \notin Tokens
  BY MadeTokens DEF KeysInv, KeysMatch
<1>1. ASSUME NEW c \in Callers, NEW p \in Processes, NEW s \in Subjects,
             LoadOrCreateKey(c, p, s)
      PROVE  KeysMatch'
  <2>1. PICK new :
          /\ new = Token(p, s, store'[p][KeyId(s)])
          /\ holding' = [holding EXCEPT ![c] = new]
          /\ UNCHANGED <<ledger, erasures, restarts>>
    BY <1>1, KeyIdInjective DEF LoadOrCreateKey, KeysInv, KeysTypeOK
  <2>2. Made' \subseteq Made \cup {new}
    BY <2>1 DEF Made, KeysInv, KeysTypeOK
  <2>3. CASE store[p][KeyId(s)] # 0
    <3>1. UNCHANGED <<store, drawn>>
      BY <1>1, <2>3 DEF LoadOrCreateKey
    <3>2. \A token \in Made : Matches(token)'
      BY <1>0, <2>1, <3>1 DEF Matches
    <3>3. Matches(new)'
      BY <2>1, <2>3, <3>1, KeyIdInjective DEF Matches, Token, KeysInv, KeysTypeOK, KeysDistinct
    <3> QED BY <2>2, <3>2, <3>3 DEF KeysMatch
  <2>4. CASE store[p][KeyId(s)] = 0
    <3>1. drawn' = drawn + 1 /\ drawn \in Nat
      BY <1>1, <2>4 DEF LoadOrCreateKey, KeysInv, KeysTypeOK
    <3>2. \A q \in Processes, r \in Subjects :
            store'[q][KeyId(r)] =
              IF q = p /\ r = s THEN drawn + 1 ELSE store[q][KeyId(r)]
      BY <1>1, <2>4, KeyIdInjective DEF LoadOrCreateKey, KeysInv, KeysTypeOK
    <3>3. \A q \in Processes, r \in Subjects : store[q][KeyId(r)] \in 0..drawn
      BY KeyIdInjective DEF KeysInv, KeysTypeOK
    <3>4. \A token \in Made : Matches(token)'
      BY <1>0, <2>1, <2>4, <3>1, <3>2, <3>3 DEF Matches
    <3>5. Matches(new)'
      BY <2>1, <3>1, <3>2, <3>3 DEF Matches, Token, KeysInv, KeysTypeOK
    <3> QED BY <2>2, <3>4, <3>5 DEF KeysMatch
  <2> QED BY <2>3, <2>4
<1>2. ASSUME NEW c \in Callers, Seal(c) PROVE KeysMatch'
  <2>1. Made' \subseteq Made
    BY <1>2 DEF Seal, Made, KeysInv, KeysTypeOK
  <2>2. \A token \in Made : Matches(token)'
    BY <1>0, <1>2 DEF Seal, Matches
  <2> QED BY <2>1, <2>2 DEF KeysMatch
<1>3. ASSUME NEW p \in Processes, NEW s \in Subjects, EraseTitular(p, s)
      PROVE  KeysMatch'
  <2>1. Made' \subseteq Made /\ UNCHANGED <<drawn, restarts>>
    BY <1>3 DEF EraseTitular, Made
  <2>2. \A q \in Processes, r \in Subjects :
          /\ store'[q][KeyId(r)] = IF q = p /\ r = s THEN 0 ELSE store[q][KeyId(r)]
          /\ erasures'[q][r] = IF q = p /\ r = s THEN erasures[q][r] + 1 ELSE erasures[q][r]
          /\ erasures[q][r] \in Nat
    BY <1>3, KeyIdInjective DEF EraseTitular, KeysInv, KeysTypeOK
  <2>3. ASSUME NEW token \in Made PROVE Matches(token)'
    <3>1. /\ token.process \in Processes /\ token.subject \in Subjects
          /\ token.erased[token.process] \in Nat /\ token.key \in 1..drawn
      BY <1>0 DEF Tokens, Matches
    <3>2. CASE token.process = p /\ token.subject = s
      BY <1>0, <2>1, <2>2, <3>1, <3>2 DEF Matches
    <3>3. CASE ~ (token.process = p /\ token.subject = s)
      BY <1>0, <2>1, <2>2, <3>1, <3>3 DEF Matches
    <3> QED BY <3>2, <3>3
  <2> QED BY <2>1, <2>3 DEF KeysMatch
<1>4. ASSUME NEW p \in Processes, Restart(p) PROVE KeysMatch'
  <2>1. Made' \subseteq Made /\ UNCHANGED <<drawn, erasures>>
    BY <1>4 DEF Restart, Made, KeysInv, KeysTypeOK
  <2>2. \A q \in Processes :
          /\ \A r \in Subjects :
               store'[q][KeyId(r)] = IF q = p THEN 0 ELSE store[q][KeyId(r)]
          /\ restarts'[q] = IF q = p THEN restarts[q] + 1 ELSE restarts[q]
          /\ restarts[q] \in Nat
    BY <1>4, KeyIdInjective DEF Restart, KeysInv, KeysTypeOK
  <2>3. ASSUME NEW token \in Made PROVE Matches(token)'
    <3>1. /\ token.process \in Processes /\ token.subject \in Subjects
          /\ token.restart \in Nat /\ token.key \in 1..drawn
      BY <1>0 DEF Tokens, Matches
    <3>2. CASE token.process = p
      BY <1>0, <2>1, <2>2, <3>1, <3>2 DEF Matches
    <3>3. CASE token.process # p
      BY <1>0, <2>1, <2>2, <3>1, <3>3 DEF Matches
    <3> QED BY <3>2, <3>3
  <2> QED BY <2>1, <2>3 DEF KeysMatch
<1>5. CASE UNCHANGED keyVars
  BY <1>0, <1>5 DEF keyVars, KeysMatch, Matches, Made
<1> QED BY <1>1, <1>2, <1>3, <1>4, <1>5 DEF KeysNext

(* No step gives one key to two subjects.                                  *)
LEMMA KeysDistinctStep ==
  ASSUME KeysInv, [KeysNext]_keyVars PROVE KeysDistinct'
<1>0. \A q \in Processes, r \in Subjects : store[q][KeyId(r)] \in 0..drawn
  BY KeyIdInjective DEF KeysInv, KeysTypeOK
<1>1. ASSUME NEW c \in Callers, NEW p \in Processes, NEW s \in Subjects,
             LoadOrCreateKey(c, p, s)
      PROVE  KeysDistinct'
  <2>1. CASE store[p][KeyId(s)] # 0
    BY <1>1, <2>1 DEF LoadOrCreateKey, KeysInv, KeysDistinct
  <2>2. CASE store[p][KeyId(s)] = 0
    <3>1. \A q \in Processes, r \in Subjects :
            store'[q][KeyId(r)] =
              IF q = p /\ r = s THEN drawn + 1 ELSE store[q][KeyId(r)]
      BY <1>1, <2>2, KeyIdInjective DEF LoadOrCreateKey, KeysInv, KeysTypeOK
    <3>2. drawn \in Nat
      BY DEF KeysInv, KeysTypeOK
    <3> QED BY <1>0, <3>1, <3>2 DEF KeysDistinct, KeysInv
  <2> QED BY <2>1, <2>2
<1>2. ASSUME NEW c \in Callers, Seal(c) PROVE KeysDistinct'
  BY <1>2 DEF Seal, KeysInv, KeysDistinct
<1>3. ASSUME NEW p \in Processes, NEW s \in Subjects, EraseTitular(p, s)
      PROVE  KeysDistinct'
  <2>1. \A q \in Processes, r \in Subjects :
          store'[q][KeyId(r)] = IF q = p /\ r = s THEN 0 ELSE store[q][KeyId(r)]
    BY <1>3, KeyIdInjective DEF EraseTitular, KeysInv, KeysTypeOK
  <2> QED BY <2>1 DEF KeysDistinct, KeysInv
<1>4. ASSUME NEW p \in Processes, Restart(p) PROVE KeysDistinct'
  <2>1. \A q \in Processes, r \in Subjects :
          store'[q][KeyId(r)] = IF q = p THEN 0 ELSE store[q][KeyId(r)]
    BY <1>4, KeyIdInjective DEF Restart, KeysInv, KeysTypeOK
  <2> QED BY <2>1 DEF KeysDistinct, KeysInv
<1>5. CASE UNCHANGED keyVars
  BY <1>5 DEF keyVars, KeysInv, KeysDistinct
<1> QED BY <1>1, <1>2, <1>3, <1>4, <1>5 DEF KeysNext

(* Both hold in every reachable state.                                     *)
LEMMA KeysInductive == KeysSpec => []KeysInv
<1>1. KeysInit => KeysInv
  BY KeyIdInjective DEF KeysInit, KeysInv, KeysTypeOK, KeysMatch, KeysDistinct, Made, NoToken
<1>2. KeysInv /\ KeysTypeOK' /\ [KeysNext]_keyVars => KeysInv'
  BY KeysMatchStep, KeysDistinctStep DEF KeysInv
<1> QED BY <1>1, <1>2, KeysTyped, PTL DEF KeysSpec

(* A token whose titular was erased, in the process that made it, since    *)
(* its key was taken stays unreadable in every process and for every       *)
(* subject (lgpd_crypto.py 55-86, 109-126).                                *)
THEOREM Erasure == KeysSpec => []ErasedIsUnreadable
<1>1. KeysInv => ErasedIsUnreadable
  BY DEF KeysInv, KeysMatch, Matches, Made, ErasedIsUnreadable, CanRead
<1> QED BY <1>1, KeysInductive, PTL

(* Any other token can be read where it was made, under its own subject    *)
(* only: erasing it in another process, or for another tenant, does not    *)
(* reach it (lgpd_crypto.py 50-52, 89-106).                                *)
THEOREM Readability == KeysSpec => []ReadableUntilErased
<1>1. KeysInv => ReadableUntilErased
  <2> SUFFICES ASSUME KeysInv, NEW token \in ledger, Alive(token),
                      NEW p \in Processes, NEW s \in Subjects
               PROVE  CanRead(p, s, token) <=> (p = token.process /\ s = token.subject)
    BY DEF ReadableUntilErased
  <2>1. Matches(token)
    BY DEF KeysInv, KeysMatch, Made
  <2>2. token.key # 0
    BY <2>1 DEF Matches, KeysInv, KeysTypeOK
  <2> QED BY <2>1, <2>2 DEF Matches, CanRead
<1> QED BY <1>1, KeysInductive, PTL
-----------------------------------------------------------------------------
(* Migrations *)

(***************************************************************************)
(* The migrations, for any number of runners that overlap, die and start   *)
(* again and any number of files that change meanwhile.                    *)
(*                                                                         *)
(* A runner may have read an old list.  What saves the order is that a     *)
(* list can only be too long: every file that is not recorded is still     *)
(* pending in it (Behind), so the first pending file is either recorded,   *)
(* and its INSERT fails, or the first one that is not.  Between the INSERT *)
(* and the commit the primary key keeps everybody else off (Inserted,      *)
(* Alone).                                                                 *)
(***************************************************************************)
Records == [version : Versions, checksum : 0..MaxEdits]

Behind ==
  \A r \in Runners :
    /\ runner[r].applied \subseteq Recorded
    /\ runner[r].at \in {"ready", "executed", "recorded"} =>
         \A v \in Versions : v \in runner[r].pending \/ v \in Recorded

Inserted ==
  \A r \in Runners, v \in Versions :
    At(r, "recorded") /\ NextFile(r, v) => v \notin Recorded

Alone ==
  \A q, r \in Runners, v \in Versions :
    /\ At(q, "recorded") /\ NextFile(q, v)
    /\ At(r, "recorded") /\ NextFile(r, v)
    => q = r

MigrationsInv ==
  /\ MigrationsTypeOK /\ RowsAreWhatRan /\ AppliedInOrder
  /\ Behind /\ Inserted /\ Alone
-----------------------------------------------------------------------------
(* A runner at rest is a runner.                                           *)
LEMMA IdleIsTyped ==
  Idle \in [at : Places, applied : SUBSET Versions,
            pending : SUBSET Versions, content : Contents]
BY MigrationsAssumption, SMT DEF Idle, Places, Contents

\* The versions recorded are those of the scripts that ran, without a gap.
LEMMA RecordedIsPrefix ==
  ASSUME MigrationsTypeOK, RowsAreWhatRan, AppliedInOrder
  PROVE  Recorded = 1..Len(effects)
<1>1. DOMAIN effects = 1..Len(effects) /\ Len(effects) \in Nat
  BY DEF MigrationsTypeOK
<1>2. \A v : v \in Recorded <=> \E i \in 1..Len(effects) : v = effects[i].version
  BY <1>1 DEF Recorded, RowsAreWhatRan
<1> QED BY <1>1, <1>2 DEF AppliedInOrder

\* The first pending file of a runner that holds its row is the next to run.
LEMMA NextToRun ==
  ASSUME MigrationsInv, NEW r \in Runners, NEW v \in Versions, At(r, "recorded"), NextFile(r, v)
  PROVE  v = Len(effects) + 1
<1>1. Recorded = 1..Len(effects) /\ Len(effects) \in Nat /\ v \in Nat /\ Files \in Nat
  BY RecordedIsPrefix, MigrationsAssumption DEF MigrationsInv, MigrationsTypeOK, Versions
<1>2. v > Len(effects)
  BY <1>1 DEF MigrationsInv, Inserted, Versions
<1>3. ASSUME v > Len(effects) + 1 PROVE FALSE
  <2>1. Len(effects) + 1 \in Versions /\ Len(effects) + 1 \notin Recorded
    BY <1>1, <1>3 DEF Versions
  <2>2. Len(effects) + 1 \in runner[r].pending
    BY <2>1 DEF MigrationsInv, Behind, At
  <2> QED BY <1>1, <1>3, <2>2 DEF NextFile
<1> QED BY <1>1, <1>2, <1>3
-----------------------------------------------------------------------------
(* The initial state satisfies the invariant.                              *)
LEMMA MigrationsInitially == MigrationsInit => MigrationsInv
<1> SUFFICES ASSUME MigrationsInit PROVE MigrationsInv
  OBVIOUS
<1>1. MigrationsTypeOK
  <2>1. content \in Contents
    BY MigrationsAssumption DEF MigrationsInit, Contents
  <2>2. runner \in [Runners -> [at : Places, applied : SUBSET Versions,
                                pending : SUBSET Versions, content : Contents]]
    BY IdleIsTyped DEF MigrationsInit
  <2>3. effects \in Seq(Records) /\ rows \subseteq Records
    BY DEF MigrationsInit
  <2>4. control \in BOOLEAN /\ runs \in [Runners -> Nat]
    BY DEF MigrationsInit
  <2> QED BY <2>1, <2>2, <2>3, <2>4 DEF MigrationsTypeOK, Records
<1>2. RowsAreWhatRan /\ AppliedInOrder
  BY DEF MigrationsInit, RowsAreWhatRan, AppliedInOrder
<1>3. Behind /\ Inserted /\ Alone
  BY DEF MigrationsInit, Behind, Inserted, Alone, At, Idle
<1> QED BY <1>1, <1>2, <1>3 DEF MigrationsInv

\* A step that commits nothing keeps the order; it is left to show that the
\* runner that moved is typed, not ahead of its list and alone.
LEMMA WithoutCommit ==
  ASSUME MigrationsInv, NEW r \in Runners, NEW new,
         new \in [at : Places, applied : SUBSET Versions,
                  pending : SUBSET Versions, content : Contents],
         runner' = [runner EXCEPT ![r] = new],
         UNCHANGED <<rows, effects>>,
         control' \in BOOLEAN, content' \in Contents, runs' \in [Runners -> Nat],
         new.applied \subseteq Recorded,
         new.at \in {"ready", "executed"} =>
           \A v \in Versions : v \in new.pending \/ v \in Recorded,
         new.at # "recorded"
  PROVE  MigrationsInv'
<1>1. Recorded' = Recorded
  BY DEF Recorded
<1>2. MigrationsTypeOK'
  BY DEF MigrationsInv, MigrationsTypeOK
<1>3. RowsAreWhatRan' /\ AppliedInOrder'
  BY DEF MigrationsInv, RowsAreWhatRan, AppliedInOrder
<1>4. runner \in [Runners -> [at : Places, applied : SUBSET Versions,
                              pending : SUBSET Versions, content : Contents]]
  BY DEF MigrationsInv, MigrationsTypeOK
<1>5. Behind'
  BY <1>1, <1>4 DEF MigrationsInv, Behind
<1>6. \A q \in Runners : At(q, "recorded")' => At(q, "recorded") /\ runner'[q] = runner[q]
  BY <1>4 DEF At
<1>7. Inserted'
  BY <1>1, <1>6 DEF MigrationsInv, Inserted, NextFile
<1>8. Alone'
  BY <1>6 DEF MigrationsInv, Alone, NextFile
<1> QED BY <1>2, <1>3, <1>5, <1>7, <1>8 DEF MigrationsInv

(* A runner that stops, for whatever reason, leaves rows and effects       *)
(* alone.                                                                  *)
LEMMA Stopped ==
  ASSUME MigrationsInv, NEW r \in Runners, Stop(r),
         UNCHANGED <<rows, effects>>,
         control' \in BOOLEAN, content' \in Contents, runs' \in [Runners -> Nat]
  PROVE  MigrationsInv'
<1>1. Idle.applied \subseteq Recorded /\ Idle.at = "idle"
  BY DEF Idle
<1> QED BY <1>1, IdleIsTyped, WithoutCommit DEF Stop

(* A commit adds the effect of a script together with its row.             *)
LEMMA Committed ==
  ASSUME MigrationsInv, NEW r \in Runners, NEW v \in Versions, Commit(r, v)
  PROVE  MigrationsInv'
<1> DEFINE row == Row(v, runner[r].content[v])
<1>1. v = Len(effects) + 1
  BY NextToRun DEF Commit
<1>2. row \in Records /\ row.version = v
  BY DEF MigrationsInv, MigrationsTypeOK, Contents, Row, Records
<1>3. effects \in Seq(Records) /\ effects' = Append(effects, row) /\ rows' = rows \cup {row}
  BY DEF Commit, MigrationsInv, MigrationsTypeOK, Records
<1>4. Recorded' = Recorded \cup {v}
  BY <1>2, <1>3 DEF Recorded
<1> HIDE DEF row
<1>5. /\ effects' \in Seq(Records) /\ Len(effects') = Len(effects) + 1
      /\ DOMAIN effects' = 1..(Len(effects) + 1) /\ DOMAIN effects = 1..Len(effects)
      /\ Len(effects) \in Nat
      /\ effects'[Len(effects) + 1] = row
      /\ \A i \in DOMAIN effects : effects'[i] = effects[i]
  BY <1>2, <1>3
<1>6. RowsAreWhatRan'
  BY <1>3, <1>5 DEF MigrationsInv, RowsAreWhatRan
<1>7. AppliedInOrder'
  BY <1>1, <1>2, <1>5 DEF MigrationsInv, AppliedInOrder
<1>8. runner \in [Runners -> [at : Places, applied : SUBSET Versions,
                              pending : SUBSET Versions, content : Contents]]
  BY DEF MigrationsInv, MigrationsTypeOK
<1>9. /\ runner'[r] = [runner[r] EXCEPT !.at = "ready", !.pending = @ \ {v}]
      /\ \A q \in Runners : q # r => runner'[q] = runner[q]
      /\ runner' \in [Runners -> [at : Places, applied : SUBSET Versions,
                                   pending : SUBSET Versions, content : Contents]]
  BY <1>8 DEF Commit, Places
<1>10. MigrationsTypeOK'
  BY <1>2, <1>3, <1>5, <1>9 DEF MigrationsInv, MigrationsTypeOK, Records, Commit
<1>11. \A q \in Runners : At(q, "recorded")' => q # r /\ At(q, "recorded") /\ runner'[q] = runner[q]
  <2> SUFFICES ASSUME NEW q \in Runners, At(q, "recorded")'
               PROVE  q # r /\ At(q, "recorded") /\ runner'[q] = runner[q]
    OBVIOUS
  <2>1. runner'[r].at = "ready"
    BY <1>8, <1>9
  <2>2. q # r
    BY <2>1 DEF At
  <2>3. runner'[q] = runner[q]
    BY <1>9, <2>2
  <2> QED BY <2>2, <2>3 DEF At
<1>12. Behind'
  <2> SUFFICES ASSUME NEW q \in Runners
               PROVE  /\ runner'[q].applied \subseteq Recorded'
                      /\ runner'[q].at \in {"ready", "executed", "recorded"} =>
                           \A w \in Versions : w \in runner'[q].pending \/ w \in Recorded'
    BY DEF Behind
  <2>1. CASE q = r
    BY <1>4, <1>8, <1>9, <2>1 DEF MigrationsInv, Behind, Commit, At
  <2>2. CASE q # r
    BY <1>4, <1>9, <2>2 DEF MigrationsInv, Behind
  <2> QED BY <2>1, <2>2
<1>13. Inserted'
  <2> SUFFICES ASSUME NEW q \in Runners, NEW w \in Versions,
                      At(q, "recorded")', NextFile(q, w)'
               PROVE  w \notin Recorded'
    BY DEF Inserted
  <2>1. q # r /\ At(q, "recorded") /\ NextFile(q, w)
    BY <1>11 DEF NextFile
  <2>2. w \notin Recorded
    BY <2>1 DEF MigrationsInv, Inserted
  <2>3. w # v
    BY <2>1 DEF MigrationsInv, Alone, Commit
  <2> QED BY <1>4, <2>2, <2>3
<1>14. Alone'
  BY <1>11 DEF MigrationsInv, Alone, NextFile
<1> QED BY <1>6, <1>7, <1>10, <1>12, <1>13, <1>14 DEF MigrationsInv

\* The row goes in where nobody else holds it and none is committed.
LEMMA RowInserted ==
  ASSUME MigrationsInv, NEW r \in Runners, NEW v \in Versions, Record(r, v), v \notin Recorded
  PROVE  MigrationsInv'
<1>1. runner \in [Runners -> [at : Places, applied : SUBSET Versions,
                              pending : SUBSET Versions, content : Contents]]
  BY DEF MigrationsInv, MigrationsTypeOK
<1>2. /\ runner'[r] = [runner[r] EXCEPT !.at = "recorded"]
      /\ \A q \in Runners : q # r => runner'[q] = runner[q]
      /\ runner' \in [Runners -> [at : Places, applied : SUBSET Versions,
                                   pending : SUBSET Versions, content : Contents]]
  BY <1>1 DEF Record, Goto, Places
<1>3. Recorded' = Recorded
  BY DEF Record, Recorded
<1>4. MigrationsTypeOK' /\ RowsAreWhatRan' /\ AppliedInOrder'
  BY <1>2 DEF Record, MigrationsInv, MigrationsTypeOK, RowsAreWhatRan, AppliedInOrder
<1>5. \A q \in Runners : runner'[q].pending = runner[q].pending /\ runner'[q].applied = runner[q].applied
  BY <1>1, <1>2
<1>6. Behind'
  BY <1>2, <1>3, <1>5 DEF MigrationsInv, Behind, Record, At
<1>7. \A w \in Versions : NextFile(r, w)' => w = v
  BY <1>5, MigrationsAssumption DEF NextFile, Record, Versions
<1>8. \A q \in Runners : q # r /\ At(q, "recorded")' => At(q, "recorded") /\ runner'[q] = runner[q]
  BY <1>2 DEF At
<1>9. Inserted'
  BY <1>3, <1>7, <1>8 DEF MigrationsInv, Inserted, NextFile
<1>10. Alone'
  BY <1>7, <1>8 DEF MigrationsInv, Alone, NextFile, Record
<1> QED BY <1>4, <1>6, <1>9, <1>10 DEF MigrationsInv
-----------------------------------------------------------------------------
(* A step of the surroundings keeps the invariant.                         *)
LEMMA RunnersAtRest ==
  ASSUME MigrationsInv, UNCHANGED <<rows, effects, runner>>, control' \in BOOLEAN,
         content' \in Contents, runs' \in [Runners -> Nat]
  PROVE  MigrationsInv'
<1>1. MigrationsTypeOK'
  BY DEF MigrationsInv, MigrationsTypeOK
<1>2. RowsAreWhatRan' /\ AppliedInOrder'
  BY DEF MigrationsInv, RowsAreWhatRan, AppliedInOrder
<1>3. Behind' /\ Inserted' /\ Alone'
  BY DEF MigrationsInv, Behind, Inserted, Alone, Recorded, At, NextFile
<1> QED BY <1>1, <1>2, <1>3 DEF MigrationsInv

(* Every step keeps it.                                                    *)
LEMMA MigrationsPreserved == MigrationsInv /\ [MigrationsNext]_migrationVars => MigrationsInv'
<1> SUFFICES ASSUME MigrationsInv, [MigrationsNext]_migrationVars PROVE MigrationsInv'
  OBVIOUS
<1>1. /\ control \in BOOLEAN /\ content \in Contents /\ runs \in [Runners -> Nat]
      /\ runner \in [Runners -> [at : Places, applied : SUBSET Versions,
                                  pending : SUBSET Versions, content : Contents]]
  BY DEF MigrationsInv, MigrationsTypeOK
<1>2. ASSUME NEW r \in Runners, EnsureControlTable(r) PROVE MigrationsInv'
  <2>1. control' \in BOOLEAN /\ content' \in Contents /\ runs' \in [Runners -> Nat]
    <3>1. control' \in BOOLEAN
      BY <1>1, <1>2, Zenon DEF EnsureControlTable
    <3>2. content' \in Contents
      BY <1>1, <1>2, Zenon DEF EnsureControlTable
    <3>3. runs' = [runs EXCEPT ![r] = runs[r] + 1]
      BY <1>2, Zenon DEF EnsureControlTable
    <3>4. runs' \in [Runners -> Nat]
      BY <1>1, <3>3
    <3> QED BY <3>1, <3>2, <3>4
  <2>2. CASE Goto(r, "started")
    <3> DEFINE new == [runner[r] EXCEPT !.at = "started"]
    <3>1. /\ new \in [at : Places, applied : SUBSET Versions,
                       pending : SUBSET Versions, content : Contents]
          /\ new.applied = runner[r].applied /\ new.at = "started"
          /\ runner' = [runner EXCEPT ![r] = new]
      BY <1>1, <2>2 DEF Goto, Places
    <3> HIDE DEF new
    <3>2. runner[r].applied \subseteq Recorded /\ UNCHANGED <<rows, effects>>
      BY <1>2 DEF MigrationsInv, Behind, EnsureControlTable
    <3> QED BY <2>1, <3>1, <3>2, WithoutCommit
  <2>3. CASE UNCHANGED runner
    <3>1. UNCHANGED <<rows, effects, runner>>
      BY <1>2, <2>3 DEF EnsureControlTable
    <3> QED BY <2>1, <3>1, RunnersAtRest
  <2> QED BY <1>2, <2>2, <2>3 DEF EnsureControlTable
<1>3. ASSUME NEW r \in Runners, ReadApplied(r) PROVE MigrationsInv'
  <2> DEFINE new == [runner[r] EXCEPT !.at = "read", !.applied = Recorded]
  <2>1. Recorded \subseteq Versions
    BY DEF MigrationsInv, MigrationsTypeOK, Recorded
  <2>2. /\ new \in [at : Places, applied : SUBSET Versions,
                     pending : SUBSET Versions, content : Contents]
        /\ new.applied = Recorded /\ new.at = "read"
    BY <1>1, <2>1 DEF Places
  <2>3. runner' = [runner EXCEPT ![r] = new] /\ UNCHANGED <<control, rows, effects, content, runs>>
    BY <1>1, <1>3 DEF ReadApplied
  <2> HIDE DEF new
  <2> QED BY <1>1, <2>2, <2>3, WithoutCommit
<1>4. ASSUME NEW r \in Runners, Discover(r) PROVE MigrationsInv'
  <2>1. CASE Stop(r)
    BY <1>1, <1>4, <2>1, Stopped DEF Discover
  <2>2. CASE ~Stop(r)
    <3> DEFINE new == [runner[r] EXCEPT !.at = "ready", !.content = content,
                                        !.pending = Versions \ runner[r].applied]
    <3>1. /\ new \in [at : Places, applied : SUBSET Versions,
                       pending : SUBSET Versions, content : Contents]
          /\ new.applied = runner[r].applied /\ new.at = "ready"
          /\ new.pending = Versions \ runner[r].applied
      BY <1>1 DEF Places
    <3>2. runner' = [runner EXCEPT ![r] = new] /\ UNCHANGED <<control, rows, effects, content, runs>>
      BY <1>1, <1>4, <2>2 DEF Discover
    <3> HIDE DEF new
    <3>3. new.applied \subseteq Recorded /\ \A v \in Versions : v \in new.pending \/ v \in Recorded
      BY <3>1 DEF MigrationsInv, Behind
    <3> QED BY <1>1, <3>1, <3>2, <3>3, WithoutCommit
  <2> QED BY <2>1, <2>2
<1>5. ASSUME NEW r \in Runners, End(r) PROVE MigrationsInv'
  BY <1>1, <1>5, Stopped DEF End
<1>6. ASSUME NEW r \in Runners, NEW v \in Versions, Execute(r, v) PROVE MigrationsInv'
  <2>1. CASE Stop(r)
    BY <1>1, <1>6, <2>1, Stopped DEF Execute
  <2>2. CASE Goto(r, "executed")
    <3> DEFINE new == [runner[r] EXCEPT !.at = "executed"]
    <3>1. /\ new \in [at : Places, applied : SUBSET Versions,
                       pending : SUBSET Versions, content : Contents]
          /\ new.applied = runner[r].applied /\ new.at = "executed"
          /\ new.pending = runner[r].pending
      BY <1>1 DEF Places
    <3>2. runner' = [runner EXCEPT ![r] = new] /\ UNCHANGED <<control, rows, effects, content, runs>>
      BY <1>1, <1>6, <2>2 DEF Execute, Goto
    <3> HIDE DEF new
    <3>3. new.applied \subseteq Recorded /\ \A w \in Versions : w \in new.pending \/ w \in Recorded
      BY <1>6, <3>1 DEF MigrationsInv, Behind, Execute, At
    <3> QED BY <1>1, <3>1, <3>2, <3>3, WithoutCommit
  <2> QED BY <1>6, <2>1, <2>2 DEF Execute
<1>7. ASSUME NEW r \in Runners, NEW v \in Versions, Record(r, v) PROVE MigrationsInv'
  <2>1. CASE v \in Recorded
    BY <1>1, <1>7, <2>1, Stopped DEF Record
  <2>2. CASE v \notin Recorded
    BY <1>7, <2>2, RowInserted
  <2> QED BY <2>1, <2>2
<1>8. ASSUME NEW r \in Runners, NEW v \in Versions, Commit(r, v) PROVE MigrationsInv'
  BY <1>8, Committed
<1>9. ASSUME NEW v \in Versions, Edit(v) PROVE MigrationsInv'
  <2>1. content' \in Contents
    BY <1>1, <1>9, MigrationsAssumption DEF Edit, Contents
  <2> QED BY <1>1, <1>9, <2>1, RunnersAtRest DEF Edit
<1>10. CASE UNCHANGED migrationVars
  BY <1>1, <1>10, RunnersAtRest DEF migrationVars
<1> QED BY <1>2, <1>3, <1>4, <1>5, <1>6, <1>7, <1>8, <1>9, <1>10 DEF MigrationsNext

(* It holds in every reachable state.                                      *)
LEMMA MigrationsInvariance == MigrationsSpec => []MigrationsInv
BY MigrationsInitially, MigrationsPreserved, PTL DEF MigrationsSpec

(* The control table holds exactly the scripts that ran, with the checksum *)
(* of the text that ran: for any number of runners (migrate.py 7-9).       *)
THEOREM Recording == MigrationsSpec => []RowsAreWhatRan
<1>1. MigrationsInv => RowsAreWhatRan
  BY DEF MigrationsInv
<1> QED BY <1>1, MigrationsInvariance, PTL

(* Scripts take effect in the order of their names, each once and without  *)
(* a gap, though runners hold no lock (migrate.py 5-7, 15).                *)
THEOREM Ordering == MigrationsSpec => []AppliedInOrder
<1>1. MigrationsInv => AppliedInOrder
  BY DEF MigrationsInv
<1> QED BY <1>1, MigrationsInvariance, PTL
-----------------------------------------------------------------------------
(* PublicMonitors *)

(***************************************************************************)
(* The alerts of LicitaWatch, for any number of agencies, any counts and   *)
(* any limit of up to 2000 contracts.                                      *)
(*                                                                         *)
(* A share k/n is rounded to four places before it is compared with a      *)
(* threshold of t tenths.  The rounded share is above it when              *)
(* 20000 k >= 2000 t n + n.  The exact share is above it when 10 k > t n,  *)
(* and then by 1 at least: 20000 k >= 2000 t n + 2000, which is no less    *)
(* as long as n <= 2000.                                                   *)
(***************************************************************************)
CountRecords == [total : Nat, share : [Rules -> Nat]]

(* A quotient exceeds m exactly from m + 1 times the divisor on.           *)
LEMMA QuotientAbove ==
  ASSUME NEW a \in Nat, NEW b \in Nat \ {0}, NEW m \in Nat
  PROVE  a \div b > m <=> a >= (m + 1) * b
<1> DEFINE q == a \div b
<1>1. q \in Int /\ b * q <= a /\ a < b * (q + 1)
  BY SMT
<1>2. ASSUME q > m PROVE a >= (m + 1) * b
  <2>1. q >= m + 1
    BY <1>1, <1>2
  <2>2. b * q >= b * (m + 1)
    BY <1>1, <2>1, SMT
  <2> QED BY <1>1, <2>2, SMT
<1>3. ASSUME ~ (q > m) PROVE ~ (a >= (m + 1) * b)
  <2>1. q + 1 <= m + 1
    BY <1>1, <1>3
  <2>2. b * (q + 1) <= b * (m + 1)
    BY <1>1, <2>1, SMT
  <2> QED BY <1>1, <2>2, SMT
<1> QED BY <1>2, <1>3

\* The numbers of contracts for which rounding to four places is exact enough.
Readable == 1..2000
RoundedAbove(k, n, r) == Rounded(k, n) > Threshold(r)
Above(k, n, r) == 10000 * k > Threshold(r) * n

\* Rounding a share to four places moves it across no threshold.
LEMMA RoundingIsExact ==
  ASSUME NEW k \in Nat, NEW n \in Readable, NEW r \in Rules
  PROVE  RoundedAbove(k, n, r) <=> Above(k, n, r)
<1>1. Threshold(r) \in {7000, 3000, 5000, 2000}
  BY DEF Threshold, Rules
<1>2. Rounded(k, n) > Threshold(r) <=> 20000 * k + n >= (Threshold(r) + 1) * (2 * n)
  <2> DEFINE a == 20000 * k + n
             b == 2 * n
             m == Threshold(r)
  <2>1. a \in Nat /\ b \in Nat \ {0} /\ m \in Nat
    BY <1>1 DEF Readable
  <2>2. a \div b > m <=> a >= (m + 1) * b
    <3> HIDE DEF a, b, m
    <3> QED BY <2>1, QuotientAbove
  <2> QED BY <2>2 DEF Rounded
<1>3. Rounded(k, n) > Threshold(r) <=> 10000 * k > Threshold(r) * n
  <2>1. CASE Threshold(r) = 7000
    BY <1>2, <2>1, SMT DEF Readable
  <2>2. CASE Threshold(r) = 3000
    BY <1>2, <2>2, SMT DEF Readable
  <2>3. CASE Threshold(r) = 5000
    BY <1>2, <2>3, SMT DEF Readable
  <2>4. CASE Threshold(r) = 2000
    BY <1>2, <2>4, SMT DEF Readable
  <2> QED BY <1>1, <2>1, <2>2, <2>3, <2>4
<1> QED BY <1>3 DEF RoundedAbove, Above

(* Every number up to Limit can be read.                                   *)
LEMMA WithinLimit == ASSUME NEW n \in 1..Limit PROVE n \in Readable /\ n # 0
BY MonitorsAssumption DEF Readable

(* The alerts of the rounded shares are those of the exact ones.           *)
LEMMA AlertsOfAreExact ==
  ASSUME NEW c \in CountRecords, c.total \in 1..Limit
  PROVE  AlertsOf(c) = {r \in Rules : 10000 * c.share[r] > Threshold(r) * c.total}
<1>1. c.total \in Readable /\ c.total # 0
  <2> DEFINE n == c.total
  <2>1. n \in 1..Limit
    OBVIOUS
  <2> HIDE DEF n
  <2>2. n \in Readable /\ n # 0
    BY <2>1, WithinLimit
  <2> QED BY <2>2 DEF n
<1>2. \A r \in Rules : c.share[r] \in Nat
  BY DEF CountRecords
<1>3. AlertsOf(c) = {r \in Rules : RoundedAbove(c.share[r], c.total, r)}
  BY <1>1 DEF AlertsOf, RoundedAbove
<1>4. \A r \in Rules : RoundedAbove(c.share[r], c.total, r) <=> Above(c.share[r], c.total, r)
  BY <1>1, <1>2, RoundingIsExact, Zenon
<1>5. AlertsOf(c) = {r \in Rules : Above(c.share[r], c.total, r)}
  BY <1>3, <1>4
<1> QED BY <1>5 DEF Above
-----------------------------------------------------------------------------
\* What was published is counts, and the last evaluation of an agency whose
\* contracts were all read was given all of them.
MonitorsInv ==
  /\ contracts \in [Agencies -> CountRecords]
  /\ verdict.all \in CountRecords
  /\ verdict.all.total \in 1..Limit => verdict.alerts = AlertsOf(verdict.all)

(* An agency without contracts has counts.                                 *)
LEMMA NoContractsIsCounts == NoContracts \in CountRecords /\ NoContracts.total = 0
BY DEF NoContracts, CountRecords

(* The initial state satisfies the invariant.                              *)
LEMMA MonitorsInitially == MonitorsInit => MonitorsInv
BY NoContractsIsCounts DEF MonitorsInit, MonitorsInv

(* Every step keeps it.                                                    *)
LEMMA MonitorsPreserved == MonitorsInv /\ [MonitorsNext]_monitorVars => MonitorsInv'
<1> SUFFICES ASSUME MonitorsInv, [MonitorsNext]_monitorVars PROVE MonitorsInv'
  OBVIOUS
<1>1. ASSUME UNCHANGED <<contracts, verdict>> PROVE MonitorsInv'
  BY <1>1 DEF MonitorsInv
<1>2. ASSUME NEW a \in Agencies, EvaluateAgency(a) PROVE MonitorsInv'
  <2>1. contracts' = contracts /\ contracts[a] \in CountRecords
    BY <1>2 DEF EvaluateAgency, MonitorsInv
  <2>2. CASE redis
    <3>1. PICK seen \in ReadableCounts(contracts[a]) :
            verdict' = [all |-> contracts[a], alerts |-> AlertsOf(seen)]
      BY <1>2, <2>2 DEF EvaluateAgency
    <3>2. contracts[a].total \in 1..Limit => seen = contracts[a]
      BY <3>1, MonitorsAssumption DEF ReadableCounts
    <3> QED BY <2>1, <3>1, <3>2 DEF MonitorsInv
  <2>3. CASE ~redis
    BY <1>2, <2>1, <2>3, NoContractsIsCounts DEF EvaluateAgency, MonitorsInv
  <2> QED BY <2>2, <2>3
<1>3. ASSUME NEW a \in Agencies, NEW c \in Counts, IngestPncp(a, c) PROVE MonitorsInv'
  BY <1>3, MonitorsAssumption DEF IngestPncp, MonitorsInv, CountRecords, Rules
<1>4. CASE TownsNext
  <2>1. UNCHANGED <<contracts, verdict>>
    BY <1>4 DEF TownsNext, FoundNext, SummariesNext, ListNext, IngestSiconfi, IngestIbge, ExpireIbge,
      LoadSnis, IngestCaged, NewYear, ExpireSiconfi, RequestPage, SelectTown, CutPage, ListTown, AnswerList
  <2> QED BY <1>1, <2>1
<1>5. CASE RedisFails
  BY <1>1, <1>5 DEF RedisFails
<1>6. CASE UNCHANGED monitorVars
  BY <1>1, <1>6 DEF monitorVars
<1> QED BY <1>2, <1>3, <1>4, <1>5, <1>6 DEF MonitorsNext, AgenciesNext

(* An agency all of whose contracts are read gets exactly the alerts of    *)
(* the exact shares, whatever the shares are: rounding them first (monitor *)
(* .py 98-132) neither hides an alert nor invents one.                     *)
THEOREM ExactAlerts == MonitorsSpec => []AlertsAreExact
<1>1. MonitorsInv => AlertsAreExact
  BY AlertsOfAreExact DEF MonitorsInv, AlertsAreExact
<1> QED BY <1>1, MonitorsInitially, MonitorsPreserved, PTL DEF MonitorsSpec

\* The towns a client was told of at first are, of those of the last page's
\* list, the ones up to the end of that page.
WalkKept ==
  ~walk.unsettled =>
    /\ \A t \in walk.last : Monitored(t, listing.uf)
    /\ walk.first \subseteq walk.last
    /\ \A t \in walk.first \ walk.seen : Place(t, walk.last) > walk.pages * PageSize

\* What a request has found so far has lost none of these.
ListingKept ==
  /\ listing.at = "filter" /\ ~walk.unsettled =>
       /\ walk.last \subseteq listing.kept \cup listing.left
       /\ \A t \in listing.kept : Monitored(t, listing.uf)
  /\ listing.at = "reading" =>
       /\ Listed \cup listing.left = PageOf(listing.kept, listing.page)
       /\ ~walk.unsettled => walk.last \subseteq listing.kept
       /\ ~walk.unsettled => \A t \in listing.kept : Monitored(t, listing.uf)
  /\ listing.at = "answered" =>
       walk.last = listing.kept /\ Listed = PageOf(listing.kept, listing.page)

ListType ==
  /\ ibge \subseteq Towns
  /\ listing = [at |-> listing.at, uf |-> listing.uf, page |-> listing.page, left |-> listing.left,
                kept |-> listing.kept, entries |-> listing.entries]
  /\ walk = [pages |-> walk.pages, first |-> walk.first, last |-> walk.last,
             seen |-> walk.seen, unsettled |-> walk.unsettled]
  /\ walk.unsettled \in BOOLEAN /\ walk.pages \in Nat
  /\ walk.last \subseteq Towns /\ listing.kept \subseteq Towns /\ listing.left \subseteq Towns
  /\ listing.at \in {"none", "filter", "reading", "answered", "refused"}
  /\ listing.at = "filter" => listing.entries = {}
  /\ listing.at = "filter" /\ listing.uf = NoUf => listing.left = {}
  /\ listing.at = "answered" => listing.page = walk.pages
  /\ listing.at \in {"filter", "reading", "refused"} => listing.page = walk.pages + 1
  /\ walk.pages = 0 => walk = [NoWalk EXCEPT !.unsettled = walk.unsettled]

ListInv == ListType /\ WalkKept /\ ListingKept

(* A town's place in a list is a number, at least 1 on a list it is on and *)
(* at most the length of the list; in a longer list it comes no earlier.   *)
LEMMA PlaceGrows ==
  ASSUME NEW S \in SUBSET Towns, NEW T \in SUBSET Towns, S \subseteq T, NEW t \in S
  PROVE  /\ Place(t, S) \in Nat /\ Place(t, T) \in Nat /\ Cardinality(T) \in Nat
         /\ Place(t, S) >= 1 /\ Place(t, S) <= Place(t, T) /\ Place(t, T) <= Cardinality(T)
<1> DEFINE before(U) == {u \in U : u <= t}
<1>1. IsFiniteSet(T) /\ t \in Nat
  <2>1. IsFiniteSet(Towns) /\ Towns \subseteq Nat
    BY MonitorsAssumption
  <2> QED BY <2>1, FS_Subset
<1>2. before(S) \subseteq before(T) /\ before(T) \subseteq T /\ t \in before(S)
  <2>1. t <= t
    BY <1>1
  <2> QED BY <2>1
<1>3. /\ IsFiniteSet(before(T)) /\ Cardinality(before(T)) <= Cardinality(T)
      /\ IsFiniteSet(before(S)) /\ Cardinality(before(S)) <= Cardinality(before(T))
  BY <1>1, <1>2, FS_Subset
<1>4. Cardinality(before(S)) # 0
  BY <1>2, <1>3, FS_EmptySet
<1>5. Cardinality(before(S)) \in Nat /\ Cardinality(before(T)) \in Nat /\ Cardinality(T) \in Nat
  BY <1>1, <1>3, FS_CardinalityType
<1> HIDE DEF before
<1>6. Cardinality(before(S)) >= 1
  BY <1>4, <1>5
<1> QED BY <1>3, <1>5, <1>6 DEF Place, before

(* The towns of the first list that no page up to the next one holds come  *)
(* after that page.                                                        *)
LEMMA PageAdvances ==
  ASSUME NEW S \in SUBSET Towns, NEW T \in SUBSET Towns, S \subseteq T, NEW t \in S,
         NEW k \in Nat, Place(t, S) > k * PageSize, t \notin PageOf(T, k + 1)
  PROVE  Place(t, T) > (k + 1) * PageSize
<1>1. Place(t, S) \in Nat /\ Place(t, T) \in Nat /\ Place(t, S) <= Place(t, T)
  BY PlaceGrows
<1>2. k * PageSize \in Nat /\ (k + 1) * PageSize \in Nat /\ (k + 1) - 1 = k
  BY MonitorsAssumption
<1>3. Place(t, T) >= k * PageSize + 1
  BY <1>1, <1>2
<1>4. ~(Place(t, T) \in k * PageSize + 1 .. (k + 1) * PageSize)
  BY <1>2 DEF PageOf
<1> QED BY <1>1, <1>2, <1>3, <1>4

(* Before the first request there is no list.                              *)
LEMMA ListStarts == MonitorsInit => ListInv
<1> SUFFICES ASSUME MonitorsInit PROVE ListInv
  OBVIOUS
<1>1. listing = NoListing /\ walk = NoWalk /\ ibge = {}
  BY DEF MonitorsInit
<1>2. ListType
  BY <1>1 DEF ListType, NoListing, NoWalk
<1> QED BY <1>1, <1>2 DEF ListInv, WalkKept, ListingKept, NoListing, NoWalk

(* An ingestion that takes no town out of the list keeps it; one that does *)
(* is noted.                                                               *)
LEMMA IngestionKeepsList ==
  ASSUME ListInv, ibge' \subseteq Towns, listing' = listing, Settles
  PROVE  ListInv'
<1> DEFINE lost == \E t \in Towns : Monitored(t, listing.uf) /\ ~Monitored(t, listing.uf)'
<1>1. walk' = [walk EXCEPT !.unsettled = @ \/ lost]
  BY DEF Settles
<1>2. /\ walk'.pages = walk.pages /\ walk'.first = walk.first /\ walk'.last = walk.last
      /\ walk'.seen = walk.seen /\ walk'.unsettled = (walk.unsettled \/ lost)
      /\ walk' = [pages |-> walk'.pages, first |-> walk'.first, last |-> walk'.last,
                  seen |-> walk'.seen, unsettled |-> walk'.unsettled]
  BY <1>1 DEF ListInv, ListType
<1>3. ~walk'.unsettled =>
        ~walk.unsettled /\ \A t \in Towns : Monitored(t, listing.uf) => Monitored(t, listing.uf)'
  BY <1>2
<1> HIDE DEF lost
<1>4. ListType'
  <2>1. walk.pages = 0 => walk' = [NoWalk EXCEPT !.unsettled = walk'.unsettled]
    BY <1>2 DEF ListInv, ListType, NoWalk
  <2>3. walk'.unsettled \in BOOLEAN
    BY <1>2 DEF lost, ListInv, ListType
  <2> QED BY <1>2, <2>1, <2>3 DEF ListInv, ListType
<1>5. WalkKept'
  BY <1>2, <1>3 DEF ListInv, ListType, WalkKept, Place
<1>6. ListingKept'
  <2>1. Listed' = Listed /\ \A S, p : PageOf(S, p)' = PageOf(S, p)
    BY DEF Listed
  <2> QED BY <1>2, <1>3, <2>1 DEF ListInv, ListType, ListingKept
<1> QED BY <1>4, <1>5, <1>6 DEF ListInv

(* A request keeps it: the first page starts anew,                         *)
LEMMA PageRequested ==
  ASSUME ListInv, NEW uf, NEW p \in 1..Cardinality(Towns), RequestPage(uf, p)
  PROVE  ListInv'
<1> DEFINE none == uf = NoUf
<1>1. /\ listing'.at = (IF redis THEN "filter" ELSE "refused") /\ listing'.uf = uf
      /\ listing'.page = p /\ listing'.entries = {}
      /\ listing'.left = (IF none THEN {} ELSE Found) /\ listing'.kept = (IF none THEN Found ELSE {})
      /\ listing' = [at |-> listing'.at, uf |-> listing'.uf, page |-> listing'.page,
                     left |-> listing'.left, kept |-> listing'.kept, entries |-> listing'.entries]
      /\ walk' = (IF p = 1 THEN NoWalk ELSE walk) /\ ibge' = ibge /\ snis' = snis
  BY DEF RequestPage
<1>2. Found \subseteq Towns
  BY DEF Found, ListInv, ListType
<1>3. p # 1 => p = walk.pages + 1 /\ uf = listing.uf
  BY DEF RequestPage, ListInv, ListType
<1>4. \A t, u : Monitored(t, u)' <=> Monitored(t, u)
  BY <1>1 DEF Monitored, Found, UfOf
<1>5. CASE p = 1
  <2>1. ListType'
    <3>1. walk' = NoWalk /\ listing'.page = 1
      BY <1>1, <1>5
    <3>2. /\ walk'.pages = 0 /\ walk'.first = {} /\ walk'.last = {} /\ walk'.seen = {}
          /\ walk'.unsettled = FALSE
          /\ walk' = [pages |-> walk'.pages, first |-> walk'.first, last |-> walk'.last,
                      seen |-> walk'.seen, unsettled |-> walk'.unsettled]
          /\ walk' = [NoWalk EXCEPT !.unsettled = walk'.unsettled]
      BY <3>1 DEF NoWalk
    <3>3. ibge' \subseteq Towns /\ listing'.left \subseteq Towns /\ listing'.kept \subseteq Towns
      BY <1>1, <1>2 DEF ListType, ListInv
    <3>4. listing'.at \in {"filter", "refused"} /\ listing'.page = walk'.pages + 1
      BY <1>1, <3>1, <3>2
    <3>6. walk'.pages \in Nat /\ walk'.last \subseteq Towns
      BY <3>2
    <3>7. walk'.unsettled \in BOOLEAN
      BY Zenon, <3>2
    <3>5. /\ listing'.entries = {} /\ (listing'.uf = NoUf => listing'.left = {})
          /\ listing' = [at |-> listing'.at, uf |-> listing'.uf, page |-> listing'.page,
                         left |-> listing'.left, kept |-> listing'.kept, entries |-> listing'.entries]
      BY <1>1
    <3> QED BY <3>2, <3>3, <3>4, <3>5, <3>6, <3>7 DEF ListType
  <2>2. WalkKept'
    BY <1>1, <1>5 DEF WalkKept, NoWalk
  <2>3. \A t \in listing'.kept : Monitored(t, listing'.uf)
    BY <1>1 DEF Monitored
  <2>4. ListingKept'
    BY <1>1, <1>4, <1>5, <2>3 DEF ListingKept, NoWalk
  <2> QED BY <2>1, <2>2, <2>4 DEF ListInv
<1>6. CASE p # 1
  <2>1. walk' = walk /\ listing'.uf = listing.uf /\ listing'.page = walk.pages + 1
    BY <1>1, <1>3, <1>6
  <2>2. ListType'
    BY <1>1, <1>2, <2>1 DEF ListType, ListInv
  <2>3. WalkKept'
    BY <1>4, <2>1 DEF WalkKept, ListInv, Place
  <2>4. \A t \in listing'.kept : Monitored(t, listing'.uf)
    BY <1>1 DEF Monitored
  <2>5. ~walk.unsettled => walk.last \subseteq Found
    BY DEF ListInv, WalkKept, Monitored
  <2>6. ListingKept'
    BY <1>1, <1>4, <2>1, <2>4, <2>5 DEF ListingKept
  <2> QED BY <2>2, <2>3, <2>6 DEF ListInv
<1> QED BY <1>5, <1>6

(* a turn of the filter keeps every town that is monitored and no other,   *)
LEMMA TownSelected ==
  ASSUME ListInv, NEW t \in Towns, SelectTown(t)
  PROVE  ListInv'
<1>1. /\ listing.at = "filter" /\ t \in listing.left /\ walk' = walk /\ ibge' = ibge /\ snis' = snis
      /\ listing'.uf = listing.uf /\ listing'.page = listing.page /\ listing'.entries = listing.entries
      /\ listing' = [at |-> listing'.at, uf |-> listing'.uf, page |-> listing'.page,
                     left |-> listing'.left, kept |-> listing'.kept, entries |-> listing'.entries]
      /\ \/ listing'.at = "refused" /\ listing'.left = listing.left /\ listing'.kept = listing.kept
         \/ /\ listing'.at = "filter" /\ snis[t] # NoObject /\ listing'.left = listing.left \ {t}
            /\ listing'.kept = IF UfOf(t) = listing.uf THEN listing.kept \cup {t} ELSE listing.kept
  BY DEF SelectTown, Foremost, ListInv, ListType
<1>2. \A s, u : Monitored(s, u)' <=> Monitored(s, u)
  BY <1>1 DEF Monitored, Found, UfOf
<1>3. ListType'
  BY <1>1 DEF ListInv, ListType
<1>4. WalkKept'
  BY <1>1, <1>2 DEF ListInv, WalkKept, Place
<1>5. listing.uf # NoUf
  BY <1>1 DEF ListInv, ListType
<1>6. CASE listing'.at = "filter"
  <2>1. snis[t] # NoObject /\ UfOf(t) = listing.uf => Monitored(t, listing.uf)
    BY <1>5, MonitorsAssumption DEF Monitored, Found, UfOf, NoFigures
  <2>2. Monitored(t, listing.uf) => UfOf(t) = listing.uf
    BY <1>5 DEF Monitored
  <2>3. ~walk.unsettled => /\ walk.last \subseteq listing'.kept \cup listing'.left
                           /\ \A s \in listing'.kept : Monitored(s, listing.uf)
    BY <1>1, <1>6, <2>1, <2>2 DEF ListInv, WalkKept, ListingKept
  <2> QED BY <1>1, <1>2, <1>3, <1>4, <1>6, <2>3 DEF ListInv, ListingKept
<1>7. CASE listing'.at = "refused"
  BY <1>3, <1>4, <1>7 DEF ListInv, ListingKept
<1> QED BY <1>1, <1>6, <1>7

(* the page is cut from these,                                             *)
LEMMA PageCut ==
  ASSUME ListInv, CutPage
  PROVE  ListInv'
<1>1. /\ listing.at = "filter" /\ listing.left = {} /\ UNCHANGED <<walk, ibge, snis>>
      /\ listing'.at = "reading" /\ listing'.uf = listing.uf /\ listing'.page = listing.page
      /\ listing'.entries = listing.entries /\ listing'.kept = listing.kept
      /\ listing'.left = PageOf(listing.kept, listing.page)
      /\ listing' = [at |-> listing'.at, uf |-> listing'.uf, page |-> listing'.page,
                     left |-> listing'.left, kept |-> listing'.kept, entries |-> listing'.entries]
  BY DEF CutPage, ListInv, ListType
<1>2. \A s, u : Monitored(s, u)' <=> Monitored(s, u)
  BY <1>1 DEF Monitored, Found, UfOf
<1>3. listing'.left \subseteq Towns
  BY <1>1 DEF PageOf, ListInv, ListType
<1>4. ListType'
  BY <1>1, <1>3 DEF ListInv, ListType
<1>5. WalkKept'
  BY <1>1, <1>2 DEF ListInv, WalkKept, Place
<1>6. Listed' = {} /\ PageOf(listing.kept, listing.page)' = PageOf(listing.kept, listing.page)
  BY <1>1 DEF Listed, ListInv, ListType, PageOf, Place
<1>7. ListingKept'
  BY <1>1, <1>2, <1>6 DEF ListInv, ListingKept
<1> QED BY <1>4, <1>5, <1>7 DEF ListInv

(* each of its towns gets an entry, be it an error,                        *)
LEMMA TownListed ==
  ASSUME ListInv, NEW t \in Towns, ListTown(t)
  PROVE  ListInv'
<1> DEFINE e == [id |-> t, status |-> TownSummary(t).status]
<1>1. /\ listing.at = "reading" /\ t \in listing.left /\ UNCHANGED <<walk, ibge, snis>>
      /\ listing'.at = "reading" /\ listing'.uf = listing.uf /\ listing'.page = listing.page
      /\ listing'.entries = listing.entries \cup {e} /\ listing'.kept = listing.kept
      /\ listing'.left = listing.left \ {t}
      /\ listing' = [at |-> listing'.at, uf |-> listing'.uf, page |-> listing'.page,
                     left |-> listing'.left, kept |-> listing'.kept, entries |-> listing'.entries]
  BY DEF ListTown, Foremost, ListInv, ListType
<1>2. e.id = t
  OBVIOUS
<1> HIDE DEF e
<1>3. \A s, u : Monitored(s, u)' <=> Monitored(s, u)
  BY <1>1 DEF Monitored, Found, UfOf
<1>4. ListType'
  BY <1>1 DEF ListInv, ListType
<1>5. WalkKept'
  BY <1>1, <1>3 DEF ListInv, WalkKept, Place
<1>6. Listed' = Listed \cup {t} /\ PageOf(listing.kept, listing.page)' = PageOf(listing.kept, listing.page)
  BY <1>1, <1>2 DEF Listed, PageOf, Place
<1>7. ListingKept'
  BY <1>1, <1>3, <1>6 DEF ListInv, ListingKept
<1> QED BY <1>4, <1>5, <1>7 DEF ListInv

(* and the answer adds them to what the client was told of.                *)
LEMMA PageAnswered ==
  ASSUME ListInv, AnswerList
  PROVE  ListInv'
<1> DEFINE k == walk.pages
           kept == listing.kept
<1>1. /\ listing.at = "reading" /\ listing.left = {} /\ UNCHANGED <<ibge, snis>>
      /\ listing'.at = "answered" /\ listing'.uf = listing.uf /\ listing'.page = listing.page
      /\ listing'.entries = listing.entries /\ listing'.kept = kept /\ listing'.left = {}
      /\ listing' = [at |-> listing'.at, uf |-> listing'.uf, page |-> listing'.page,
                     left |-> listing'.left, kept |-> listing'.kept, entries |-> listing'.entries]
      /\ walk'.pages = listing.page /\ walk'.last = kept /\ walk'.seen = walk.seen \cup Listed
      /\ walk'.first = (IF listing.page = 1 THEN kept ELSE walk.first)
      /\ walk'.unsettled = walk.unsettled
      /\ walk' = [pages |-> walk'.pages, first |-> walk'.first, last |-> walk'.last,
                  seen |-> walk'.seen, unsettled |-> walk'.unsettled]
  BY DEF AnswerList, ListInv, ListType
<1>2. k \in Nat /\ listing.page = k + 1 /\ kept \subseteq Towns
  BY <1>1 DEF ListInv, ListType
<1>3. Listed = PageOf(kept, k + 1)
  BY <1>1, <1>2 DEF ListInv, ListingKept
<1>4. \A s, u : Monitored(s, u)' <=> Monitored(s, u)
  BY <1>1 DEF Monitored, Found, UfOf
<1>5. ListType'
  BY <1>1, <1>2 DEF ListInv, ListType
<1>6. WalkKept'
  <2> SUFFICES ASSUME ~walk.unsettled
               PROVE  /\ \A t \in kept : Monitored(t, listing.uf)
                      /\ walk'.first \subseteq kept
                      /\ \A t \in walk'.first \ walk'.seen : Place(t, kept) > (k + 1) * PageSize
    BY <1>1, <1>2, <1>4 DEF WalkKept, Place
  <2>1. walk.last \subseteq kept /\ \A t \in kept : Monitored(t, listing.uf)
    BY <1>1 DEF ListInv, ListingKept
  <2>2. walk.first \subseteq walk.last /\ walk.last \subseteq Towns
    BY DEF ListInv, WalkKept, ListType
  <2>3. walk'.first \subseteq kept
    BY <1>1, <2>1, <2>2
  <2>4. ASSUME NEW t \in walk'.first \ walk'.seen PROVE Place(t, kept) > (k + 1) * PageSize
    <3>1. t \notin PageOf(kept, k + 1) /\ t \notin walk.seen /\ t \in kept
      BY <1>1, <1>3, <2>3
    <3>2. CASE k = 0
      <4>1. Place(t, kept) \in Nat /\ Place(t, kept) >= 1
        BY <1>2, <3>1, PlaceGrows
      <4>2. 0 * PageSize = 0
        BY MonitorsAssumption
      <4>3. Place(t, kept) > k * PageSize
        BY <3>2, <4>1, <4>2
      <4> HIDE DEF k, kept
      <4> QED BY <1>2, <3>1, <4>3, PageAdvances
    <3>3. CASE k # 0
      <4>1. t \in walk.first /\ t \in walk.last
        BY <1>1, <1>2, <2>2, <3>3
      <4>2. Place(t, walk.last) > k * PageSize
        BY <3>1, <4>1 DEF ListInv, WalkKept
      <4> HIDE DEF k, kept
      <4> QED BY <1>2, <2>1, <2>2, <3>1, <4>1, <4>2, PageAdvances
    <3> QED BY <3>2, <3>3
  <2> QED BY <2>1, <2>3, <2>4
<1>7. Listed' = Listed /\ PageOf(listing.kept, listing.page)' = PageOf(kept, k + 1)
  BY <1>1, <1>2 DEF Listed, PageOf, Place
<1>8. ListingKept'
  BY <1>1, <1>2, <1>3, <1>7 DEF ListingKept
<1> QED BY <1>5, <1>6, <1>8 DEF ListInv

(* Every step keeps it.                                                    *)
LEMMA ListPreserved == ListInv /\ [MonitorsNext]_monitorVars => ListInv'
<1> SUFFICES ASSUME ListInv, [MonitorsNext]_monitorVars PROVE ListInv'
  OBVIOUS
<1>1. ASSUME UNCHANGED <<listing, walk, ibge, snis>> PROVE ListInv'
  BY <1>1 DEF ListInv, ListType, WalkKept, ListingKept, Listed, PageOf, Place, Monitored, Found, UfOf
<1>2. CASE FoundNext
  <2>1. ibge' \subseteq Towns /\ listing' = listing /\ Settles
    BY <1>2 DEF FoundNext, IngestIbge, ExpireIbge, LoadSnis, ListInv, ListType
  <2> QED BY <2>1, IngestionKeepsList
<1>3. CASE SummariesNext
  BY <1>1, <1>3 DEF SummariesNext, IngestSiconfi, IngestCaged, NewYear, ExpireSiconfi
<1>4. CASE ListNext
  BY <1>4, PageRequested, TownSelected, PageCut, TownListed, PageAnswered DEF ListNext
<1>5. CASE AgenciesNext \/ RedisFails \/ UNCHANGED monitorVars
  BY <1>1, <1>5 DEF AgenciesNext, EvaluateAgency, IngestPncp, RedisFails, monitorVars
<1> QED BY <1>2, <1>3, <1>4, <1>5 DEF MonitorsNext, TownsNext

(* A client that follows the pages of GET /municipalities to the last is   *)
(* told of every town its first page was cut from, unless a town was taken *)
(* out meanwhile, and every page it gets is whole: for any number of towns *)
(* and any page size, whatever is ingested between two pages and within    *)
(* one, and however often Redis fails (compliance.py 165-202).             *)
THEOREM EveryTownListed == MonitorsSpec => []PagesMissNoTown
<1>1. ListInv => PagesMissNoTown
  <2> SUFFICES ASSUME ListInv, listing.at = "answered"
               PROVE  /\ Listed = PageOf(listing.kept, listing.page)
                      /\ listing.page * PageSize >= Cardinality(listing.kept) /\ ~walk.unsettled =>
                           walk.first \subseteq walk.seen
    BY DEF PagesMissNoTown
  <2>1. walk.last = listing.kept /\ walk.pages = listing.page /\ Listed = PageOf(listing.kept, listing.page)
    BY DEF ListInv, ListingKept, ListType
  <2>2. ASSUME listing.page * PageSize >= Cardinality(listing.kept), ~walk.unsettled,
               NEW t \in walk.first \ walk.seen
        PROVE  FALSE
    <3>1. t \in listing.kept /\ listing.kept \subseteq Towns
      BY <2>1, <2>2 DEF ListInv, WalkKept, ListType
    <3>2. Place(t, listing.kept) > listing.page * PageSize
      BY <2>1, <2>2 DEF ListInv, WalkKept
    <3>3. /\ Place(t, listing.kept) \in Nat /\ Cardinality(listing.kept) \in Nat
          /\ Place(t, listing.kept) <= Cardinality(listing.kept)
      BY <3>1, PlaceGrows
    <3>4. listing.page * PageSize \in Nat
      BY <2>1, MonitorsAssumption DEF ListInv, ListType
    <3> QED BY <2>2, <3>2, <3>3, <3>4
  <2> QED BY <2>1, <2>2
<1> QED BY <1>1, ListStarts, ListPreserved, PTL DEF MonitorsSpec
-----------------------------------------------------------------------------
(* Defensor *)

(***************************************************************************)
(* The agent, for any number of sections, any cases and any settings.      *)
(*                                                                         *)
(* While sections are written the calls of the provider are the sections   *)
(* it wrote, and one more once it failed, as it is not asked again (Asked).*)
(* A filing is what one of the two drivers makes of a request, and its     *)
(* number can be taken apart at the separators (Separated).                *)
(***************************************************************************)
Drafts == [by : {"llm", "template"}, precedente : Nat]
Events ==
  [evento : {"caso.classificado", "reclamante.consultado", "subsidios.solicitando", "subsidios.ok",
             "jurisprudencia.match", "defesa.redigindo", "defesa.pronta", "protocolo.preparado"},
   status : {"ok", "running", "pending"}]
Timelines == Seq(Events)
Outcomes == {"AGUARDA_PROTOCOLO", "DEFESA_PRONTA"}

Writing ==
  [at : {"writing"}, case : Cases, found : 0..5, up : BOOLEAN, asked : Nat,
   secoes : Seq(Drafts), eventos : Timelines]
Answering ==
  [at : {"done"}, case : Cases, found : 0..5, up : BOOLEAN, asked : Nat,
   secoes : Seq(Drafts), via : {"llm", "template", "parcial"}, status : Outcomes,
   eventos : Timelines]

SectionsBy(secoes, by) == {i \in DOMAIN secoes : secoes[i].by = by}

\* What the calls for the sections so far amount to.
Asked ==
  agent.asked = Cardinality(SectionsBy(agent.secoes, "llm")) + IF agent.up THEN 0 ELSE 1

AgentInv ==
  \/ agent = Resting
  \/ agent \in Writing /\ Asked /\ Len(agent.secoes) <= Sections /\ Len(agent.eventos) = 5
  \/ agent \in Answering /\ Asked /\ HonestProvenance

Filed(req) == IF setting.modo = "real" /\ req.canal \in Channels THEN Portal(req) ELSE Simulated(req)
FiledInv == \A result \in filed : \E req \in Filings : result = Filed(req)

DefensorInv == AgentInv /\ FiledInv

(* A section by the model counts one, any other none.                      *)
LEMMA OneSectionMore ==
  ASSUME NEW s \in Seq(Drafts), NEW d \in Drafts
  PROVE  /\ Append(s, d) \in Seq(Drafts) /\ Len(Append(s, d)) = Len(s) + 1
         /\ Cardinality(SectionsBy(s, "llm")) \in Nat
         /\ Cardinality(SectionsBy(Append(s, d), "llm")) =
              Cardinality(SectionsBy(s, "llm")) + IF d.by = "llm" THEN 1 ELSE 0
<1> DEFINE T == SectionsBy(s, "llm")
           i == Len(s) + 1
<1>1. T \subseteq 1..Len(s) /\ i \notin T /\ Len(s) \in Nat
  BY DEF SectionsBy
<1>2. IsFiniteSet(T)
  <2>1. IsFiniteSet(1..Len(s))
    BY <1>1, FS_Interval
  <2> QED BY <1>1, <2>1, FS_Subset
<1>3. Cardinality(T) \in Nat
  BY <1>2, FS_CardinalityType
<1>4. Cardinality(T \cup {i}) = Cardinality(T) + 1
  BY <1>1, <1>2, FS_AddElement
<1>5. SectionsBy(Append(s, d), "llm") = IF d.by = "llm" THEN T \cup {i} ELSE T
  BY DEF SectionsBy
<1> HIDE DEF T, i
<1>6. Cardinality(SectionsBy(Append(s, d), "llm")) = Cardinality(T) + IF d.by = "llm" THEN 1 ELSE 0
  <2>1. CASE d.by = "llm"
    BY <2>1, <1>4, <1>5
  <2>2. CASE d.by # "llm"
    BY <2>2, <1>3, <1>5
  <2> QED BY <2>1, <2>2
<1> QED BY <1>3, <1>6 DEF T

(* The sections of a case are those of its record.                         *)
LEMMA WrittenBy == \A by : Written(by) = SectionsBy(agent.secoes, by)
BY DEF Written, SectionsBy

(* A section that is written keeps the invariant of a case.                *)
LEMMA SectionWritten == ASSUME AgentInv, WriteSection PROVE AgentInv'
<1> DEFINE i == Len(agent.secoes) + 1
<1>1. agent \in Writing /\ Asked /\ Len(agent.eventos) = 5 /\ i <= Sections
  BY DEF AgentInv, WriteSection, Resting, Answering
<1>2. PICK text \in {Nothing, "text"} :
        /\ ~agent.up => text = Nothing
        /\ agent' = [agent EXCEPT
             !.up = text # Nothing,
             !.asked = @ + IF agent.up THEN 1 ELSE 0,
             !.secoes = Append(@, [by |-> IF text = Nothing THEN "template" ELSE "llm",
                                   precedente |-> IF i <= agent.found THEN i ELSE 0])]
  BY DEF WriteSection, Texts
<1> DEFINE d == [by |-> IF text = Nothing THEN "template" ELSE "llm",
                 precedente |-> IF i <= agent.found THEN i ELSE 0]
           s == agent.secoes
           n == Cardinality(SectionsBy(s, "llm"))
<1>3. s \in Seq(Drafts) /\ d \in Drafts /\ (d.by = "llm" <=> text # Nothing)
  BY <1>1 DEF Writing, Drafts, Nothing
<1>4. agent' = [agent EXCEPT !.up = text # Nothing,
                  !.asked = agent.asked + IF agent.up THEN 1 ELSE 0,
                  !.secoes = Append(s, d)]
  BY <1>1, <1>2 DEF Writing
<1> HIDE DEF d
<1>5. /\ Append(s, d) \in Seq(Drafts) /\ Len(Append(s, d)) = Len(s) + 1 /\ n \in Nat
      /\ Cardinality(SectionsBy(Append(s, d), "llm")) = n + IF d.by = "llm" THEN 1 ELSE 0
  BY <1>3, OneSectionMore
<1>6. agent' \in Writing /\ Len(agent'.secoes) <= Sections /\ Len(agent'.eventos) = 5
  <2> DEFINE up == text # Nothing
             asked == agent.asked + IF agent.up THEN 1 ELSE 0
             t == Append(s, d)
  <2>1. up \in BOOLEAN /\ asked \in Nat /\ t \in Seq(Drafts) /\ Len(t) <= Sections
    BY <1>1, <1>5, DefensorAssumption DEF Writing
  <2>2. agent' = [agent EXCEPT !.up = up, !.asked = asked, !.secoes = t]
    BY <1>4
  <2> HIDE DEF up, asked, t
  <2> QED BY <1>1, <2>1, <2>2 DEF Writing
<1>7. Asked'
  <2>1. agent'.up = (text # Nothing) /\ agent'.secoes = Append(s, d)
        /\ agent'.asked = agent.asked + IF agent.up THEN 1 ELSE 0
    BY <1>1, <1>4 DEF Writing
  <2>2. agent.asked = n + IF agent.up THEN 0 ELSE 1
    BY <1>1 DEF Asked
  <2>3. agent.up => agent'.asked = n + 1
    BY <1>5, <2>1, <2>2
  <2>4. ~agent.up => agent'.asked = n + 1 /\ text = Nothing
    BY <1>2, <1>5, <2>1, <2>2
  <2>5. Cardinality(SectionsBy(agent'.secoes, "llm")) = n + IF d.by = "llm" THEN 1 ELSE 0
    BY <1>5, <2>1
  <2> HIDE DEF s, n
  <2>6. CASE text = Nothing
    <3>1. agent'.asked = n + 1 /\ ~agent'.up /\ Cardinality(SectionsBy(agent'.secoes, "llm")) = n
      <4>1. d.by # "llm" /\ ~agent'.up
        BY <1>3, <2>1, <2>6
      <4>2. agent'.asked = n + 1
        <5>1. CASE agent.up
          BY <2>3, <5>1
        <5>2. CASE ~agent.up
          BY <2>4, <5>2
        <5> QED BY <5>1, <5>2
      <4>3. Cardinality(SectionsBy(agent'.secoes, "llm")) = n
        BY <1>5, <2>5, <4>1
      <4> QED BY <4>1, <4>2, <4>3
    <3> QED BY <3>1 DEF Asked
  <2>7. CASE text # Nothing
    <3>1. agent'.asked = n + 1 /\ agent'.up /\ Cardinality(SectionsBy(agent'.secoes, "llm")) = n + 1
      BY <1>3, <1>5, <2>1, <2>3, <2>4, <2>5, <2>7
    <3> QED BY <1>5, <3>1 DEF Asked
  <2> QED BY <2>6, <2>7
<1> QED BY <1>6, <1>7 DEF AgentInv

(* So does the answer to a request.                                        *)
LEMMA RequestAnswered == ASSUME AgentInv, AnswerRequest PROVE AgentInv'
<1>1. agent \in Writing /\ Asked /\ Len(agent.secoes) = Sections /\ Len(agent.eventos) = 5
  BY DEF AgentInv, AnswerRequest, Resting, Answering
<1> DEFINE who == Responsible(agent.case)
           last == <<Event("defesa.redigindo", IF Via = "template" THEN "running" ELSE "ok"),
                     Event("defesa.pronta", "ok"),
                     Event("protocolo.preparado", IF who[1] = "agente" THEN "ok" ELSE "pending")>>
<1>2. who[2] \in Outcomes
  <2>1. who = <<"humano", "AGUARDA_PROTOCOLO">> \/ who = <<"agente", "DEFESA_PRONTA">>
    BY DEF Responsible
  <2> HIDE DEF who
  <2>2. ASSUME who = <<"humano", "AGUARDA_PROTOCOLO">> PROVE who[2] \in Outcomes
    BY <2>2 DEF Outcomes
  <2>3. ASSUME who = <<"agente", "DEFESA_PRONTA">> PROVE who[2] \in Outcomes
    BY <2>3 DEF Outcomes
  <2> QED BY <2>1, <2>2, <2>3
<1>3. last \in Timelines /\ Len(last) = 3 /\ last[1].status = IF Via = "template" THEN "running" ELSE "ok"
  <2> DEFINE one == IF Via = "template" THEN "running" ELSE "ok"
             two == IF who[1] = "agente" THEN "ok" ELSE "pending"
  <2>1. one \in {"running", "ok"} /\ two \in {"ok", "pending"}
    OBVIOUS
  <2>2. last = <<Event("defesa.redigindo", one), Event("defesa.pronta", "ok"),
                 Event("protocolo.preparado", two)>>
    OBVIOUS
  <2> HIDE DEF one, two, last
  <2>3. last \in Timelines /\ Len(last) = 3 /\ last[1].status = one
    <3>1. /\ Event("defesa.redigindo", one) \in Events
          /\ Event("defesa.pronta", "ok") \in Events
          /\ Event("protocolo.preparado", two) \in Events
          /\ Event("defesa.redigindo", one).status = one
      BY <2>1 DEF Event, Events
    <3>2. Timelines = Seq(Events)
      BY DEF Timelines
    <3>3. last \in Seq(Events) /\ Len(last) = 3 /\ last[1] = Event("defesa.redigindo", one)
      BY <2>2, <3>1
    <3> QED BY <3>1, <3>2, <3>3
  <2> QED BY <2>3 DEF one
<1>4. Via \in {"llm", "template", "parcial"}
  BY DEF Via
<1>5. agent' = [at |-> "done", case |-> agent.case, found |-> agent.found, up |-> agent.up,
                asked |-> agent.asked, secoes |-> agent.secoes, via |-> Via, status |-> who[2],
                eventos |-> agent.eventos \o last]
  BY DEF AnswerRequest
<1> HIDE DEF who, last
<1>6. agent.eventos \o last \in Timelines /\ (agent.eventos \o last)[6] = last[1]
  <2> DEFINE e == agent.eventos
  <2>1. e \in Timelines /\ Len(e) = 5
    BY <1>1 DEF Writing
  <2> HIDE DEF e
  <2>2. /\ e \o last \in Timelines
        /\ \A k \in 1..Len(e) + Len(last) :
             (e \o last)[k] = IF k <= Len(e) THEN e[k] ELSE last[k - Len(e)]
    BY <1>3, <2>1, ConcatProperties DEF Timelines
  <2>3. 6 \in 1..Len(e) + Len(last) /\ ~(6 <= Len(e)) /\ 6 - Len(e) = 1
    BY <1>3, <2>1
  <2> QED BY <2>2, <2>3 DEF e
<1>7. agent' \in Answering
  BY <1>1, <1>2, <1>4, <1>5, <1>6 DEF Writing, Answering
<1>8. Asked'
  BY <1>1, <1>5 DEF Asked
<1>9. HonestProvenance'
  <2>1. /\ \A k \in 1..Sections : agent.secoes[k].by \in {"llm", "template"}
        /\ DOMAIN agent.secoes = 1..Sections
    <3> DEFINE t == agent.secoes
    <3>1. t \in Seq(Drafts) /\ Len(t) = Sections
      BY <1>1 DEF Writing
    <3> HIDE DEF t
    <3>2. DOMAIN t = 1..Sections /\ \A k \in 1..Sections : t[k] \in Drafts
      BY <3>1
    <3> QED BY <3>2 DEF t, Drafts
  <2>2. \E k \in 1..Sections : k = 1
    BY DefensorAssumption
  <2>3. /\ Via = "llm" <=> \A k \in 1..Sections : agent.secoes[k].by = "llm"
        /\ Via = "template" <=> \A k \in 1..Sections : agent.secoes[k].by = "template"
    <3>1. Written("llm") = {} <=> \A k \in 1..Sections : agent.secoes[k].by = "template"
      BY <2>1 DEF Written
    <3>2. Written("template") = {} <=> \A k \in 1..Sections : agent.secoes[k].by = "llm"
      BY <2>1 DEF Written
    <3> QED BY <2>1, <2>2, <3>1, <3>2 DEF Via
  <2>4. agent'.via = Via /\ agent'.secoes = agent.secoes /\ agent'.eventos[6] = last[1]
    BY <1>5, <1>6
  <2> HIDE DEF Via
  <2> QED BY <1>3, <2>3, <2>4 DEF HonestProvenance
<1> QED BY <1>7, <1>8, <1>9 DEF AgentInv

(* Every step keeps it.                                                    *)
LEMMA AgentPreserved == AgentInv /\ [DefensorNext]_defensorVars => AgentInv'
<1> SUFFICES ASSUME AgentInv, [DefensorNext]_defensorVars PROVE AgentInv'
  OBVIOUS
<1>1. ASSUME UNCHANGED agent PROVE AgentInv'
  BY <1>1 DEF AgentInv, Asked, HonestProvenance
<1>2. ASSUME NEW case \in Cases, NEW found \in 0..5, Open(case, found) PROVE AgentInv'
  <2> DEFINE first == Append(FirstEvents, Event("jurisprudencia.match", "ok"))
  <2>1. first \in Timelines /\ Len(first) = 5
    <3>1. /\ Event("caso.classificado", "ok") \in Events
          /\ Event("reclamante.consultado", "ok") \in Events
          /\ Event("subsidios.solicitando", "ok") \in Events
          /\ Event("subsidios.ok", "ok") \in Events
          /\ Event("jurisprudencia.match", "ok") \in Events
      BY DEF Event, Events
    <3>2. FirstEvents \in Seq(Events) /\ Len(FirstEvents) = 4
      BY <3>1 DEF FirstEvents
    <3> DEFINE e == FirstEvents
               match == Event("jurisprudencia.match", "ok")
    <3> HIDE DEF e, match
    <3>3. e \in Seq(Events) /\ Len(e) = 4 /\ match \in Events
      BY <3>1, <3>2 DEF e, match
    <3>4. Append(e, match) \in Seq(Events) /\ Len(Append(e, match)) = 5
      <4>1. Append(e, match) \in Seq(Events) /\ Len(Append(e, match)) = Len(e) + 1
        BY <3>3, AppendProperties, ZenonT(60)
      <4> QED BY <3>3, <4>1
    <3> QED BY <3>4 DEF Timelines, e, match
  <2>2. agent' = [at |-> "writing", case |-> case, found |-> found, up |-> TRUE, asked |-> 0,
                  secoes |-> <<>>, eventos |-> first]
    BY <1>2 DEF Open
  <2> HIDE DEF first
  <2>3. agent' \in Writing /\ Len(agent'.secoes) <= Sections /\ Len(agent'.eventos) = 5
    BY <2>1, <2>2, DefensorAssumption DEF Writing
  <2>4. SectionsBy(<<>>, "llm") = {}
    BY DEF SectionsBy
  <2>5. Asked'
    <3>1. Cardinality(SectionsBy(<<>>, "llm")) = 0
      BY <2>4, FS_EmptySet
    <3>2. agent'.asked = 0 /\ agent'.up = TRUE /\ agent'.secoes = <<>>
      BY <2>2
    <3> QED BY <3>1, <3>2 DEF Asked
  <2> QED BY <2>3, <2>5 DEF AgentInv
<1>3. CASE Close
  BY <1>3 DEF Close, AgentInv
<1>4. ASSUME NEW req \in Filings, File(req) PROVE AgentInv'
  BY <1>1, <1>4 DEF File
<1>5. CASE UNCHANGED defensorVars
  BY <1>1, <1>5 DEF defensorVars
<1> QED
  BY <1>2, <1>3, <1>4, <1>5, SectionWritten, RequestAnswered DEF DefensorNext

(* Every step keeps what is filed apart from what is simulated.            *)
LEMMA FiledPreserved == FiledInv /\ [DefensorNext]_defensorVars => FiledInv'
<1> SUFFICES ASSUME FiledInv, [DefensorNext]_defensorVars PROVE FiledInv'
  OBVIOUS
<1>1. ASSUME UNCHANGED <<setting, filed>> PROVE FiledInv'
  BY <1>1 DEF FiledInv, Filed, Portal
<1>2. ASSUME NEW req \in Filings, File(req) PROVE FiledInv'
  BY <1>2 DEF File, FiledInv, Filed, Portal
<1> QED
  BY <1>1, <1>2 DEF DefensorNext, Open, WriteSection, AnswerRequest, Close, defensorVars
-----------------------------------------------------------------------------
(* The number of a simulated filing *)

Signs == Seq(STRING \cup {"|"})
Join(s, t) == s \o t
Bar == <<"|">>
Separates(s, n) == n \in 0..Len(s) /\ \A i \in (n + 1)..Len(s) : s[i] # "|"

(* What two texts in a row are, sign by sign.                              *)
LEMMA Joined ==
  ASSUME NEW s \in Signs, NEW t \in Signs
  PROVE  /\ Join(s, t) \in Signs /\ Len(s) \in Nat /\ Len(t) \in Nat
         /\ Len(Join(s, t)) = Len(s) + Len(t)
         /\ \A i \in 1..Len(s) : Join(s, t)[i] = s[i]
         /\ \A i \in 1..Len(t) : Join(s, t)[Len(s) + i] = t[i]
<1>1. /\ Join(s, t) \in Signs /\ Len(Join(s, t)) = Len(s) + Len(t)
      /\ \A i \in 1..Len(s) + Len(t) : Join(s, t)[i] = IF i <= Len(s) THEN s[i] ELSE t[i - Len(s)]
  BY ConcatProperties DEF Signs, Join
<1>2. Len(s) \in Nat /\ Len(t) \in Nat
  BY DEF Signs
<1>3. ASSUME NEW i \in 1..Len(s) PROVE Join(s, t)[i] = s[i]
  BY <1>1, <1>2
<1>4. ASSUME NEW i \in 1..Len(t) PROVE Join(s, t)[Len(s) + i] = t[i]
  <2>1. Len(s) + i \in 1..Len(s) + Len(t) /\ ~(Len(s) + i <= Len(s)) /\ (Len(s) + i) - Len(s) = i
    BY <1>2
  <2> QED BY <1>1, <2>1
<1> QED BY <1>1, <1>2, <1>3, <1>4

(* They are a text,                                                        *)
LEMMA JoinedText ==
  ASSUME NEW s \in Signs, NEW t \in Signs
  PROVE  Join(s, t) \in Signs
BY Joined

(* as long as both,                                                        *)
LEMMA JoinedLength ==
  ASSUME NEW s \in Signs, NEW t \in Signs
  PROVE  Len(s) \in Nat /\ Len(t) \in Nat /\ Len(Join(s, t)) = Len(s) + Len(t)
BY Joined

(* that begins with the first                                              *)
LEMMA JoinedFirst ==
  ASSUME NEW s \in Signs, NEW t \in Signs, NEW i \in 1..Len(s)
  PROVE  Join(s, t)[i] = s[i]
BY Joined

(* and ends with the second.                                               *)
LEMMA JoinedSecond ==
  ASSUME NEW s \in Signs, NEW t \in Signs, NEW i \in 1..Len(t)
  PROVE  Join(s, t)[Len(s) + i] = t[i]
BY Joined

(* Texts in a row may be taken in groups.                                  *)
LEMMA Regrouped ==
  ASSUME NEW s \in Signs, NEW t \in Signs, NEW u \in Signs
  PROVE  Join(Join(s, t), u) = Join(s, Join(t, u))
BY ConcatAssociative, SMTT(40) DEF Signs, Join

(* Two texts of one length with the same signs are the same.               *)
LEMMA SameText ==
  ASSUME NEW s \in Signs, NEW t \in Signs, Len(s) = Len(t), \A i \in 1..Len(s) : s[i] = t[i]
  PROVE  s = t
BY DEF Signs

(* Texts that agree and begin alike end alike.                             *)
LEMMA SameRest ==
  ASSUME NEW s \in Signs, NEW t \in Signs, NEW u \in Signs, Join(s, t) = Join(s, u)
  PROVE  t = u
<1>1. Len(t) = Len(u)
  <2>1. Len(s) + Len(t) = Len(s) + Len(u) /\ Len(s) \in Nat /\ Len(t) \in Nat /\ Len(u) \in Nat
    BY JoinedLength
  <2> QED BY <2>1
<1>2. ASSUME NEW i \in 1..Len(t) PROVE t[i] = u[i]
  <2>1. Join(s, t)[Len(s) + i] = t[i]
    BY JoinedSecond
  <2>2. Join(s, u)[Len(s) + i] = u[i]
    BY <1>1, JoinedSecond
  <2> QED BY <2>1, <2>2
<1> QED BY <1>1, <1>2, SameText

(* The separator is one sign.                                              *)
LEMMA BarText == Bar \in Signs /\ Len(Bar) = 1 /\ Bar[1] = "|"
BY DEF Bar, Signs

\* A text can be cut at its first separator after the n-th sign.
LEMMA NotShorter ==
  ASSUME NEW s \in Signs, NEW t \in Signs, NEW x \in Signs, NEW y \in Signs,
         NEW n \in Nat, n <= Len(s), Separates(t, n),
         Join(s, Join(Bar, x)) = Join(t, Join(Bar, y))
  PROVE  Len(t) <= Len(s)
<1>1. Len(s) \in Nat /\ Len(t) \in Nat /\ Join(Bar, x) \in Signs /\ Join(Bar, y) \in Signs
  BY JoinedText, JoinedLength, BarText
<1> SUFFICES ASSUME Len(s) < Len(t) PROVE FALSE
  BY <1>1
<1>2. Join(s, Join(Bar, x))[Len(s) + 1] = "|"
  <2>1. 1 \in 1..Len(Bar) /\ Join(Bar, x)[1] = "|"
    <3>1. 1 \in 1..Len(Bar)
      BY BarText
    <3> QED BY <3>1, JoinedFirst, BarText
  <2>2. 1 \in 1..Len(Join(Bar, x))
    <3>1. Len(Join(Bar, x)) = 1 + Len(x) /\ Len(x) \in Nat
      BY JoinedLength, BarText
    <3> QED BY <3>1
  <2>3. Join(s, Join(Bar, x))[Len(s) + 1] = Join(Bar, x)[1]
    BY <1>1, <2>2, JoinedSecond
  <2> QED BY <2>1, <2>3
<1>3. Join(t, Join(Bar, y))[Len(s) + 1] = t[Len(s) + 1]
  <2>1. Len(s) + 1 \in 1..Len(t)
    BY <1>1
  <2> QED BY <1>1, <2>1, JoinedFirst
<1>4. Len(s) + 1 \in (n + 1)..Len(t)
  BY <1>1
<1> QED BY <1>2, <1>3, <1>4 DEF Separates

(* Texts without a bar after sign n are told apart by the first bar that   *)
(* follows.                                                                *)
LEMMA Separated ==
  ASSUME NEW s \in Signs, NEW t \in Signs, NEW x \in Signs, NEW y \in Signs,
         NEW n \in Nat, Separates(s, n), Separates(t, n),
         Join(s, Join(Bar, x)) = Join(t, Join(Bar, y))
  PROVE  s = t /\ x = y
<1>1. Len(s) = Len(t)
  <2>1. Len(s) \in Nat /\ Len(t) \in Nat
    BY JoinedLength
  <2>2. n <= Len(s) /\ n <= Len(t)
    BY <2>1 DEF Separates
  <2>3. Len(t) <= Len(s)
    BY <2>2, NotShorter
  <2>4. Len(s) <= Len(t)
    BY <2>2, NotShorter
  <2> QED BY <2>1, <2>3, <2>4
<1>2. Join(Bar, x) \in Signs /\ Join(Bar, y) \in Signs
  BY JoinedText, BarText
<1>3. ASSUME NEW i \in 1..Len(s) PROVE s[i] = t[i]
  <2>1. Join(s, Join(Bar, x))[i] = s[i]
    BY <1>2, JoinedFirst
  <2>2. Join(t, Join(Bar, y))[i] = t[i]
    BY <1>1, <1>2, JoinedFirst
  <2> QED BY <2>1, <2>2
<1>4. s = t
  BY <1>1, <1>3, SameText
<1> QED BY <1>2, <1>4, SameRest, BarText

\* The channel of a filing, the bar and its first part; and the rest.
Label(canal) == <<canal, "|">>
Start(req) == Join(Label(req.canal), req.parties[1])
Rest(req) == Join(req.parties[2], Join(Bar, req.parties[3]))

(* A filing has a channel and three parties.                               *)
LEMMA Shape ==
  ASSUME NEW req \in Filings
  PROVE  /\ \A i \in 1..3 : req.parties[i] \in Signs
         /\ req.parties \in [1..3 -> Signs]
         /\ req.canal \in STRING
         /\ req = [canal |-> req.canal, parties |-> req.parties]
         /\ Label(req.canal) \in Signs /\ Len(Label(req.canal)) = 2
         /\ Label(req.canal)[1] = req.canal
<1>1. /\ req.parties \in [1..3 -> Signs] /\ req.canal \in STRING
      /\ req = [canal |-> req.canal, parties |-> req.parties]
  BY DefensorAssumption DEF Signs
<1>2. ASSUME NEW c \in STRING
      PROVE Label(c) \in Signs /\ Len(Label(c)) = 2 /\ Label(c)[1] = c
  BY DEF Signs, Label
<1> QED BY <1>1, <1>2

(* The text a number is made from, up to its second bar and after it.      *)
LEMMA BaseInParts ==
  ASSUME NEW req \in Filings
  PROVE  /\ Start(req) \in Signs /\ Rest(req) \in Signs
         /\ Base(req) = Join(Start(req), Join(Bar, Rest(req)))
         /\ Len(Base(req)) >= 3
<1> DEFINE a == Label(req.canal)
           p == req.parties[1]
           q == req.parties[2]
           r == req.parties[3]
<1>1. a \in Signs /\ p \in Signs /\ q \in Signs /\ r \in Signs /\ Len(a) = 2
  BY Shape
<1>2. Base(req) = Join(Join(Join(Join(Join(a, p), Bar), q), Bar), r)
  BY DEF Base, Bar, Join, Label
<1>3. Start(req) = Join(a, p) /\ Rest(req) = Join(q, Join(Bar, r))
  BY DEF Start, Rest
<1> HIDE DEF a, p, q, r
<1>4. Join(a, p) \in Signs /\ Join(Bar, r) \in Signs /\ Len(Join(a, p)) = 2 + Len(p) /\ Len(p) \in Nat
  <2>1. Join(a, p) \in Signs /\ Join(Bar, r) \in Signs
    BY <1>1, JoinedText, BarText
  <2>2. Len(Join(a, p)) = 2 + Len(p) /\ Len(p) \in Nat
    BY <1>1, JoinedLength
  <2> QED BY <2>1, <2>2
<1>5. Join(Join(a, p), Bar) \in Signs /\ Join(q, Join(Bar, r)) \in Signs
  BY <1>1, <1>4, JoinedText, BarText
<1>6. Join(Join(Join(a, p), Bar), q) \in Signs
  BY <1>1, <1>5, JoinedText
<1>7. Base(req) = Join(Join(Join(Join(a, p), Bar), q), Join(Bar, r))
  BY <1>1, <1>2, <1>6, Regrouped, BarText
<1>8. Join(Join(Join(Join(a, p), Bar), q), Join(Bar, r)) = Join(Join(Join(a, p), Bar), Join(q, Join(Bar, r)))
  BY <1>1, <1>4, <1>5, Regrouped
<1>9. Join(Join(Join(a, p), Bar), Join(q, Join(Bar, r))) = Join(Join(a, p), Join(Bar, Join(q, Join(Bar, r))))
  BY <1>4, <1>5, Regrouped, BarText
<1>10. Len(Base(req)) >= 3
  <2>1. Join(Bar, Join(q, Join(Bar, r))) \in Signs
    BY <1>5, JoinedText, BarText
  <2>3. /\ Len(Join(q, Join(Bar, r))) \in Nat
        /\ Len(Join(Bar, Join(q, Join(Bar, r)))) = 1 + Len(Join(q, Join(Bar, r)))
    BY <1>5, JoinedLength, BarText
  <2>2. Len(Base(req)) = Len(Join(a, p)) + Len(Join(Bar, Join(q, Join(Bar, r))))
    BY <1>4, <1>7, <1>8, <1>9, <2>1, JoinedLength
  <2> QED BY <1>4, <2>2, <2>3
<1> QED BY <1>3, <1>4, <1>5, <1>7, <1>8, <1>9, <1>10

NoBars(req) == \A i \in 1..3 : \A j \in DOMAIN req.parties[i] : req.parties[i][j] # "|"

(* Parties without a bar leave the bars to separate them.                  *)
LEMMA BarsSeparate ==
  ASSUME NEW req \in Filings, NoBars(req)
  PROVE  Separates(Start(req), 2) /\ Separates(req.parties[2], 0)
<1> DEFINE a == Label(req.canal)
           p == req.parties[1]
           q == req.parties[2]
<1>1. a \in Signs /\ Len(a) = 2 /\ p \in Signs /\ q \in Signs
  BY Shape
<1>2. DOMAIN p = 1..Len(p) /\ DOMAIN q = 1..Len(q) /\ Len(p) \in Nat /\ Len(q) \in Nat
  BY <1>1 DEF Signs
<1>3. (\A j \in 1..Len(p) : p[j] # "|") /\ (\A j \in 1..Len(q) : q[j] # "|")
  BY <1>2 DEF NoBars
<1>4. Start(req) = Join(a, p)
  BY DEF Start
<1> HIDE DEF a, p, q
<1>5. Len(Join(a, p)) = 2 + Len(p) /\ \A j \in 1..Len(p) : Join(a, p)[2 + j] = p[j]
  <2>1. Len(Join(a, p)) = Len(a) + Len(p)
    BY <1>1, JoinedLength
  <2>2. \A j \in 1..Len(p) : Join(a, p)[Len(a) + j] = p[j]
    BY <1>1, JoinedSecond
  <2> QED BY <1>1, <2>1, <2>2
<1>6. \A i \in 3..(2 + Len(p)) : Join(a, p)[i] # "|"
  <2> SUFFICES ASSUME NEW i \in 3..(2 + Len(p)) PROVE Join(a, p)[i] # "|"
    OBVIOUS
  <2>1. i - 2 \in 1..Len(p) /\ 2 + (i - 2) = i
    BY <1>2
  <2> QED BY <1>3, <1>5, <2>1
<1>7. Separates(Join(a, p), 2)
  BY <1>2, <1>5, <1>6 DEF Separates
<1>8. Separates(q, 0)
  BY <1>2, <1>3 DEF Separates
<1> QED BY <1>4, <1>7, <1>8 DEF q

(* So one text comes from one filing.                                      *)
LEMMA OneNumberOneRequest ==
  ASSUME NEW f \in Filings, NEW g \in Filings, NoBars(f), NoBars(g), Base(f) = Base(g)
  PROVE  f = g
<1>1. Start(f) = Start(g) /\ Rest(f) = Rest(g)
  BY BaseInParts, BarsSeparate, Separated
<1>2. f.parties[2] = g.parties[2] /\ f.parties[3] = g.parties[3]
  <2>1. Join(f.parties[2], Join(Bar, f.parties[3])) = Join(g.parties[2], Join(Bar, g.parties[3]))
    BY <1>1 DEF Rest
  <2>2. /\ f.parties[2] \in Signs /\ f.parties[3] \in Signs
        /\ g.parties[2] \in Signs /\ g.parties[3] \in Signs
    BY Shape
  <2>3. Separates(f.parties[2], 0) /\ Separates(g.parties[2], 0)
    BY BarsSeparate
  <2> QED BY <2>1, <2>2, <2>3, Separated
<1>3. f.canal = g.canal /\ f.parties[1] = g.parties[1]
  <2>1. \A h \in {f, g} : Start(h)[1] = h.canal
    <3> SUFFICES ASSUME NEW h \in {f, g} PROVE Start(h)[1] = h.canal
      OBVIOUS
    <3> DEFINE a == Label(h.canal)
               p == h.parties[1]
    <3>1. a \in Signs /\ Len(a) = 2 /\ p \in Signs /\ a[1] = h.canal
      BY Shape
    <3>2. Start(h) = Join(a, p)
      BY DEF Start
    <3> HIDE DEF a, p
    <3>3. Join(a, p)[1] = a[1]
      <4>1. 1 \in 1..Len(a)
        BY <3>1
      <4> QED BY <3>1, <4>1, JoinedFirst
    <3> QED BY <3>1, <3>2, <3>3
  <2>2. f.canal = g.canal
    BY <1>1, <2>1
  <2>3. Join(Label(f.canal), f.parties[1]) = Join(Label(f.canal), g.parties[1])
    BY <1>1, <2>2 DEF Start
  <2>4. Label(f.canal) \in Signs /\ f.parties[1] \in Signs /\ g.parties[1] \in Signs
    BY Shape
  <2> QED BY <2>2, <2>3, <2>4, SameRest
<1>4. f.parties = g.parties
  <2>1. \A i \in 1..3 : i = 1 \/ i = 2 \/ i = 3
    OBVIOUS
  <2>2. \A i \in 1..3 : f.parties[i] = g.parties[i]
    BY <1>2, <1>3, <2>1
  <2>3. f.parties \in [1..3 -> Signs] /\ g.parties \in [1..3 -> Signs]
    BY Shape
  <2> QED BY <2>2, <2>3
<1> QED BY <1>3, <1>4, Shape

(* A defence says truthfully which of its sections the model wrote, a      *)
(* request waits for one failed call at most, nothing is filed for real    *)
(* unless it was meant to be, and a simulated number names one case, for   *)
(* any number of sections and any parties (orchestrator.py, protocolar.py).*)
THEOREM DefenceIsSound == DefensorSpec => []DefensorSound
<1>1. DefensorInit => DefensorInv
  BY DEF DefensorInit, DefensorInv, AgentInv, FiledInv
<1>2. DefensorInv /\ [DefensorNext]_defensorVars => DefensorInv'
  BY AgentPreserved, FiledPreserved DEF DefensorInv
<1>3. ASSUME DefensorInv PROVE DefensorSound
  <2>1. HonestProvenance /\ OneTimeoutPerCase
    <3>1. CASE agent = Resting
      BY <3>1 DEF Resting, HonestProvenance, OneTimeoutPerCase
    <3>2. CASE agent # Resting
      <4>1. (agent \in Writing \/ (agent \in Answering /\ HonestProvenance)) /\ Asked
        <5>1. AgentInv
          BY <1>3 DEF DefensorInv
        <5> QED BY <3>2, <5>1 DEF AgentInv
      <4>2. HonestProvenance
        BY <4>1 DEF Writing, HonestProvenance
      <4>3. agent.secoes \in Seq(Drafts)
        BY <4>1 DEF Writing, Answering
      <4>4. Cardinality(SectionsBy(agent.secoes, "llm")) \in Nat
        <5> DEFINE s == agent.secoes
        <5> HIDE DEF s
        <5>1. [by |-> "llm", precedente |-> 0] \in Drafts
          BY DEF Drafts
        <5>2. Cardinality(SectionsBy(s, "llm")) \in Nat
          BY <4>3, <5>1, OneSectionMore DEF s
        <5> QED BY <5>2 DEF s
      <4>5. OneTimeoutPerCase
        BY <4>1, <4>4, WrittenBy DEF Asked, OneTimeoutPerCase
      <4> QED BY <4>2, <4>5
    <3> QED BY <3>1, <3>2
  <2>2. \A result \in filed : \E req \in Filings :
          /\ result = Filed(req)
          /\ result.request = req
          /\ result.status = "SIMULADO" => result.number = Base(req)
          /\ result.status # "SIMULADO" => result.number = NoNumber
          /\ result.status \in {"SIMULADO", "FALHA", "AGUARDA_CREDENCIAIS"}
          /\ result.status = "FALHA" =>
               setting.modo = "real" /\ req.canal \in Channels \cap setting.login
    BY <1>3 DEF DefensorInv, FiledInv, Filed, Portal, Simulated
  <2>3. FilingIsDeliberate
    <3>1. \A req \in Filings : Base(req) # NoNumber
      <4>1. Len(NoNumber) = 0
        BY DEF NoNumber
      <4>2. \A req \in Filings : Len(Base(req)) >= 3
        BY BaseInParts
      <4> HIDE DEF NoNumber
      <4> QED BY <4>1, <4>2
    <3> QED BY <2>2, <3>1 DEF FilingIsDeliberate
  <2>4. NumberNamesOneCase
    BY <2>2, OneNumberOneRequest DEF NumberNamesOneCase, NoBars
  <2> QED BY <2>1, <2>3, <2>4 DEF DefensorSound
<1> QED BY <1>1, <1>2, <1>3, PTL DEF DefensorSpec
-----------------------------------------------------------------------------
(* TaxPredict *)

(***************************************************************************)
(* Recalibration and prediction, for any number of gateways, matters and   *)
(* tasks.  A gateway fails because of what it holds, and what it holds has *)
(* no model; a task that has fitted knows no data newer than the file and  *)
(* began no later than now, and one that began after a trace was saved has *)
(* read data that is no older than that of the trace.                      *)
(***************************************************************************)
Tasks ==
  [at : {"idle", "asked", "fitted"}, matter : Matters \cup {"none"}, data : Nat,
   began : Nat, tries : Nat]

TaxType ==
  /\ training \in [Matters -> Nat] /\ saves \in Nat
  /\ trace \in [Matters -> [data : Nat, saved : Nat]]
  /\ job \in [Calibrators -> Tasks]
  /\ loaded \in [Gateways -> [Matters -> [data : Nat, model : {FALSE}]]]
  /\ answer \in [Gateways -> [Matters -> {"none", "prior", "503"}]]

\* A gateway that failed keeps what it failed with.
FailuresAreHeld ==
  \A g \in Gateways, m \in Matters : answer[g][m] = "503" => loaded[g][m] # NotLoaded

TracesAreOfData ==
  \A m \in Matters : trace[m].data <= training[m] /\ trace[m].saved <= saves

FitsAreOfData ==
  \A w \in Calibrators :
    /\ job[w].at # "idle" => job[w].matter \in Matters
    /\ job[w].at = "fitted" =>
         /\ job[w].data <= training[job[w].matter] /\ job[w].began <= saves
         /\ trace[job[w].matter].saved <= job[w].began =>
              trace[job[w].matter].data <= job[w].data

TaxInv == TaxType /\ FailuresAreHeld /\ TracesAreOfData /\ FitsAreOfData

(* The initial state satisfies the invariant.                              *)
LEMMA TaxStarts == TaxInit => TaxInv
<1> SUFFICES ASSUME TaxInit PROVE TaxInv
  OBVIOUS
<1>1. NoTrace \in [data : Nat, saved : Nat] /\ NotLoaded \in [data : Nat, model : {FALSE}]
  BY DEF NoTrace, NotLoaded
<1>2. Unasked \in Tasks
  BY DEF Unasked, Tasks
<1>3. TaxType
  BY <1>1, <1>2 DEF TaxInit, TaxType
<1>4. FailuresAreHeld
  BY DEF TaxInit, FailuresAreHeld
<1>5. TracesAreOfData
  BY DEF TaxInit, TracesAreOfData, NoTrace
<1>6. FitsAreOfData
  BY DEF TaxInit, FitsAreOfData, Unasked
<1> QED BY <1>3, <1>4, <1>5, <1>6 DEF TaxInv

\* The data of a matter only gets newer.
LEMMA DataArrives ==
  ASSUME NEW m \in Matters, TaxInv, NewData(m)
  PROVE  TaxInv'
<1> USE DEF TaxInv
<1>1. /\ training \in [Matters -> Nat]
      /\ training' = [training EXCEPT ![m] = @ + 1]
      /\ UNCHANGED <<trace, saves, job, loaded, answer>>
  BY DEF NewData, TaxType
<1>2. training' \in [Matters -> Nat] /\ \A n \in Matters : training[n] <= training'[n]
  BY <1>1
<1>3. TaxType'
  BY <1>1, <1>2 DEF TaxType
<1>4. FailuresAreHeld'
  BY <1>1 DEF FailuresAreHeld
<1>5. TracesAreOfData'
  <2> SUFFICES ASSUME NEW n \in Matters
               PROVE  trace[n].data <= training'[n] /\ trace[n].saved <= saves
    BY <1>1 DEF TracesAreOfData
  <2>1. trace[n].data \in Nat /\ training[n] \in Nat /\ training'[n] \in Nat
    BY <1>1, <1>2 DEF TaxType
  <2>2. trace[n].data <= training[n] /\ trace[n].saved <= saves
    BY DEF TracesAreOfData
  <2> QED BY <1>2, <2>1, <2>2
<1>6. FitsAreOfData'
  <2> SUFFICES ASSUME NEW w \in Calibrators
               PROVE  /\ job[w].at # "idle" => job[w].matter \in Matters
                      /\ job[w].at = "fitted" =>
                           /\ job[w].data <= training'[job[w].matter] /\ job[w].began <= saves
                           /\ trace[job[w].matter].saved <= job[w].began =>
                                trace[job[w].matter].data <= job[w].data
    BY <1>1 DEF FitsAreOfData
  <2>1. job[w].at # "idle" => job[w].matter \in Matters
    BY DEF FitsAreOfData
  <2>2. ASSUME job[w].at = "fitted" PROVE job[w].data <= training'[job[w].matter]
    <3>1. job[w].matter \in Matters /\ job[w].data <= training[job[w].matter]
      BY <2>2 DEF FitsAreOfData
    <3>2. job[w].data \in Nat
      BY DEF TaxType, Tasks
    <3> QED BY <1>1, <1>2, <3>1, <3>2
  <2> QED BY <2>1, <2>2 DEF FitsAreOfData
<1> QED BY <1>3, <1>4, <1>5, <1>6

(* A task that is sent again is a task for the same matter.                *)
LEMMA AskedAgain ==
  ASSUME NEW work \in Tasks
  PROVE  Again(work) \in Tasks /\ Again(work).at = "asked" /\ Again(work).matter = work.matter
<1> DEFINE tries == work.tries + 1
<1>1. tries \in Nat
  BY DEF Tasks
<1>2. Again(work) = [work EXCEPT !.at = "asked", !.tries = tries]
  BY DEF Again
<1> HIDE DEF tries
<1> QED BY <1>1, <1>2 DEF Tasks

\* The steps of a work other than the save leave the trace alone.
LEMMA TaskGoesOn ==
  ASSUME NEW w \in Calibrators, TaxInv,
         (\E m \in Matters : AskRecalibration(w, m)) \/ Fit(w) \/ Retry(w)
  PROVE  TaxInv'
<1> USE DEF TaxInv
<1>1. PICK mine : /\ job' = [job EXCEPT ![w] = mine] /\ mine \in Tasks
                  /\ mine.at # "idle" => mine.matter \in Matters
                  /\ mine.at = "fitted" => /\ mine.data = training[mine.matter]
                                           /\ mine.began = saves
  <2>1. job[w] \in Tasks /\ (job[w].at # "idle" => job[w].matter \in Matters)
    BY DEF TaxType, FitsAreOfData
  <2>2. CASE \E m \in Matters : AskRecalibration(w, m)
    <3>1. PICK m \in Matters : AskRecalibration(w, m)
      BY <2>2
    <3> DEFINE next == [Unasked EXCEPT !.at = "asked", !.matter = m]
    <3>2. next \in Tasks /\ next.at = "asked" /\ next.matter = m
      BY DEF Unasked, Tasks
    <3> QED BY <3>1, <3>2 DEF AskRecalibration
  <2>3. CASE Fit(w)
    <3> DEFINE next == [job[w] EXCEPT !.at = "fitted", !.began = saves,
                                      !.data = training[job[w].matter]]
    <3>1. job[w].matter \in Matters /\ saves \in Nat /\ training[job[w].matter] \in Nat
      BY <2>1, <2>3 DEF Fit, TaxType
    <3>2. next \in Tasks /\ next.at = "fitted" /\ next.matter = job[w].matter
          /\ next.began = saves /\ next.data = training[job[w].matter]
      BY <2>1, <3>1 DEF Tasks
    <3>3. job' = [job EXCEPT ![w] = next]
      BY <2>3 DEF Fit, TaxType
    <3> QED BY <3>1, <3>2, <3>3
  <2>4. CASE Retry(w)
    <3> DEFINE next == IF job[w].tries < MaxRetries THEN Again(job[w]) ELSE Unasked
    <3>1. Again(job[w]) \in Tasks /\ Again(job[w]).at = "asked"
          /\ Again(job[w]).matter = job[w].matter
      BY <2>1, AskedAgain
    <3>2. Unasked \in Tasks /\ Unasked.at = "idle"
      BY DEF Tasks, Unasked
    <3>3. next \in Tasks /\ next.at # "fitted" /\ (next.at # "idle" => next.matter \in Matters)
      BY <2>1, <2>4, <3>1, <3>2 DEF Retry
    <3>4. job' = [job EXCEPT ![w] = next]
      BY <2>4 DEF Retry
    <3> HIDE DEF next
    <3> QED BY <3>3, <3>4
  <2> QED BY <2>2, <2>3, <2>4
<1>2. UNCHANGED <<training, trace, saves, loaded, answer>>
  BY DEF AskRecalibration, Fit, Retry
<1>3. TaxType'
  BY <1>1, <1>2 DEF TaxType
<1>4. FailuresAreHeld' /\ TracesAreOfData'
  BY <1>2 DEF FailuresAreHeld, TracesAreOfData
<1>5. FitsAreOfData'
  <2>1. \A v \in Calibrators : job'[v] = IF v = w THEN mine ELSE job[v]
    BY <1>1 DEF TaxType
  <2>2. mine.at = "fitted" =>
          /\ mine.data <= training[mine.matter] /\ mine.began <= saves
          /\ trace[mine.matter].data <= mine.data
    BY <1>1 DEF TaxType, TracesAreOfData
  <2>3. ASSUME NEW v \in Calibrators
        PROVE  /\ job'[v].at # "idle" => job'[v].matter \in Matters
               /\ job'[v].at = "fitted" =>
                    /\ job'[v].data <= training[job'[v].matter] /\ job'[v].began <= saves
                    /\ trace[job'[v].matter].saved <= job'[v].began =>
                         trace[job'[v].matter].data <= job'[v].data
    <3>1. CASE v = w
      BY <1>1, <2>1, <2>2, <3>1
    <3>2. CASE v # w
      <4>1. job'[v] = job[v]
        BY <2>1, <3>2
      <4> QED BY <4>1 DEF FitsAreOfData
    <3> QED BY <3>1, <3>2
  <2> QED BY <1>2, <2>3 DEF FitsAreOfData
<1> QED BY <1>3, <1>4, <1>5

\* What a save leaves: the trace of one matter, of the data the task read,
\* newer than every other and than the start of every attempt.
LEMMA TraceSaved ==
  ASSUME NEW w \in Calibrators, TaxInv, Save(w)
  PROVE  TaxInv'
<1> USE DEF TaxInv
<1> DEFINE n == job[w].matter
           new == [data |-> job[w].data, saved |-> saves + 1]
<1>1. /\ job[w].at = "fitted" /\ n \in Matters
      /\ job[w].data \in Nat /\ job[w].data <= training[n] /\ saves \in Nat
  BY DEF Save, TaxType, Tasks, FitsAreOfData
<1>2. /\ saves' = saves + 1 /\ trace' = [trace EXCEPT ![n] = new]
      /\ job' = [job EXCEPT ![w] = Unasked]
      /\ UNCHANGED <<training, loaded, answer>>
  BY DEF Save
<1>3. new \in [data : Nat, saved : Nat] /\ new.data = job[w].data /\ new.saved = saves + 1
  BY <1>1
<1>4. Unasked \in Tasks /\ Unasked.at = "idle"
  BY DEF Unasked, Tasks
<1> HIDE DEF n, new
<1>5. TaxType'
  BY <1>1, <1>2, <1>3, <1>4 DEF TaxType
<1>6. FailuresAreHeld'
  BY <1>2 DEF FailuresAreHeld
<1>7. \A m \in Matters : trace'[m] = IF m = n THEN new ELSE trace[m]
  BY <1>1, <1>2 DEF TaxType
<1>8. TracesAreOfData'
  <2> SUFFICES ASSUME NEW m \in Matters
               PROVE  trace'[m].data <= training[m] /\ trace'[m].saved <= saves + 1
    BY <1>2 DEF TracesAreOfData
  <2>1. CASE m = n
    BY <1>1, <1>3, <1>7, <2>1
  <2>2. CASE m # n
    <3>1. trace'[m] = trace[m] /\ trace[m].saved \in Nat
      BY <1>7, <2>2 DEF TaxType
    <3> QED BY <1>1, <3>1 DEF TracesAreOfData
  <2> QED BY <2>1, <2>2
<1>9. FitsAreOfData'
  <2> SUFFICES ASSUME NEW v \in Calibrators
               PROVE  /\ job'[v].at # "idle" => job'[v].matter \in Matters
                      /\ job'[v].at = "fitted" =>
                           /\ job'[v].data <= training[job'[v].matter]
                           /\ job'[v].began <= saves + 1
                           /\ trace'[job'[v].matter].saved <= job'[v].began =>
                                trace'[job'[v].matter].data <= job'[v].data
    BY <1>2 DEF FitsAreOfData
  <2>1. CASE v = w
    BY <1>2, <1>4, <2>1 DEF TaxType
  <2>2. CASE v # w
    <3>1. job'[v] = job[v]
      BY <1>2, <2>2 DEF TaxType
    <3>2. job[v].at # "idle" => job[v].matter \in Matters
      BY DEF FitsAreOfData
    <3>3. ASSUME job[v].at = "fitted"
          PROVE  /\ job[v].data <= training[job[v].matter] /\ job[v].began <= saves + 1
                 /\ trace'[job[v].matter].saved <= job[v].began =>
                      trace'[job[v].matter].data <= job[v].data
      <4>1. /\ job[v].matter \in Matters /\ job[v].began \in Nat /\ job[v].began <= saves
            /\ job[v].data <= training[job[v].matter]
            /\ trace[job[v].matter].saved <= job[v].began =>
                 trace[job[v].matter].data <= job[v].data
        BY <3>3 DEF FitsAreOfData, TaxType, Tasks
      <4>2. CASE job[v].matter = n
        BY <1>1, <1>3, <1>7, <4>1, <4>2
      <4>3. CASE job[v].matter # n
        BY <1>1, <1>7, <4>1, <4>3
      <4> QED BY <4>2, <4>3
    <3> QED BY <3>1, <3>2, <3>3
  <2> QED BY <2>1, <2>2
<1> QED BY <1>5, <1>6, <1>8, <1>9

\* What a gateway may answer with, it has: the prior with nothing.
LEMMA ModelsAreTraces ==
  ASSUME NEW g \in Gateways, NEW m \in Matters, TaxInv, NEW model \in Models(g, m)
  PROVE  /\ model \in [data : Nat, model : {FALSE}]
         /\ AnswerOf(model) = IF model = NotLoaded THEN "prior" ELSE "503"
         /\ loaded[g][m] # NotLoaded => model = loaded[g][m]
<1> USE DEF TaxInv
<1>1. NotLoaded \in [data : Nat, model : {FALSE}]
  BY DEF NotLoaded
<1>2. LoadFromMinio(m) \in [data : Nat, model : {FALSE}]
  BY DEF LoadFromMinio, TaxType
<1>3. loaded[g][m] \in [data : Nat, model : {FALSE}]
  BY DEF TaxType
<1>4. model \in {loaded[g][m], NotLoaded, LoadFromMinio(m)}
  BY DEF Models
<1>5. model \in [data : Nat, model : {FALSE}]
  BY <1>1, <1>2, <1>3, <1>4
<1>6. ~ CanPredict(model)
  BY <1>5 DEF CanPredict
<1> QED BY <1>5, <1>6 DEF AnswerOf, Models

(* Predictions and restarts keep it.                                       *)
LEMMA GatewayAnswers ==
  ASSUME NEW g \in Gateways, TaxInv, StartGateway(g) \/ \E m \in Matters : Predict(g, m)
  PROVE  TaxInv'
<1> USE DEF TaxInv
<1>1. UNCHANGED <<training, trace, saves, job>>
  BY DEF StartGateway, Predict
<1>2. TracesAreOfData' /\ FitsAreOfData'
  BY <1>1 DEF TracesAreOfData, FitsAreOfData
<1>3. CASE StartGateway(g)
  <2>1. NotLoaded \in [data : Nat, model : {FALSE}]
    BY DEF NotLoaded
  <2>2. TaxType'
    BY <1>1, <1>3, <2>1 DEF TaxType, StartGateway
  <2>3. FailuresAreHeld'
    <3> SUFFICES ASSUME NEW h \in Gateways, NEW n \in Matters, answer'[h][n] = "503"
                 PROVE  loaded'[h][n] # NotLoaded
      BY DEF FailuresAreHeld
    <3>1. h # g
      BY <1>3 DEF TaxType, StartGateway
    <3>2. answer'[h] = answer[h] /\ loaded'[h] = loaded[h]
      BY <1>3, <3>1 DEF TaxType, StartGateway
    <3> QED BY <3>2 DEF FailuresAreHeld
  <2> QED BY <1>2, <2>2, <2>3
<1>4. CASE \E m \in Matters : Predict(g, m)
  <2>0. PICK m \in Matters : Predict(g, m)
    BY <1>4
  <2>1. PICK model \in Models(g, m) :
          /\ loaded' = [loaded EXCEPT ![g][m] = model]
          /\ answer' = [answer EXCEPT ![g][m] = AnswerOf(model)]
    BY <2>0 DEF Predict
  <2>2. /\ model \in [data : Nat, model : {FALSE}]
        /\ AnswerOf(model) = IF model = NotLoaded THEN "prior" ELSE "503"
    BY ModelsAreTraces
  <2>3. TaxType'
    BY <1>1, <2>1, <2>2 DEF TaxType
  <2>4. FailuresAreHeld'
    <3> SUFFICES ASSUME NEW h \in Gateways, NEW n \in Matters, answer'[h][n] = "503"
                 PROVE  loaded'[h][n] # NotLoaded
      BY DEF FailuresAreHeld
    <3>1. CASE h = g /\ n = m
      BY <2>1, <2>2, <3>1 DEF TaxType
    <3>2. CASE ~ (h = g /\ n = m)
      <4>1. answer'[h][n] = answer[h][n] /\ loaded'[h][n] = loaded[h][n]
        BY <2>1, <3>2 DEF TaxType
      <4> QED BY <4>1 DEF FailuresAreHeld
    <3> QED BY <3>1, <3>2
  <2> QED BY <1>2, <2>3, <2>4
<1> QED BY <1>3, <1>4

(* Every step does.                                                        *)
LEMMA TaxPreserved == TaxInv /\ [TaxNext]_taxVars => TaxInv'
<1> SUFFICES ASSUME TaxInv, [TaxNext]_taxVars PROVE TaxInv'
  OBVIOUS
<1>1. CASE UNCHANGED taxVars
  BY <1>1 DEF taxVars, TaxInv, TaxType, FailuresAreHeld, TracesAreOfData, FitsAreOfData
<1>2. CASE \E m \in Matters : NewData(m)
  BY <1>2, DataArrives
<1>3. CASE \E w \in Calibrators : Save(w)
  BY <1>3, TraceSaved
<1>4. CASE \E w \in Calibrators : Fit(w) \/ Retry(w) \/ \E m \in Matters : AskRecalibration(w, m)
  BY <1>4, TaskGoesOn
<1>5. CASE \E g \in Gateways : StartGateway(g) \/ \E m \in Matters : Predict(g, m)
  BY <1>5, GatewayAnswers
<1> QED BY <1>1, <1>2, <1>3, <1>4, <1>5 DEF TaxNext

\* A gateway that failed fails again, or has been restarted.
LEMMA FailureSticks == TaxInv /\ TaxNext => FailureIsSticky
<1> SUFFICES ASSUME TaxInv, TaxNext,
                    NEW g \in Gateways, NEW m \in Matters, answer[g][m] = "503"
             PROVE  answer'[g][m] \in {"503", "none"}
  BY DEF FailureIsSticky
<1>1. loaded[g][m] # NotLoaded
  BY DEF TaxInv, FailuresAreHeld
<1>2. CASE \E h \in Gateways, n \in Matters : Predict(h, n)
  <2>1. PICK h \in Gateways, n \in Matters : Predict(h, n)
    BY <1>2
  <2>2. PICK model \in Models(h, n) : answer' = [answer EXCEPT ![h][n] = AnswerOf(model)]
    BY <2>1 DEF Predict
  <2>3. AnswerOf(model) = (IF model = NotLoaded THEN "prior" ELSE "503")
        /\ (loaded[h][n] # NotLoaded => model = loaded[h][n])
    BY ModelsAreTraces, ZenonT(60)
  <2> QED BY <1>1, <2>2, <2>3 DEF TaxInv, TaxType
<1>3. CASE \E h \in Gateways : StartGateway(h)
  BY <1>3 DEF StartGateway, TaxInv, TaxType
<1>4. CASE UNCHANGED answer
  BY <1>4
<1> QED
  BY <1>2, <1>3, <1>4 DEF TaxNext, NewData, AskRecalibration, Fit, Save, Retry

\* An older model replaces a newer one only through an attempt that began
\* before the newer was saved.
LEMMA OnlyOverlaps == TaxInv /\ TaxNext => OnlyOverlapGoesBack
<1> SUFFICES ASSUME TaxInv, TaxNext, NEW w \in Calibrators, NEW m \in Matters,
                    job[w].matter = m, job'[w] = Unasked, trace'[m].data < trace[m].data
             PROVE  job[w].began < trace[m].saved
  BY DEF OnlyOverlapGoesBack
<1>1. trace[m].data \in Nat /\ trace[m].saved \in Nat /\ job[w].began \in Nat
  BY DEF TaxInv, TaxType, Tasks
<1>2. trace' # trace
  BY <1>1
<1>3. PICK v \in Calibrators : Save(v)
  BY <1>2 DEF TaxNext, NewData, AskRecalibration, Fit, Retry, StartGateway, Predict
<1>4. /\ job[v].at = "fitted" /\ job[v].matter \in Matters
      /\ job[v].began \in Nat /\ job[v].data \in Nat
      /\ trace[job[v].matter].saved <= job[v].began =>
           trace[job[v].matter].data <= job[v].data
  BY <1>3 DEF Save, TaxInv, TaxType, Tasks, FitsAreOfData
<1> DEFINE new == [data |-> job[v].data, saved |-> saves + 1]
<1>5. trace' = [trace EXCEPT ![job[v].matter] = new] /\ job' = [job EXCEPT ![v] = Unasked]
  BY <1>3 DEF Save
<1>6. new.data = job[v].data
  OBVIOUS
<1> HIDE DEF new
<1>7. m = job[v].matter /\ trace'[m].data = job[v].data
  BY <1>1, <1>4, <1>5, <1>6 DEF TaxInv, TaxType
<1>8. job[v].began < trace[m].saved
  BY <1>1, <1>4, <1>7
<1>9. CASE w # v
  <2>1. job[w] = Unasked
    BY <1>5, <1>9 DEF TaxInv, TaxType
  <2> QED BY <1>1, <1>4, <1>8, <2>1 DEF Unasked
<1> QED BY <1>8, <1>9

(* A gateway that has loaded a trace, which comes without its model, fails *)
(* every prediction until it is restarted, and the stored trace goes back  *)
(* to older data only by an overlap of recalibrations, for any number of   *)
(* gateways, matters and tasks and any limit of retries (taxpredict.py     *)
(* 41-67, tasks.py 29-67).                                                 *)
THEOREM PredictionsFollowTheirCause == TaxSpec => ModelsFollowTheirCause
<1>1. TaxInv /\ [TaxNext]_taxVars => [FailureIsSticky /\ OnlyOverlapGoesBack]_taxVars
  BY FailureSticks, OnlyOverlaps
<1> QED BY <1>1, TaxStarts, TaxPreserved, PTL DEF TaxSpec, ModelsFollowTheirCause
-----------------------------------------------------------------------------
(* ScoreEngine *)

(***************************************************************************)
(* The engines of the score, for any values the sources may hold.  Every   *)
(* feature is a number of at least 0, whatever the caches hold: so the raw *)
(* score is an integer, the clipped one on the scale, and a source that is *)
(* taken away lowers it.                                                   *)
(***************************************************************************)
Readings == Nat \cup {NoAnswer, Broken}

\* Only the Receita has a CNAE that cannot be asked for.
EngineInv ==
  /\ sources \in [Sources -> Readings \cup {LetterCnae, NumberCnae}] /\ native \in Crates
  /\ Scorable(sources) => sources \in [Sources -> Readings]
  /\ \A s \in Sources \ {"RECEITA"} : sources[s] \in Readings
  /\ backend \in {"auto", "python", "rust"}

(* Every step keeps the type of the answers.                               *)
LEMMA EnginePreserved == EngineInv /\ [EngineNext]_engineVars => EngineInv'
<1> SUFFICES ASSUME EngineInv, [EngineNext]_engineVars PROVE EngineInv'
  OBVIOUS
<1>1. CASE UNCHANGED engineVars
  BY <1>1 DEF engineVars, EngineInv
<1>2. CASE Score
  BY <1>2 DEF Score, EngineInv
<1>3. CASE Build
  BY <1>3 DEF Build, EngineInv
<1>4. CASE \E s \in Sources : Refresh(s)
  <2>1. PICK s \in Sources : Refresh(s)
    BY <1>4
  <2>2. PICK x \in Kept(s) : sources' = [sources EXCEPT ![s] = x]
    BY <2>1 DEF Refresh
  <2>3. Held(s) \subseteq Nat
    BY EngineAssumption DEF Held, Sources
  <2>4. /\ x \in Readings \cup {LetterCnae, NumberCnae}
        /\ x \notin {LetterCnae, NumberCnae} => x \in Readings
        /\ s # "RECEITA" => x \in Readings
    BY <2>2, <2>3 DEF Readings, Kept
  <2>5. /\ sources' \in [Sources -> Readings \cup {LetterCnae, NumberCnae}]
        /\ \A r \in Sources \ {"RECEITA"} : sources'[r] \in Readings
    BY <2>2, <2>4 DEF EngineInv
  <2>6. Scorable(sources') => sources' \in [Sources -> Readings]
    <3> SUFFICES ASSUME Scorable(sources'), NEW r \in Sources PROVE sources'[r] \in Readings
      BY <2>5
    <3>1. CASE r = "RECEITA"
      <4>1. sources'[r] \notin {LetterCnae, NumberCnae}
        BY <3>1 DEF Scorable
      <4> QED BY <4>1, <2>5
    <3> QED BY <3>1, <2>5
  <2> QED BY <2>1, <2>5, <2>6 DEF EngineInv, Refresh, Scorable
<1> QED BY <1>1, <1>2, <1>3, <1>4 DEF EngineNext

(* A feature is a number, whatever its source holds.                       *)
LEMMA FeatureIsNat ==
  ASSUME NEW held \in [Sources -> Readings], NEW s \in Sources
  PROVE  Feature(held, s) \in Nat
<1>1. held[s] \in Readings
  OBVIOUS
<1> QED BY <1>1 DEF Feature, IsMissing, Readings

(* So is the score before it is cut to its scale, which is 300 at least.   *)
LEMMA RawIsNat ==
  ASSUME NEW held \in [Sources -> Readings]
  PROVE  Raw(held) \in Nat /\ Raw(held) >= 300
<1> DEFINE a == Feature(held, "PGFN")
           b == Feature(held, "RECEITA")
           c == Feature(held, "DATAJUD")
<1>1. a \in Nat /\ b \in Nat /\ c \in Nat
  BY FeatureIsNat DEF Sources
<1>2. Raw(held) = 300 + a + b + c
  BY DEF Raw
<1> HIDE DEF a, b, c
<1> QED BY <1>1, <1>2

(* A score and the ends of its interval are on the scale, in order.        *)
LEMMA OnScale ==
  ASSUME NEW x \in Int
  PROVE  /\ Clip(x) \in 0..1000
         /\ Clip(Clip(x) - Sigma) \in 0..1000 /\ Clip(Clip(x) + Sigma) \in 0..1000
         /\ Clip(Clip(x) - Sigma) <= Clip(x) /\ Clip(x) <= Clip(Clip(x) + Sigma)
  BY DEF Clip, Sigma

\* What the engine in Python answers.
LEMMA PythonAnswers ==
  ASSUME NEW held \in [Sources -> Readings]
  PROVE  /\ PythonScore(held).status = 200
         /\ PythonScore(held).score = Clip(Raw(held))
         /\ PythonScore(held).level = Level(Clip(Raw(held)))
         /\ PythonScore(held).lo \in 0..1000 /\ PythonScore(held).hi \in 0..1000
         /\ PythonScore(held).lo <= PythonScore(held).score
         /\ PythonScore(held).score <= PythonScore(held).hi
<1> DEFINE x == Raw(held)
           score == Clip(x)
           lo == Clip(Clip(x) - Sigma)
           hi == Clip(Clip(x) + Sigma)
<1>1. x \in Int
  BY RawIsNat
<1>2. PythonScore(held) = Result(held, score, lo, hi, "python")
  BY DEF PythonScore, Interval
<1> HIDE DEF x
<1>3. score \in 0..1000 /\ lo \in 0..1000 /\ hi \in 0..1000 /\ lo <= score /\ score <= hi
  BY <1>1, OnScale
<1> HIDE DEF score, lo, hi
<1>4. ~ Refused(score, lo, hi)
  BY <1>3 DEF Refused
<1>5. PythonScore(held) =
        [status |-> 200, score |-> score, lo |-> lo, hi |-> hi, level |-> Level(score),
         engine |-> "python", missing |-> {s \in Sources : IsMissing(held, s)}]
  BY <1>2, <1>4 DEF Result
<1>6. score = Clip(Raw(held))
  BY DEF score, x
<1> QED BY <1>3, <1>5, <1>6

\* A lower score is no lower a risk.
LEMMA LowerIsRiskier ==
  ASSUME NEW x \in Int, NEW y \in Int, x <= y
  PROVE  RiskOf(Level(Clip(x))) >= RiskOf(Level(Clip(y)))
<1>1. Clip(x) \in Int /\ Clip(y) \in Int /\ Clip(x) <= Clip(y)
  BY DEF Clip
<1>2. ASSUME NEW z \in Int
      PROVE  RiskOf(Level(z)) = IF z >= 800 THEN 0 ELSE IF z >= 600 THEN 1
                                ELSE IF z >= 400 THEN 2 ELSE 3
  <2>1. Level(z) = IF z >= 800 THEN "BAIXO" ELSE IF z >= 600 THEN "MODERADO"
                   ELSE IF z >= 400 THEN "ALTO" ELSE "CRITICO"
    BY DEF Level
  <2> QED BY <2>1 DEF RiskOf
<1> QED BY <1>1, <1>2

\* Without the answer of one source the raw score is no higher.
LEMMA MissingLowers ==
  ASSUME NEW held \in [Sources -> Readings], NEW s \in Sources
  PROVE  /\ [held EXCEPT ![s] = NoAnswer] \in [Sources -> Readings]
         /\ Raw([held EXCEPT ![s] = NoAnswer]) <= Raw(held)
<1> DEFINE less == [held EXCEPT ![s] = NoAnswer]
<1>1. less \in [Sources -> Readings] /\ less[s] = NoAnswer
      /\ \A r \in Sources \ {s} : less[r] = held[r]
  BY DEF Readings
<1> HIDE DEF less
<1>2. ASSUME NEW r \in Sources
      PROVE  /\ Feature(less, r) \in Nat /\ Feature(held, r) \in Nat
             /\ Feature(less, r) <= Feature(held, r)
  <2>1. Feature(less, r) \in Nat /\ Feature(held, r) \in Nat
    BY <1>1, FeatureIsNat
  <2>2. CASE r = s
    <3>1. Feature(less, r) = 0
      BY <1>1, <2>2 DEF Feature, IsMissing
    <3> QED BY <2>1, <3>1
  <2>3. CASE r # s
    <3>1. Feature(less, r) = Feature(held, r)
      BY <1>1, <2>3 DEF Feature, IsMissing
    <3> QED BY <2>1, <3>1
  <2> QED BY <2>1, <2>2, <2>3
<1> DEFINE a(h) == Feature(h, "PGFN")
           b(h) == Feature(h, "RECEITA")
           c(h) == Feature(h, "DATAJUD")
<1>3. /\ a(less) \in Nat /\ a(held) \in Nat /\ a(less) <= a(held)
      /\ b(less) \in Nat /\ b(held) \in Nat /\ b(less) <= b(held)
      /\ c(less) \in Nat /\ c(held) \in Nat /\ c(less) <= c(held)
  BY <1>2 DEF Sources
<1>4. Raw(less) = 300 + a(less) + b(less) + c(less)
      /\ Raw(held) = 300 + a(held) + b(held) + c(held)
  BY DEF Raw
<1> HIDE DEF a, b, c
<1>5. Raw(less) <= Raw(held)
  BY <1>3, <1>4
<1> QED BY <1>1, <1>5 DEF less

(* The engine in Python answers whatever is asked of it, with a score      *)
(* inside its interval, and a source that is missing never flatters, for   *)
(* every value the sources may hold (features.py 56-93, engines.py 54-87). *)
THEOREM FallbackIsSound == EngineSpec => []EngineSound
<1>1. EngineInit => EngineInv
  <2>1. NoAnswer \in Readings /\ NoCrate \in Crates
    BY DEF Readings, NoCrate, Crates
  <2> QED BY <2>1 DEF EngineInit, EngineInv, Scorable
<1>2. EngineInv => EngineSound
  <2> SUFFICES ASSUME EngineInv PROVE EngineSound
    OBVIOUS
  <2>1. Scorable(sources) => sources \in [Sources -> Readings]
    BY DEF EngineInv
  <2>2. PythonAlwaysAnswers
    <3> SUFFICES ASSUME Scorable(sources) PROVE PythonAlwaysAnswers
      BY DEF PythonAlwaysAnswers
    <3> DEFINE r == PythonScore(sources)
    <3>1. r.status = 200 /\ r.lo \in 0..1000 /\ r.hi \in 0..1000
          /\ r.lo <= r.score /\ r.score <= r.hi
      BY <2>1, PythonAnswers
    <3>2. r.status = 200 /\ 0 <= r.lo /\ r.lo <= r.score /\ r.score <= r.hi /\ r.hi <= 1000
      <4> DEFINE lo == r.lo
                 hi == r.hi
      <4> HIDE DEF r
      <4>1. lo \in 0..1000 /\ hi \in 0..1000
        BY <3>1
      <4> HIDE DEF lo, hi
      <4>2. 0 <= lo /\ hi <= 1000
        BY <4>1
      <4>3. 0 <= r.lo /\ r.hi <= 1000
        BY <4>2 DEF lo, hi
      <4> QED BY <3>1, <4>3
    <3> QED BY <3>2 DEF PythonAlwaysAnswers
  <2>3. MissingNeverFlatters
    <3> SUFFICES ASSUME Scorable(sources), NEW s \in Sources
                 PROVE  RiskOf(PythonScore([sources EXCEPT ![s] = NoAnswer]).level)
                          >= RiskOf(PythonScore(sources).level)
      BY DEF MissingNeverFlatters
    <3> DEFINE less == [sources EXCEPT ![s] = NoAnswer]
    <3>1. less \in [Sources -> Readings] /\ Raw(less) <= Raw(sources)
      BY <2>1, MissingLowers
    <3> HIDE DEF less
    <3>2. Raw(less) \in Int /\ Raw(sources) \in Int
      BY <2>1, <3>1, RawIsNat
    <3>3. PythonScore(less).level = Level(Clip(Raw(less)))
          /\ PythonScore(sources).level = Level(Clip(Raw(sources)))
      BY <2>1, <3>1, PythonAnswers
    <3>4. RiskOf(PythonScore(less).level) >= RiskOf(PythonScore(sources).level)
      BY <3>1, <3>2, <3>3, LowerIsRiskier
    <3> QED BY <3>4 DEF less
  <2> QED BY <2>2, <2>3 DEF EngineSound
<1> QED BY <1>1, <1>2, EnginePreserved, PTL DEF EngineSpec

\* What a client may be told by each engine.
LEMMA FailuresOfEngines ==
  ASSUME EngineInv, NEW r \in EngineAnswers(sources)
  PROVE  /\ r.status = 500 => \/ native.probe /\ native.call \in {"keyless", "wild"}
                             \/ sources["RECEITA"] = LetterCnae
         /\ r.status = 503 => backend = "rust" /\ ~ native.probe
<1>0. CASE ~ Scorable(sources)
  BY <1>0 DEF EngineAnswers, StubScore, Scorable, LetterCnae, NumberCnae
<1> SUFFICES ASSUME Scorable(sources)
             PROVE  /\ r.status = 500 => native.probe /\ native.call \in {"keyless", "wild"}
                    /\ r.status = 503 => backend = "rust" /\ ~ native.probe
  BY <1>0
<1>1. sources \in [Sources -> Readings] /\ native \in Crates
      /\ backend \in {"auto", "python", "rust"}
  BY DEF EngineInv
<1>2. PythonScore(sources).status = 200
  BY <1>1, PythonAnswers
<1>3. CASE r = PythonScore(sources)
  BY <1>2, <1>3
<1>4. CASE r = [status |-> 503] /\ backend = "rust" /\ ~ native.probe
  BY <1>4
<1>5. CASE native.probe /\ r \in WithFallback(sources)
  <2>1. PICK x \in RustScores(sources) :
          r = IF x.status = 503 THEN PythonScore(sources) ELSE x
    BY <1>5 DEF WithFallback
  <2>2. r.status # 503
    BY <1>2, <2>1
  <2>3. CASE native.call \in {"keyless", "wild"}
    BY <1>5, <2>2, <2>3
  <2>4. CASE native.call = "raises"
    <3>1. x = [status |-> 503]
      BY <2>1, <2>4 DEF RustScores
    <3> QED BY <1>2, <2>1, <3>1
  <2>5. CASE native.call = "good"
    <3> DEFINE score == Clip(Raw(sources))
    <3>1. x = Result(sources, score, score, score, "rust")
      BY <2>1, <2>5 DEF RustScores
    <3>2. score \in 0..1000
      <4> DEFINE x0 == Raw(sources)
      <4>1. x0 \in Int
        BY <1>1, RawIsNat
      <4> HIDE DEF x0
      <4>2. Clip(x0) \in 0..1000
        BY <4>1 DEF Clip
      <4> QED BY <4>2 DEF x0
    <3> HIDE DEF score
    <3>3. x.status = 200
      BY <3>1, <3>2 DEF Result, Refused
    <3> QED BY <2>1, <3>3
  <2>6. native.call \in {"good", "raises", "keyless", "wild"}
    BY <1>1 DEF Crates
  <2> QED BY <2>3, <2>4, <2>5, <2>6
<1>6. r = PythonScore(sources)
      \/ (r = [status |-> 503] /\ backend = "rust" /\ ~ native.probe)
      \/ (native.probe /\ r \in WithFallback(sources))
  <2>1. CASE backend = "python"
    BY <2>1 DEF EngineAnswers, Scorable
  <2>2. CASE backend # "python" /\ ~ native.probe
    BY <1>1, <2>2 DEF EngineAnswers, Scorable
  <2>3. CASE backend # "python" /\ native.probe
    BY <1>1, <2>3 DEF EngineAnswers, Scorable
  <2> QED BY <2>1, <2>2, <2>3, <1>1 DEF Crates
<1> QED BY <1>3, <1>4, <1>5, <1>6

(* A client sees the score fail only when the crate answered the probe and *)
(* then gave no result, is asked for by name and does not answer the       *)
(* probe, or the CNAE is not written in digits, whatever the sources may   *)
(* hold (factory.py 41-64, engines.py 119-135, legalscore.py 201-215).     *)
THEOREM CrateIsHidden == EngineSpec => CrateFailureIsHidden
<1> DEFINE Hidden ==
      scored' # scored =>
        /\ scored'.status = 500 => \/ native.probe /\ native.call \in {"keyless", "wild"}
                                   \/ sources["RECEITA"] = LetterCnae
        /\ scored'.status = 503 => backend = "rust" /\ ~ native.probe
<1>1. EngineInit => EngineInv
  <2>1. NoAnswer \in Readings /\ NoCrate \in Crates
    BY DEF Readings, NoCrate, Crates
  <2> QED BY <2>1 DEF EngineInit, EngineInv, Scorable
<1>2. EngineInv /\ [EngineNext]_engineVars => [Hidden]_engineVars
  <2> SUFFICES ASSUME EngineInv, EngineNext, scored' # scored
               PROVE  /\ scored'.status = 500 => \/ native.probe /\ native.call \in {"keyless", "wild"}
                                                 \/ sources["RECEITA"] = LetterCnae
                      /\ scored'.status = 503 => backend = "rust" /\ ~ native.probe
    OBVIOUS
  <2>1. Score
    BY DEF EngineNext, Build, Refresh
  <2>2. scored' \in EngineAnswers(sources)
    BY <2>1 DEF Score
  <2> QED BY <2>2, FailuresOfEngines
<1> QED BY <1>1, <1>2, EnginePreserved, PTL DEF EngineSpec, CrateFailureIsHidden
-----------------------------------------------------------------------------
(* Sums over finite sets                                                   *)

(***************************************************************************)
(* MapThenSumSet is a recursive function over the subsets of a set.  A     *)
(* recursive function is a CHOOSE: that one exists is proved once, for the *)
(* sum of any function, by induction over the size of the subsets, and     *)
(* each sum below is then shown to be one of these.                        *)
(***************************************************************************)
\* f[x] for the first x CHOOSE finds in s, and the rest.
Added(f, g, s) ==
  IF s = {} THEN 0 ELSE f[CHOOSE x \in s : TRUE] + g[s \ {CHOOSE x \in s : TRUE}]

\* g holds the sum of f over every subset of S.
IsSum(S, f, g) == g = [s \in SUBSET S |-> Added(f, g, s)]

(* A finite set without one of its members has one member less.            *)
LEMMA Smaller ==
  ASSUME NEW s, IsFiniteSet(s), s # {}, NEW x \in s
  PROVE  IsFiniteSet(s \ {x}) /\ Cardinality(s) \in Nat /\ Cardinality(s \ {x}) = Cardinality(s) - 1
BY FS_RemoveElement, FS_CardinalityType

(* A sum over a finite set exists: over the sets of up to n members by     *)
(* induction on n.                                                         *)
LEMMA SumExists ==
  ASSUME NEW S, IsFiniteSet(S), NEW f
  PROVE  \E g : IsSum(S, f, g)
<1> DEFINE UpToSize(n) == {s \in SUBSET S : Cardinality(s) <= n}
           Sums(n, g) == g = [s \in UpToSize(n) |-> Added(f, g, s)]
           T == {n \in Nat : \E g : Sums(n, g)}
<1>0. \A s \in SUBSET S : IsFiniteSet(s) /\ Cardinality(s) \in Nat
  BY FS_Subset, FS_CardinalityType
<1>1. 0 \in T
  <2>1. \A s \in UpToSize(0) : s = {}
    BY <1>0, FS_EmptySet
  <2> DEFINE g == [s \in UpToSize(0) |-> 0]
  <2>2. \A s \in UpToSize(0) : Added(f, g, s) = 0
    BY <2>1 DEF Added
  <2>3. g = [s \in UpToSize(0) |-> Added(f, g, s)]
    BY <2>2
  <2> HIDE DEF g, UpToSize
  <2> QED BY <2>3
<1>2. ASSUME NEW n \in T PROVE n + 1 \in T
  <2>1. PICK g : Sums(n, g)
    OBVIOUS
  <2> DEFINE h == [s \in UpToSize(n + 1) |-> Added(f, g, s)]
  <2>2. ASSUME NEW s \in UpToSize(n + 1) PROVE Added(f, g, s) = Added(f, h, s)
    <3>1. CASE s = {}
      BY <3>1 DEF Added
    <3>2. CASE s # {}
      <4> DEFINE x == CHOOSE x \in s : TRUE
      <4>1. x \in s
        BY <3>2
      <4> HIDE DEF x
      <4>2. s \ {x} \in UpToSize(n)
        BY <1>0, <3>2, <4>1, Smaller
      <4>3. s \ {x} \in UpToSize(n + 1)
        BY <1>0, <4>2
      <4> HIDE DEF UpToSize
      <4>4. g[s \ {x}] = h[s \ {x}]
        BY <2>1, <4>2, <4>3
      <4> QED BY <3>2, <4>4 DEF Added, x
    <3> QED BY <3>1, <3>2
  <2> HIDE DEF UpToSize
  <2>3. h = [s \in UpToSize(n + 1) |-> Added(f, h, s)]
    BY <2>2
  <2> HIDE DEF h
  <2>4. Sums(n + 1, h) /\ n + 1 \in Nat
    BY <2>3
  <2> QED BY <2>4
<1> HIDE DEF T
<1>3. T = Nat
  BY <1>1, <1>2, NatSetInduction DEF T
<1>4. PICK g : Sums(Cardinality(S), g)
  BY <1>0, <1>3 DEF T
<1>5. UpToSize(Cardinality(S)) = SUBSET S
  BY <1>0, FS_Subset
<1> QED BY <1>4, <1>5 DEF IsSum

(* Induction over the subsets of a finite set: of a subset, what holds     *)
(* without any one of its elements.                                        *)
LEMMA SubsetInduction ==
  ASSUME NEW S, IsFiniteSet(S), NEW P \in SUBSET (SUBSET S), {} \in P,
         \A s \in SUBSET S : s # {} /\ (\A x \in s : s \ {x} \in P) => s \in P
  PROVE  P = SUBSET S
<1> DEFINE T == {n \in Nat : \A s \in SUBSET S : Cardinality(s) <= n => s \in P}
<1>0. \A s \in SUBSET S : IsFiniteSet(s) /\ Cardinality(s) \in Nat
  BY FS_Subset, FS_CardinalityType
<1>1. 0 \in T
  <2>1. ASSUME NEW s \in SUBSET S, Cardinality(s) <= 0 PROVE s = {}
    BY <1>0, <2>1, FS_EmptySet
  <2> QED BY <2>1
<1>2. ASSUME NEW n \in T PROVE n + 1 \in T
  <2>1. ASSUME NEW s \in SUBSET S, Cardinality(s) <= n + 1 PROVE s \in P
    <3>1. ASSUME NEW x \in s PROVE s \ {x} \in P
      <4>1. Cardinality(s \ {x}) <= n /\ s \ {x} \in SUBSET S
        BY <1>0, <2>1, <3>1, Smaller
      <4> QED BY <4>1
    <3>2. CASE s = {}
      BY <3>2
    <3>3. CASE s # {}
      BY <3>1, <3>3
    <3> QED BY <3>2, <3>3
  <2> QED BY <2>1
<1> HIDE DEF T
<1>3. T = Nat
  BY <1>1, <1>2, NatSetInduction DEF T
<1>4. ASSUME NEW s \in SUBSET S PROVE s \in P
  <2>1. Cardinality(s) \in T
    BY <1>0, <1>3
  <2> QED BY <2>1, <1>0 DEF T
<1> QED BY <1>4

(* It adds up one member after the other.                                  *)
LEMMA SumStep ==
  ASSUME NEW S, NEW f, NEW g, IsSum(S, f, g)
  PROVE  /\ g[{}] = 0
         /\ \A s \in SUBSET S : s # {} => \E x \in s : g[s] = f[x] + g[s \ {x}]
<1>1. \A s \in SUBSET S : g[s] = Added(f, g, s)
  BY DEF IsSum
<1>2. g[{}] = 0
  BY <1>1 DEF Added
<1>3. ASSUME NEW s \in SUBSET S, s # {} PROVE \E x \in s : g[s] = f[x] + g[s \ {x}]
  <2> DEFINE x == CHOOSE x \in s : TRUE
  <2>1. x \in s
    BY <1>3
  <2>2. g[s] = f[x] + g[s \ {x}]
    BY <1>1, <1>3 DEF Added
  <2> HIDE DEF x
  <2> QED BY <2>1, <2>2
<1> QED BY <1>2, <1>3

(* A sum of numbers is at least that of any two of them.                   *)
LEMMA SumAtLeast ==
  ASSUME NEW S, IsFiniteSet(S), NEW f, NEW g, IsSum(S, f, g), \A x \in S : f[x] \in Nat
  PROVE  /\ g[S] \in Nat
         /\ \A x, y \in S : x # y => f[x] + f[y] <= g[S]
<1> DEFINE P == {s \in SUBSET S : /\ g[s] \in Nat
                                  /\ \A x \in s : f[x] <= g[s]
                                  /\ \A x, y \in s : x # y => f[x] + f[y] <= g[s]}
<1>1. {} \in P
  BY SumStep
<1>2. ASSUME NEW s \in SUBSET S, s # {}, \A x \in s : s \ {x} \in P PROVE s \in P
  <2>1. PICK z \in s : g[s] = f[z] + g[s \ {z}]
    BY <1>2, SumStep
  <2>2. /\ g[s \ {z}] \in Nat /\ f[z] \in Nat
        /\ \A x \in s : x # z => f[x] <= g[s \ {z}]
        /\ \A x, y \in s : x # z /\ y # z /\ x # y => f[x] + f[y] <= g[s \ {z}]
    BY <1>2, <2>1
  <2>3. \A x \in s : f[x] \in Nat
    OBVIOUS
  <2> QED BY <2>1, <2>2, <2>3
<1>3. P \in SUBSET (SUBSET S)
  OBVIOUS
<1> HIDE DEF P
<1>4. P = SUBSET S
  BY <1>1, <1>2, <1>3, SubsetInduction
<1> QED BY <1>4 DEF P
-----------------------------------------------------------------------------
(* CaseGraph *)

(***************************************************************************)
(* The graph of companies and lawsuits, for any number of workers and any  *)
(* batches.  Two batches make a node of one name only when neither sees    *)
(* the other's, and so only when they are open at a time: that is what the *)
(* invariant says of the nodes committed, of those pending beside the      *)
(* committed ones, and of the batches open.  The edges are those of the    *)
(* rows delivered, between any nodes of the two names.                     *)
(***************************************************************************)
KnownRows(batch) == \A r \in batch : r.id \in Lawsuits /\ r.cnpj \in Companies \cup {NoCnpj}
GraphNodes == (Lawsuits \cup Companies) \X (1..MaxBatches)

Begun(b) ==
  /\ b = [rows |-> b.rows, batch |-> b.batch, nodes |-> b.nodes]
  /\ KnownRows(b.rows) /\ b.nodes \subseteq GraphNodes
  /\ b.batch \in 1..delivered.begun

GraphType ==
  /\ nodes \subseteq GraphNodes /\ edges \subseteq nodes \X nodes
  /\ delivered = [rows |-> delivered.rows, begun |-> delivered.begun, beside |-> delivered.beside]
  /\ delivered.begun \in 0..MaxBatches /\ KnownRows(delivered.rows)
  /\ upsert = [w \in GraphWorkers |-> upsert[w]]
  /\ \A w \in GraphWorkers : upsert[w] = NoBatch \/ Begun(upsert[w])

EdgesAreDelivered ==
  /\ \A e \in edges : \E r \in delivered.rows : r.cnpj = e[1][1] /\ r.id = e[2][1]
  /\ \A r \in delivered.rows :
       r.cnpj # NoCnpj => \E e \in edges : e[1][1] = r.cnpj /\ e[2][1] = r.id

PendingIsMerged(w) ==
  /\ \A n \in upsert[w].nodes : n[1] \in Names(upsert[w].rows) /\ (n \in nodes \/ n[2] = upsert[w].batch)
  /\ \A name \in Names(upsert[w].rows) : \E n \in upsert[w].nodes : n[1] = name

Beside(i, j) == i < j => <<i, j>> \in delivered.beside
TwinsBeside(m, n) == m[1] = n[1] => Beside(m[2], n[2])

NodesApart == \A m, n \in nodes : TwinsBeside(m, n)
PendingApart(w) ==
  \A n \in upsert[w].nodes \ nodes, m \in nodes : TwinsBeside(m, n) /\ TwinsBeside(n, m)
OpenApart ==
  \A v, w \in GraphWorkers :
    v # w /\ upsert[v] # NoBatch /\ upsert[w] # NoBatch => Beside(upsert[v].batch, upsert[w].batch)

GraphInv ==
  /\ GraphType /\ EdgesAreDelivered /\ NodesApart /\ OpenApart
  /\ \A w \in GraphWorkers : PendingIsMerged(w) /\ PendingApart(w)

(* The empty graph satisfies the invariant.                                *)
LEMMA GraphStarts == GraphInit => GraphInv
<1> SUFFICES ASSUME GraphInit PROVE GraphInv
  OBVIOUS
<1>1. nodes = {} /\ edges = {} /\ delivered.rows = {} /\ delivered.begun = 0
  BY DEF GraphInit
<1>2. \A w \in GraphWorkers : upsert[w] = NoBatch /\ upsert[w].rows = {} /\ upsert[w].nodes = {}
  BY DEF GraphInit, NoBatch
<1>3. GraphType
  BY <1>1, <1>2, GraphAssumption DEF GraphInit, GraphType, KnownRows
<1>4. ASSUME NEW w \in GraphWorkers PROVE PendingIsMerged(w) /\ PendingApart(w)
  <2>1. Names(upsert[w].rows) = {}
    BY <1>2 DEF Names
  <2> QED BY <1>2, <2>1 DEF PendingIsMerged, PendingApart
<1>5. EdgesAreDelivered /\ NodesApart /\ OpenApart
  BY <1>1, <1>2 DEF EdgesAreDelivered, NodesApart, OpenApart
<1> QED BY <1>3, <1>4, <1>5 DEF GraphInv

(* MERGE yields a node for every name of the batch and no other: those of  *)
(* the graph, or one of this batch for a name the graph does not have.     *)
LEMMA MergedNodes ==
  ASSUME NEW batch, KnownRows(batch), nodes \subseteq GraphNodes, NEW k \in 1..MaxBatches
  PROVE  /\ Merged(batch, k) \subseteq GraphNodes
         /\ \A name \in Names(batch) : \E n \in Merged(batch, k) : n[1] = name
         /\ \A n \in Merged(batch, k) :
              /\ n[1] \in Names(batch)
              /\ n \notin nodes => n[2] = k /\ \A m \in nodes : m[1] # n[1]
<1>1. Names(batch) \subseteq Lawsuits \cup Companies
  BY DEF Names, KnownRows
<1> DEFINE old == {n \in nodes : n[1] \in Names(batch)}
           new == (Names(batch) \ {n[1] : n \in nodes}) \X {k}
<1>2. Merged(batch, k) = old \cup new
  BY DEF Merged
<1>3. \A n \in new : n[1] \in Names(batch) /\ n[2] = k /\ n \in GraphNodes /\ \A m \in nodes : m[1] # n[1]
  BY <1>1 DEF GraphNodes
<1>4. ASSUME NEW name \in Names(batch) PROVE \E n \in old \cup new : n[1] = name
  <2>1. CASE \E m \in nodes : m[1] = name
    BY <2>1
  <2>2. CASE ~\E m \in nodes : m[1] = name
    <3>1. <<name, k>> \in new
      BY <2>2
    <3> QED BY <3>1
  <2> QED BY <2>1, <2>2
<1> HIDE DEF new
<1> QED BY <1>2, <1>3, <1>4

(* A batch that begins keeps it,                                           *)
LEMMA UpsertBegun ==
  ASSUME GraphInv, NEW w \in GraphWorkers, NEW batch \in Batches, BeginUpsert(w, batch)
  PROVE  GraphInv'
<1> DEFINE k == delivered.begun + 1
<1>1. KnownRows(batch) /\ k \in 1..MaxBatches /\ MaxBatches \in Nat
  BY GraphAssumption DEF KnownRows, BeginUpsert, GraphInv, GraphType
<1>2. /\ upsert'[w] = [rows |-> batch, batch |-> k, nodes |-> Merged(batch, k)]
      /\ \A v \in GraphWorkers \ {w} : upsert'[v] = upsert[v]
      /\ upsert' = [v \in GraphWorkers |-> upsert'[v]]
      /\ nodes' = nodes /\ edges' = edges
      /\ delivered'.rows = delivered.rows /\ delivered'.begun = k
      /\ delivered'.beside = delivered.beside
           \cup {<<upsert[v].batch, k>> : v \in {x \in GraphWorkers : upsert[x] # NoBatch}}
      /\ delivered' = [rows |-> delivered'.rows, begun |-> delivered'.begun, beside |-> delivered'.beside]
  BY DEF BeginUpsert, GraphInv, GraphType
<1>3. /\ Merged(batch, k) \subseteq GraphNodes
      /\ \A name \in Names(batch) : \E n \in Merged(batch, k) : n[1] = name
      /\ \A n \in Merged(batch, k) :
           /\ n[1] \in Names(batch)
           /\ n \notin nodes => n[2] = k /\ \A m \in nodes : m[1] # n[1]
  BY <1>1, MergedNodes DEF GraphInv, GraphType
<1> HIDE DEF k
<1>4. Begun(upsert[w])'
  BY <1>1, <1>2, <1>3 DEF Begun, GraphNodes, KnownRows
<1>5. \A v \in GraphWorkers \ {w} : upsert'[v] = NoBatch \/ Begun(upsert[v])'
  <2>1. delivered.begun \in 0..MaxBatches
    BY DEF GraphInv, GraphType
  <2> QED BY <1>1, <1>2, <2>1 DEF GraphInv, GraphType, Begun, KnownRows, GraphNodes, k
<1>6. GraphType'
  BY <1>1, <1>2, <1>4, <1>5 DEF GraphInv, GraphType, KnownRows, GraphNodes
<1>7. EdgesAreDelivered'
  BY <1>2 DEF GraphInv, EdgesAreDelivered
<1>8. \A i, j : Beside(i, j) => Beside(i, j)'
  BY <1>2 DEF Beside
<1>9. NodesApart'
  BY <1>2, <1>8 DEF GraphInv, NodesApart, TwinsBeside
<1>10. OpenApart'
  <2> SUFFICES ASSUME NEW v \in GraphWorkers, NEW u \in GraphWorkers, v # u,
                      upsert'[v] # NoBatch, upsert'[u] # NoBatch
               PROVE  Beside(upsert[v].batch, upsert[u].batch)'
    BY DEF OpenApart
  <2>1. CASE u = w
    <3>1. upsert[v] # NoBatch /\ upsert'[v] = upsert[v] /\ upsert'[u].batch = k
      BY <1>2, <2>1
    <3>2. <<upsert[v].batch, k>> \in delivered'.beside
      BY <1>2, <3>1
    <3> QED BY <3>1, <3>2 DEF Beside
  <2>2. CASE v = w
    <3>1. upsert[u] # NoBatch /\ upsert'[u] = upsert[u] /\ upsert'[v].batch = k
      BY <1>2, <2>2
    <3>2. upsert[u].batch \in 1..delivered.begun /\ delivered.begun \in Nat
      BY <3>1 DEF GraphInv, GraphType, Begun
    <3> QED BY <3>1, <3>2 DEF Beside, k
  <2>3. CASE u # w /\ v # w
    BY <1>2, <1>8, <2>3 DEF GraphInv, OpenApart
  <2> QED BY <2>1, <2>2, <2>3
<1>11. ASSUME NEW v \in GraphWorkers PROVE PendingIsMerged(v)' /\ PendingApart(v)'
  <2>1. CASE v = w
    <3>1. /\ upsert'[v].rows = batch /\ upsert'[v].batch = k /\ upsert'[v].nodes = Merged(batch, k)
          /\ nodes' = nodes
      BY <1>2, <2>1
    <3>2. Names(upsert[v].rows)' = Names(batch)
      BY <3>1 DEF Names
    <3>3. PendingIsMerged(v)'
      BY <1>3, <3>1, <3>2 DEF PendingIsMerged
    <3>4. PendingApart(v)'
      BY <1>3, <3>1 DEF PendingApart, TwinsBeside
    <3> QED BY <3>3, <3>4
  <2>2. CASE v # w
    <3>1. upsert'[v] = upsert[v]
      BY <1>2, <2>2
    <3>2. PendingIsMerged(v)'
      <4>1. PendingIsMerged(v)
        BY DEF GraphInv
      <4>2. Names(upsert[v].rows)' = Names(upsert[v].rows) /\ nodes' = nodes
        BY <1>2, <3>1 DEF Names
      <4> QED BY <3>1, <4>1, <4>2 DEF PendingIsMerged
    <3>3. PendingApart(v)'
      BY <1>2, <1>8, <3>1 DEF GraphInv, PendingApart, TwinsBeside
    <3> QED BY <3>2, <3>3
  <2> QED BY <2>1, <2>2
<1> QED BY <1>6, <1>7, <1>9, <1>10, <1>11 DEF GraphInv

(* one that commits                                                        *)
LEMMA UpsertCommitted ==
  ASSUME GraphInv, NEW w \in GraphWorkers, CommitUpsert(w)
  PROVE  GraphInv'
<1> DEFINE batch == upsert[w].rows
           mine == upsert[w].nodes
           k == upsert[w].batch
           linked == {e \in mine \X mine : \E r \in batch : r.cnpj = e[1][1] /\ r.id = e[2][1]}
<1>1. /\ upsert'[w] = NoBatch /\ upsert'[w].rows = {} /\ upsert'[w].nodes = {}
      /\ \A v \in GraphWorkers \ {w} : upsert'[v] = upsert[v]
      /\ upsert' = [v \in GraphWorkers |-> upsert'[v]]
      /\ nodes' = nodes \cup mine /\ edges' = edges \cup linked
      /\ delivered'.rows = delivered.rows \cup batch
      /\ delivered'.begun = delivered.begun /\ delivered'.beside = delivered.beside
      /\ delivered' = [rows |-> delivered'.rows, begun |-> delivered'.begun, beside |-> delivered'.beside]
  BY DEF CommitUpsert, GraphInv, GraphType, NoBatch
<1>2. Begun(upsert[w]) /\ PendingIsMerged(w) /\ PendingApart(w)
  BY DEF CommitUpsert, GraphInv, GraphType
<1>3. KnownRows(batch) /\ mine \subseteq GraphNodes /\ k \in 1..delivered.begun
  BY <1>2 DEF Begun
<1>4. \A n \in mine : n[1] \in Names(batch) /\ (n \in nodes \/ n[2] = k)
  BY <1>2 DEF PendingIsMerged
<1>5. \A name \in Names(batch) : \E n \in mine : n[1] = name
  BY <1>2 DEF PendingIsMerged
<1> HIDE DEF batch, mine, k
<1>6. GraphType'
  <2>1. \A v \in GraphWorkers : upsert'[v] = NoBatch \/ Begun(upsert[v])'
    BY <1>1 DEF GraphInv, GraphType, Begun, KnownRows, GraphNodes
  <2>2. nodes' \subseteq GraphNodes /\ edges' \subseteq nodes' \X nodes'
    BY <1>1, <1>3 DEF GraphInv, GraphType, linked
  <2>3. KnownRows(delivered.rows)'
    BY <1>1, <1>3 DEF GraphInv, GraphType, KnownRows
  <2>4. delivered'.begun \in 0..MaxBatches
    BY <1>1 DEF GraphInv, GraphType
  <2> QED BY <1>1, <2>1, <2>2, <2>3, <2>4 DEF GraphType, GraphNodes
<1>7. EdgesAreDelivered'
  <2>1. ASSUME NEW e \in edges' PROVE \E r \in delivered'.rows : r.cnpj = e[1][1] /\ r.id = e[2][1]
    BY <1>1 DEF GraphInv, EdgesAreDelivered, linked
  <2>2. ASSUME NEW r \in delivered'.rows, r.cnpj # NoCnpj
        PROVE  \E e \in edges' : e[1][1] = r.cnpj /\ e[2][1] = r.id
    <3>1. CASE r \in delivered.rows
      BY <1>1, <2>2, <3>1 DEF GraphInv, EdgesAreDelivered
    <3>2. CASE r \in batch
      <4>1. r.cnpj \in Names(batch) /\ r.id \in Names(batch)
        BY <2>2, <3>2 DEF Names
      <4>2. PICK c \in mine, p \in mine : c[1] = r.cnpj /\ p[1] = r.id
        BY <1>5, <4>1
      <4>3. <<c, p>> \in linked
        BY <3>2, <4>2 DEF linked
      <4> QED BY <1>1, <4>2, <4>3
    <3> QED BY <1>1, <2>2, <3>1, <3>2
  <2> QED BY <2>1, <2>2 DEF EdgesAreDelivered
<1>8. \A i, j : Beside(i, j) => Beside(i, j)'
  BY <1>1 DEF Beside
<1>9. \A m, n \in nodes : TwinsBeside(m, n)
  BY DEF GraphInv, NodesApart
<1>10. \A n \in mine \ nodes, m \in nodes : TwinsBeside(m, n) /\ TwinsBeside(n, m)
  BY <1>2 DEF PendingApart, mine
<1>11. NodesApart'
  <2> SUFFICES ASSUME NEW m \in nodes', NEW n \in nodes' PROVE TwinsBeside(m, n)'
    BY DEF NodesApart
  <2>1. CASE m \in nodes \/ n \in nodes
    BY <1>1, <1>8, <1>9, <1>10, <2>1 DEF TwinsBeside
  <2>2. CASE m \notin nodes /\ n \notin nodes
    <3>1. m[2] = k /\ n[2] = k
      BY <1>1, <1>4, <2>2
    <3>2. ~(k < k)
      BY <1>3 DEF GraphInv, GraphType
    <3> QED BY <3>1, <3>2 DEF TwinsBeside, Beside
  <2> QED BY <2>1, <2>2
<1>12. OpenApart'
  BY <1>1, <1>8 DEF GraphInv, OpenApart
<1>13. ASSUME NEW v \in GraphWorkers PROVE PendingIsMerged(v)' /\ PendingApart(v)'
  <2>1. CASE v = w
    <3>1. Names(upsert'[v].rows) = {}
      BY <1>1, <2>1 DEF Names
    <3>2. PendingIsMerged(v)'
      BY <1>1, <2>1, <3>1 DEF PendingIsMerged, Names
    <3>3. PendingApart(v)'
      BY <1>1, <2>1 DEF PendingApart
    <3> QED BY <3>2, <3>3
  <2>2. CASE v # w
    <3>1. upsert'[v] = upsert[v]
      BY <1>1, <2>2
    <3>2. PendingIsMerged(v)'
      <4>1. PendingIsMerged(v)
        BY DEF GraphInv
      <4>2. Names(upsert[v].rows)' = Names(upsert[v].rows) /\ nodes \subseteq nodes'
        BY <1>1, <3>1 DEF Names
      <4> QED BY <3>1, <4>1, <4>2 DEF PendingIsMerged
    <3>3. ASSUME NEW n \in upsert'[v].nodes \ nodes', NEW m \in nodes'
          PROVE  TwinsBeside(m, n)' /\ TwinsBeside(n, m)'
      <4>1. n \in upsert[v].nodes \ nodes
        BY <1>1, <3>1
      <4>2. CASE m \in nodes
        <5>1. TwinsBeside(m, n) /\ TwinsBeside(n, m)
          BY <4>1, <4>2 DEF GraphInv, PendingApart
        <5> QED BY <1>8, <5>1 DEF TwinsBeside
      <4>3. CASE m \notin nodes
        <5>1. n[2] = upsert[v].batch
          BY <4>1 DEF GraphInv, PendingIsMerged
        <5>2. m[2] = k
          BY <1>1, <1>4, <4>3
        <5>3. upsert[v] # NoBatch /\ upsert[w] # NoBatch
          BY <4>1 DEF NoBatch, CommitUpsert
        <5>4. Beside(upsert[v].batch, k) /\ Beside(k, upsert[v].batch)
          BY <2>2, <5>3 DEF GraphInv, OpenApart, k
        <5> QED BY <1>8, <5>1, <5>2, <5>4 DEF TwinsBeside
      <4> QED BY <4>2, <4>3
    <3> QED BY <3>2, <3>3 DEF PendingApart
  <2> QED BY <2>1, <2>2
<1> QED BY <1>6, <1>7, <1>11, <1>12, <1>13 DEF GraphInv

(* and one that fails.                                                     *)
LEMMA UpsertRolledBack ==
  ASSUME GraphInv, NEW w \in GraphWorkers, UpsertFails(w)
  PROVE  GraphInv'
<1>1. /\ upsert'[w] = NoBatch /\ upsert'[w].rows = {} /\ upsert'[w].nodes = {}
      /\ \A v \in GraphWorkers \ {w} : upsert'[v] = upsert[v]
      /\ upsert' = [v \in GraphWorkers |-> upsert'[v]]
      /\ UNCHANGED <<nodes, edges, delivered>>
  BY DEF UpsertFails, GraphInv, GraphType, NoBatch
<1>2. GraphType'
  BY <1>1 DEF GraphInv, GraphType, Begun, KnownRows, GraphNodes
<1>3. \A i, j : Beside(i, j) <=> Beside(i, j)'
  BY <1>1 DEF Beside
<1>4. EdgesAreDelivered' /\ NodesApart' /\ OpenApart'
  BY <1>1, <1>3 DEF GraphInv, EdgesAreDelivered, NodesApart, OpenApart, TwinsBeside
<1>5. ASSUME NEW v \in GraphWorkers PROVE PendingIsMerged(v)' /\ PendingApart(v)'
  <2>1. CASE v = w
    <3>1. Names(upsert'[v].rows) = {}
      BY <1>1, <2>1 DEF Names
    <3>2. PendingIsMerged(v)'
      BY <1>1, <2>1, <3>1 DEF PendingIsMerged, Names
    <3>3. PendingApart(v)'
      BY <1>1, <2>1 DEF PendingApart
    <3> QED BY <3>2, <3>3
  <2>2. CASE v # w
    <3>1. upsert'[v] = upsert[v]
      BY <1>1, <2>2
    <3>2. PendingIsMerged(v)'
      <4>1. PendingIsMerged(v)
        BY DEF GraphInv
      <4>2. Names(upsert[v].rows)' = Names(upsert[v].rows) /\ nodes \subseteq nodes'
        BY <1>1, <3>1 DEF Names
      <4> QED BY <3>1, <4>1, <4>2 DEF PendingIsMerged
    <3>3. PendingApart(v)'
      BY <1>1, <1>3, <3>1 DEF GraphInv, PendingApart, TwinsBeside
    <3> QED BY <3>2, <3>3
  <2> QED BY <2>1, <2>2
<1> QED BY <1>2, <1>4, <1>5 DEF GraphInv

(* Every step does.                                                        *)
LEMMA GraphPreserved == GraphInv /\ [GraphNext]_graphVars => GraphInv'
<1> SUFFICES ASSUME GraphInv, [GraphNext]_graphVars PROVE GraphInv'
  OBVIOUS
<1>1. CASE GraphNext
  BY <1>1, UpsertBegun, UpsertCommitted, UpsertRolledBack DEF GraphNext
<1>2. CASE UNCHANGED graphVars
  BY <1>2 DEF graphVars, GraphInv, GraphType, Begun, GraphNodes, EdgesAreDelivered, NodesApart,
    OpenApart, PendingApart, PendingIsMerged, TwinsBeside, Beside, KnownRows, Names
<1> QED BY <1>1, <1>2

(* The edges of a company lead to all the lawsuits delivered for it, and   *)
(* to each by one edge while no name has twins.                            *)
LEMMA EdgesCount ==
  ASSUME GraphInv, NEW c \in Companies
  PROVE  /\ Cardinality(EdgesOf(c)) >= Cardinality(DeliveredFor(c))
         /\ (\A name \in {c} \cup DeliveredFor(c) : ~HasTwins(name)) =>
              Cardinality(EdgesOf(c)) = Cardinality(DeliveredFor(c))
<1> DEFINE f == [e \in EdgesOf(c) |-> e[2][1]]
<1>1. IsFiniteSet(EdgesOf(c))
  <2>1. IsFiniteSet(1..MaxBatches) /\ IsFiniteSet(Lawsuits \cup Companies)
    <3>1. MaxBatches \in Int /\ 1 \in Int /\ IsFiniteSet(Lawsuits) /\ IsFiniteSet(Companies)
      BY GraphAssumption
    <3> QED BY <3>1, FS_Interval, FS_Union
  <2>2. IsFiniteSet(GraphNodes)
    BY <2>1, FS_Product DEF GraphNodes
  <2>3. IsFiniteSet(nodes)
    BY <2>2, FS_Subset DEF GraphInv, GraphType
  <2>4. IsFiniteSet(nodes \X nodes)
    BY <2>3, FS_Product
  <2>5. EdgesOf(c) \subseteq nodes \X nodes
    BY DEF EdgesOf, GraphInv, GraphType
  <2> QED BY <2>4, <2>5, FS_Subset
<1>2. \A p : p \in DeliveredFor(c) <=> \E r \in delivered.rows : r.cnpj = c /\ r.id = p
  BY DEF DeliveredFor
<1>3. \A e \in EdgesOf(c) : e \in edges /\ e[1][1] = c
  BY DEF EdgesOf
<1>4. \A e \in EdgesOf(c) : e[2][1] \in DeliveredFor(c)
  BY <1>2, <1>3 DEF GraphInv, EdgesAreDelivered
<1>5. ASSUME NEW p \in DeliveredFor(c) PROVE \E e \in EdgesOf(c) : e[2][1] = p
  <2>1. PICK r \in delivered.rows : r.cnpj = c /\ r.id = p
    BY <1>2
  <2>2. c # NoCnpj
    BY GraphAssumption
  <2>3. PICK e \in edges : e[1][1] = r.cnpj /\ e[2][1] = r.id
    BY <2>1, <2>2 DEF GraphInv, EdgesAreDelivered
  <2> QED BY <2>1, <2>3 DEF EdgesOf
<1>6. f \in Surjection(EdgesOf(c), DeliveredFor(c))
  BY <1>4, <1>5 DEF Surjection
<1> HIDE DEF f
<1>7. /\ IsFiniteSet(DeliveredFor(c)) /\ Cardinality(DeliveredFor(c)) <= Cardinality(EdgesOf(c))
      /\ f \in Injection(EdgesOf(c), DeliveredFor(c)) =>
           Cardinality(DeliveredFor(c)) = Cardinality(EdgesOf(c))
  BY <1>1, <1>6, FS_Surjection
<1>8. Cardinality(DeliveredFor(c)) \in Nat /\ Cardinality(EdgesOf(c)) \in Nat
  BY <1>1, <1>7, FS_CardinalityType
<1>9. ASSUME \A name \in {c} \cup DeliveredFor(c) : ~HasTwins(name)
      PROVE  f \in Injection(EdgesOf(c), DeliveredFor(c))
  <2>1. ASSUME NEW d \in EdgesOf(c), NEW e \in EdgesOf(c), d[2][1] = e[2][1] PROVE d = e
    <3>1. /\ d[1] \in nodes /\ d[2] \in nodes /\ d = <<d[1], d[2]>>
          /\ e[1] \in nodes /\ e[2] \in nodes /\ e = <<e[1], e[2]>>
      BY <1>3 DEF GraphInv, GraphType
    <3>2. d[1] = e[1]
      BY <1>3, <1>9, <3>1 DEF HasTwins
    <3>3. d[2] = e[2]
      BY <1>4, <1>9, <2>1, <3>1 DEF HasTwins
    <3> QED BY <3>1, <3>2, <3>3
  <2>2. \A d, e \in EdgesOf(c) : f[d] = f[e] => d = e
    BY <2>1 DEF f
  <2>3. f \in [EdgesOf(c) -> DeliveredFor(c)]
    BY <1>6 DEF Surjection
  <2> QED BY <2>2, <2>3 DEF Injection, IsInjective
<1> QED BY <1>7, <1>8, <1>9

(* A name has twins only where the batches that made them were open at a   *)
(* time; the score misses no lawsuit of a company and counts each once     *)
(* while there are no twins, for any batches that overlap, come again and  *)
(* fail (neo4j_client.py 8-9, 70-98, 151-174).                             *)
THEOREM LawsuitsCountOnce == GraphSpec => []CountedOnce
<1>1. GraphInv => CountedOnce
  <2> SUFFICES ASSUME GraphInv PROVE CountedOnce
    OBVIOUS
  <2>1. \A m, n \in nodes : m[1] = n[1] /\ m[2] < n[2] => <<m[2], n[2]>> \in delivered.beside
    BY DEF GraphInv, NodesApart, TwinsBeside, Beside
  <2>2. \A c \in Companies : Contagem(c).total = Cardinality(EdgesOf(c))
    BY DEF Contagem
  <2> QED BY <2>1, <2>2, EdgesCount DEF CountedOnce
<1> QED BY <1>1, GraphStarts, GraphPreserved, PTL DEF GraphSpec
-----------------------------------------------------------------------------
(* Jurimetrics *)

(***************************************************************************)
(* The table of jurimetria, for any sources, any number of aggregations    *)
(* and any failures.  Every row keeps what it was built from: a row of     *)
(* DATAJUD or a blended one is of the period TODOS, a blended one has its  *)
(* row of DATAJUD in the table and its row of ABJ in the landing table     *)
(* (which replaces rows by their key and deletes none).                    *)
(***************************************************************************)
CountsCases(b) == b.periodo = TODOS /\ b.n \in Nat

InLanding(r) == \E l \in landing : SameKey(l, r)

JuriType ==
  /\ IsFiniteSet(silver) /\ IsFiniteSet(indicador)
  /\ landing \subseteq AbjRows /\ IsFiniteSet(landing)
  /\ task = [a \in Aggregators |-> task[a]]
  /\ \A a \in Aggregators :
       /\ IsFiniteSet(task[a].buckets) /\ \A b \in task[a].buckets : CountsCases(b)
       /\ IsFiniteSet(task[a].abj) /\ task[a].abj \subseteq AbjRows
       /\ task[a] = [at |-> task[a].at, buckets |-> task[a].buckets, abj |-> task[a].abj]
       /\ \A r \in task[a].abj : InLanding(r)

OfDatajud(r) == r.fonte = "DATAJUD" /\ r.periodo = TODOS /\ r.taxa = NULL /\ r.duracao = NULL

Blended(r, table) ==
  /\ r.fonte = "BLEND" /\ r.periodo = TODOS /\ InLanding(r)
  /\ \E d \in table : d.fonte = "DATAJUD" /\ SameKey(d, r)

RowSound(r, table) == r.n \in Nat /\ (OfDatajud(r) \/ Blended(r, table) \/ r.fonte = "ABJ")

RowsSound(table) == \A r \in table : RowSound(r, table)

JuriInv == JuriType /\ RowsSound(indicador)

(* A finite set has a finite image.                                        *)
LEMMA ImageIsFinite ==
  ASSUME NEW S, IsFiniteSet(S), NEW f
  PROVE  IsFiniteSet({f[x] : x \in S})
<1> DEFINE T == {f[x] : x \in S}
           g == [x \in S |-> f[x]]
<1>1. g \in Surjection(S, T)
  BY DEF Surjection
<1> HIDE DEF g, T
<1>2. IsFiniteSet(T)
  BY <1>1, FS_Surjection
<1> QED BY <1>2 DEF T

(* An upsert into a finite table leaves it finite.                         *)
LEMMA UpsertedFinite ==
  ASSUME NEW table, NEW batch, IsFiniteSet(table), IsFiniteSet(batch)
  PROVE  /\ IsFiniteSet(Upserted(table, batch, SameKey))
         /\ IsFiniteSet(Upserted(table, batch, SameRow))
<1>1. /\ IsFiniteSet({r \in table : \A b \in batch : ~ SameKey(r, b)})
      /\ IsFiniteSet({r \in table : \A b \in batch : ~ SameRow(r, b)})
  BY FS_Subset
<1> QED BY <1>1, FS_Union DEF Upserted

(* The buckets of DATAJUD are finitely many counts.                        *)
LEMMA BucketsSound ==
  ASSUME JuriInv
  PROVE  IsFiniteSet(Buckets) /\ \A b \in Buckets : CountsCases(b)
<1> DEFINE f == [d \in silver |-> [segment |-> d.segment, periodo |-> TODOS,
                   n |-> Cardinality({e \in silver : e.segment = d.segment}), provimento |-> 0]]
<1>1. Buckets = {f[d] : d \in silver}
  BY DEF Buckets
<1>2. \A d \in silver : Cardinality({e \in silver : e.segment = d.segment}) \in Nat
  BY FS_Subset, FS_CardinalityType DEF JuriInv, JuriType
<1>3. \A d \in silver : CountsCases(f[d])
  BY <1>2 DEF CountsCases
<1> HIDE DEF f
<1>4. IsFiniteSet({f[d] : d \in silver})
  BY ImageIsFinite DEF JuriInv, JuriType
<1> QED BY <1>1, <1>3, <1>4

(* An aggregation builds finitely many rows,                               *)
LEMMA BuiltFinite ==
  ASSUME NEW buckets, NEW abj, IsFiniteSet(buckets), IsFiniteSet(abj)
  PROVE  IsFiniteSet(Built(buckets, abj))
<1> DEFINE f == [b \in buckets |-> Indicator(b, "DATAJUD", b.n, NULL, NULL, b.n, b.provimento)]
           g == [p \in buckets \X abj |->
                   Indicator(p[1], "BLEND", p[1].n, p[2].tempo, p[2].taxa, p[2].novos, p[1].provimento)]
           h == [r \in abj |-> Indicator(r, "ABJ", IF r.pendentes = NULL THEN 0 ELSE r.pendentes,
                                         r.tempo, r.taxa, r.novos, NULL)]
           A == {f[b] : b \in buckets}
           B == {g[p] : p \in buckets \X abj}
           C == {h[r] : r \in abj}
<1>1. ASSUME NEW x \in Built(buckets, abj) PROVE x \in A \cup B \cup C
  <2>1. CASE x \in {Indicator(b, "DATAJUD", b.n, NULL, NULL, b.n, b.provimento) : b \in buckets}
    BY <2>1
  <2>2. CASE x \in UNION {{Indicator(b, "BLEND", b.n, r.tempo, r.taxa, r.novos, b.provimento)
               : r \in {y \in abj : SameKey(b, y)}} : b \in buckets}
    <3>1. PICK b \in buckets : x \in {Indicator(b, "BLEND", b.n, r.tempo, r.taxa, r.novos, b.provimento)
               : r \in {y \in abj : SameKey(b, y)}}
      BY <2>2
    <3>2. PICK r \in abj : x = Indicator(b, "BLEND", b.n, r.tempo, r.taxa, r.novos, b.provimento)
      BY <3>1
    <3>3. <<b, r>> \in buckets \X abj /\ x = g[<<b, r>>]
      BY <3>2
    <3> QED BY <3>3
  <2>3. CASE x \in {Indicator(r, "ABJ", IF r.pendentes = NULL THEN 0 ELSE r.pendentes,
                  r.tempo, r.taxa, r.novos, NULL) : r \in {y \in abj : \A b \in buckets : ~ SameKey(b, y)}}
    BY <2>3
  <2> QED BY <2>1, <2>2, <2>3 DEF Built
<1> HIDE DEF f, g, h
<1>2. IsFiniteSet(A) /\ IsFiniteSet(B) /\ IsFiniteSet(C)
  BY ImageIsFinite, FS_Product
<1> HIDE DEF A, B, C
<1>3. IsFiniteSet(A \cup B \cup C)
  BY <1>2, FS_Union
<1> QED BY <1>1, <1>3, FS_Subset

(* each from the rows it says it is from.                                  *)
LEMMA BuiltSound ==
  ASSUME NEW buckets, NEW abj, abj \subseteq AbjRows, \A b \in buckets : CountsCases(b),
         \A r \in abj : InLanding(r)
  PROVE  RowsSound(Built(buckets, abj))
<1> DEFINE B == Built(buckets, abj)
<1>0. \A b \in buckets : Indicator(b, "DATAJUD", b.n, NULL, NULL, b.n, b.provimento) \in B
  BY DEF Built
<1>1. ASSUME NEW x \in B PROVE RowSound(x, B)
  <2>1. CASE x \in {Indicator(b, "DATAJUD", b.n, NULL, NULL, b.n, b.provimento) : b \in buckets}
    BY <2>1 DEF Indicator, RowSound, OfDatajud, CountsCases
  <2>2. CASE x \in UNION {{Indicator(b, "BLEND", b.n, r.tempo, r.taxa, r.novos, b.provimento)
               : r \in {y \in abj : SameKey(b, y)}} : b \in buckets}
    <3>1. PICK b \in buckets : x \in {Indicator(b, "BLEND", b.n, r.tempo, r.taxa, r.novos, b.provimento)
               : r \in {y \in abj : SameKey(b, y)}}
      BY <2>2
    <3>2. PICK r \in abj : /\ SameKey(b, r)
                           /\ x = Indicator(b, "BLEND", b.n, r.tempo, r.taxa, r.novos, b.provimento)
      BY <3>1
    <3>3. PICK l \in landing : SameKey(l, r)
      BY DEF InLanding
    <3> DEFINE d == Indicator(b, "DATAJUD", b.n, NULL, NULL, b.n, b.provimento)
    <3>4. d \in B /\ d.fonte = "DATAJUD" /\ SameKey(d, x)
      BY <1>0, <3>2 DEF Indicator, SameKey
    <3>5. x.n \in Nat /\ x.fonte = "BLEND" /\ x.periodo = TODOS /\ SameKey(l, x)
      BY <3>2, <3>3 DEF Indicator, SameKey, CountsCases
    <3> HIDE DEF d, B
    <3> QED BY <3>4, <3>5 DEF RowSound, Blended, InLanding
  <2>3. CASE x \in {Indicator(r, "ABJ", IF r.pendentes = NULL THEN 0 ELSE r.pendentes,
                  r.tempo, r.taxa, r.novos, NULL) : r \in {y \in abj : \A b \in buckets : ~ SameKey(b, y)}}
    BY <2>3 DEF Indicator, RowSound, AbjRows
  <2> QED BY <2>1, <2>2, <2>3 DEF Built
<1> QED BY <1>1 DEF RowsSound

(* An upsert puts rows of such kind in place of others.                    *)
LEMMA UpsertedSound ==
  ASSUME NEW table, NEW batch, RowsSound(table), RowsSound(batch)
  PROVE  RowsSound(Upserted(table, batch, SameRow))
<1> DEFINE T == Upserted(table, batch, SameRow)
<1>1. T = {r \in table : \A b \in batch : ~ SameRow(r, b)} \cup batch
  BY DEF Upserted
<1> HIDE DEF T
<1>2. ASSUME NEW d \in table \cup batch, d.fonte = "DATAJUD"
      PROVE  \E e \in T : e.fonte = "DATAJUD" /\ SameKey(e, d)
  <2>1. CASE d \in T
    BY <1>2, <2>1 DEF SameKey
  <2>2. CASE d \notin T
    <3>1. PICK b \in batch : SameRow(d, b)
      BY <1>1, <2>2
    <3> QED BY <1>1, <1>2, <3>1 DEF SameRow, SameKey
  <2> QED BY <2>1, <2>2
<1>3. ASSUME NEW r \in T PROVE RowSound(r, T)
  <2>1. r \in table \cup batch
    BY <1>1
  <2>2. RowSound(r, table) \/ RowSound(r, batch)
    BY <2>1 DEF RowsSound
  <2>3. CASE Blended(r, table) \/ Blended(r, batch)
    <3>1. PICK d \in table \cup batch : d.fonte = "DATAJUD" /\ SameKey(d, r)
      BY <2>3 DEF Blended
    <3>2. PICK e \in T : e.fonte = "DATAJUD" /\ SameKey(e, d)
      BY <1>2, <3>1
    <3> QED BY <2>2, <2>3, <3>1, <3>2 DEF RowSound, Blended, SameKey
  <2>4. CASE ~ (Blended(r, table) \/ Blended(r, batch))
    BY <2>2, <2>4 DEF RowSound
  <2> QED BY <2>3, <2>4
<1> QED BY <1>3 DEF RowsSound, T

(* A new decision keeps the invariant.                                     *)
LEMMA DecisionIndexed ==
  ASSUME JuriInv, NEW m \in Months, NEW p \in CaseIds, NEW s \in Segments, IndexDecision(m, p, s)
  PROVE  JuriInv'
<1>1. IsFiniteSet(silver')
  <2>1. IsFiniteSet({d \in silver : <<d.month, d.process>> # <<m, p>>})
    BY FS_Subset DEF JuriInv, JuriType
  <2>2. IsFiniteSet({[month |-> m, process |-> p, segment |-> s]})
    BY FS_Singleton
  <2> QED BY <2>1, <2>2, FS_Union DEF IndexDecision
<1>2. UNCHANGED <<landing, indicador, task>>
  BY DEF IndexDecision
<1> QED BY <1>1, <1>2 DEF JuriInv, JuriType, RowsSound, RowSound, OfDatajud, Blended, InLanding

(* A rate that is filled in makes no other row.                            *)
LEMMA RateKeepsRow ==
  ASSUME NEW row \in AbjRows
  PROVE  WithRate(row) \in AbjRows
<1> DEFINE total == row.baixados + row.pendentes
           taxa == (2 * 10000 * row.pendentes + total) \div (2 * total)
<1>1. CASE row.taxa # NULL \/ row.pendentes = NULL \/ row.baixados = NULL \/ total <= 0
  BY <1>1 DEF WithRate
<1>2. CASE ~ (row.taxa # NULL \/ row.pendentes = NULL \/ row.baixados = NULL \/ total <= 0)
  <2>1. WithRate(row) = [row EXCEPT !.taxa = taxa]
    BY <1>2 DEF WithRate
  <2>2. row.pendentes \in Nat /\ total \in Int /\ total > 0
    BY <1>2 DEF AbjRows, NULL
  <2>3. taxa \in Int
    BY <2>2, SMT
  <2> HIDE DEF taxa, total
  <2> QED BY <2>1, <2>3 DEF AbjRows
<1> QED BY <1>1, <1>2

(* A load of ABJ keeps the invariant.                                      *)
LEMMA AbjLoaded ==
  ASSUME JuriInv, NEW csv \in Csvs, LoadAbj(csv)
  PROVE  JuriInv'
<1> DEFINE accepted == {x \in csv : Accepted(x)}
           batch == {WithRate(r) : r \in accepted}
           f == [r \in accepted |-> WithRate(r)]
<1>1. accepted \subseteq AbjRows /\ IsFiniteSet(accepted)
  BY CsvsAssumption, FS_Subset
<1>2. batch \subseteq AbjRows
  BY <1>1, RateKeepsRow
<1>3. batch = {f[r] : r \in accepted}
  OBVIOUS
<1> HIDE DEF accepted
<1>4. IsFiniteSet({f[r] : r \in accepted})
  <2> HIDE DEF f
  <2> QED BY <1>1, ImageIsFinite
<1>5. landing' = Upserted(landing, batch, SameKey)
  BY DEF LoadAbj, accepted
<1>6. landing' = {r \in landing : \A b \in batch : ~ SameKey(r, b)} \cup batch
  BY <1>5 DEF Upserted
<1>7. IsFiniteSet(landing')
  BY <1>3, <1>4, <1>5, UpsertedFinite DEF JuriInv, JuriType
<1> HIDE DEF batch, f
<1>8. landing' \subseteq AbjRows
  BY <1>2, <1>6 DEF JuriInv, JuriType
<1>9. ASSUME NEW l \in landing PROVE \E k \in landing' : SameKey(k, l)
  <2>1. CASE l \in landing'
    BY <2>1 DEF SameKey
  <2>2. CASE l \notin landing'
    <3>1. PICK b \in batch : SameKey(l, b)
      BY <1>6, <2>2
    <3> QED BY <1>6, <3>1 DEF SameKey
  <2> QED BY <2>1, <2>2
<1>10. \A r : InLanding(r) => InLanding(r)'
  <2> TAKE r
  <2> SUFFICES ASSUME InLanding(r) PROVE \E k \in landing' : SameKey(k, r)
    BY DEF InLanding, SameKey
  <2>1. PICK l \in landing : SameKey(l, r)
    BY DEF InLanding
  <2>2. PICK k \in landing' : SameKey(k, l)
    BY <1>9
  <2> QED BY <2>1, <2>2 DEF SameKey
<1>11. UNCHANGED <<silver, indicador, task>>
  BY DEF LoadAbj
<1>12. \A r \in indicador : RowSound(r, indicador)'
  <2>1. \A r \in indicador : RowSound(r, indicador) /\ (InLanding(r) => InLanding(r)')
    BY <1>10 DEF JuriInv, RowsSound
  <2> QED BY <1>11, <2>1 DEF RowSound, OfDatajud, Blended
<1>13. \A a \in Aggregators : \A r \in task[a].abj : InLanding(r)'
  BY <1>10 DEF JuriInv, JuriType
<1> QED BY <1>7, <1>8, <1>11, <1>12, <1>13 DEF JuriInv, JuriType, RowsSound

TaskSound(t) ==
  /\ IsFiniteSet(t.buckets) /\ \A b \in t.buckets : CountsCases(b)
  /\ IsFiniteSet(t.abj) /\ t.abj \subseteq AbjRows
  /\ t = [at |-> t.at, buckets |-> t.buckets, abj |-> t.abj]
  /\ \A r \in t.abj : InLanding(r)

(* A step of one aggregation keeps it when its own part stays sound,       *)
LEMMA TaskChanged ==
  ASSUME JuriInv, UNCHANGED <<silver, landing>>, IsFiniteSet(indicador)', RowsSound(indicador'),
         NEW a \in Aggregators, NEW t, TaskSound(t), task' = [task EXCEPT ![a] = t]
  PROVE  JuriInv'
<1>1. task'[a] = t /\ \A b \in Aggregators \ {a} : task'[b] = task[b]
  BY DEF JuriInv, JuriType
<1>2. ASSUME NEW b \in Aggregators PROVE TaskSound(task'[b])
  BY <1>1 DEF JuriInv, JuriType, TaskSound
<1>3. task' = [b \in Aggregators |-> task'[b]]
  BY DEF JuriInv, JuriType
<1>4. RowsSound(indicador)'
  BY DEF RowsSound, RowSound, OfDatajud, Blended, InLanding
<1>5. JuriType'
  BY <1>2, <1>3 DEF JuriInv, JuriType, TaskSound, InLanding
<1> QED BY <1>4, <1>5 DEF JuriInv

(* as that of one that waits is.                                           *)
LEMMA WaitsSound == TaskSound(Waits)
BY FS_EmptySet DEF TaskSound, Waits

(* What an aggregation holds once it has read both sources.                *)
LEMMA FoundAdded ==
  ASSUME NEW t, NEW found, t = [at |-> t.at, buckets |-> t.buckets, abj |-> t.abj]
  PROVE  [[t EXCEPT !.at = "write"] EXCEPT !.abj = found]
         = [at |-> "write", buckets |-> t.buckets, abj |-> found]
<1>1. ASSUME NEW x, x = [t EXCEPT !.at = "write"], NEW y, y = [x EXCEPT !.abj = found]
      PROVE  y = [at |-> "write", buckets |-> t.buckets, abj |-> found]
  BY <1>1
<1> QED BY Zenon, <1>1

(* Every step of an aggregation keeps the invariant.                       *)
LEMMA AggregationGoesOn ==
  ASSUME JuriInv, NEW a \in Aggregators, ReadBuckets(a) \/ ReadAbj(a) \/ Upsert(a) \/ Aborts(a)
  PROVE  JuriInv'
<1>0. TaskSound(task[a]) /\ IsFiniteSet(indicador) /\ RowsSound(indicador) /\ TaskSound(Waits)
  BY WaitsSound DEF JuriInv, JuriType, TaskSound
<1>1. CASE ReadBuckets(a)
  <2>1. PICK found \in Answered \cup {{}} :
          task' = [task EXCEPT ![a] = [at |-> "read", buckets |-> found, abj |-> {}]]
    BY <1>1 DEF ReadBuckets
  <2>2. IsFiniteSet(found) /\ (\A b \in found : CountsCases(b)) /\ IsFiniteSet({})
    <3>1. found \subseteq Buckets
      BY DEF Answered
    <3> QED BY <3>1, BucketsSound, FS_EmptySet, FS_Subset
  <2>3. TaskSound([at |-> "read", buckets |-> found, abj |-> {}])
    BY <2>2 DEF TaskSound
  <2>4. UNCHANGED <<silver, landing, indicador>>
    BY <1>1 DEF ReadBuckets
  <2>5. IsFiniteSet(indicador)' /\ RowsSound(indicador')
    BY <1>0, <2>4
  <2> QED BY <2>1, <2>3, <2>4, <2>5, TaskChanged
<1>2. CASE ReadAbj(a)
  <2>1. PICK found \in {landing, {}} :
          task' = [task EXCEPT ![a].at = "write", ![a].abj = found]
    BY <1>2 DEF ReadAbj
  <2> DEFINE t == [at |-> "write", buckets |-> task[a].buckets, abj |-> found]
  <2>2. /\ IsFiniteSet(found) /\ found \subseteq AbjRows
        /\ \A r \in found : InLanding(r)
    BY FS_EmptySet DEF JuriInv, JuriType, InLanding, SameKey
  <2>3. TaskSound(t)
    BY <1>0, <2>2 DEF TaskSound
  <2>4. [[task[a] EXCEPT !.at = "write"] EXCEPT !.abj = found] = t
    <3>1. task[a] = [at |-> task[a].at, buckets |-> task[a].buckets, abj |-> task[a].abj]
      BY <1>0 DEF TaskSound
    <3> QED BY Zenon, <3>1, FoundAdded
  <2>5. task' = [task EXCEPT ![a] = t]
    <3>1. task = [b \in Aggregators |-> task[b]]
      BY DEF JuriInv, JuriType
    <3> QED BY <2>1, <2>4, <3>1
  <2>6. UNCHANGED <<silver, landing, indicador>>
    BY <1>2 DEF ReadAbj
  <2>7. IsFiniteSet(indicador)' /\ RowsSound(indicador')
    BY <1>0, <2>6
  <2> HIDE DEF t
  <2> QED BY <2>3, <2>5, <2>6, <2>7, TaskChanged
<1>3. CASE Upsert(a)
  <2> DEFINE batch == Built(task[a].buckets, task[a].abj)
  <2>1. IsFiniteSet(batch) /\ RowsSound(batch)
    BY <1>0, BuiltFinite, BuiltSound DEF TaskSound
  <2>2. indicador' = Upserted(indicador, batch, SameRow)
    BY <1>3 DEF Upsert
  <2> HIDE DEF batch
  <2>3. IsFiniteSet(Upserted(indicador, batch, SameRow)) /\ RowsSound(Upserted(indicador, batch, SameRow))
    BY <1>0, <2>1, UpsertedFinite, UpsertedSound
  <2>4. IsFiniteSet(indicador)' /\ RowsSound(indicador')
    BY <2>2, <2>3
  <2>5. UNCHANGED <<silver, landing>> /\ task' = [task EXCEPT ![a] = Waits]
    BY <1>3 DEF Upsert, Ends
  <2> QED BY <1>0, <2>4, <2>5, TaskChanged
<1>4. CASE Aborts(a)
  <2>1. UNCHANGED <<silver, landing, indicador>> /\ task' = [task EXCEPT ![a] = Waits]
    BY <1>4 DEF Aborts, Ends
  <2>2. IsFiniteSet(indicador)' /\ RowsSound(indicador')
    BY <1>0, <2>1
  <2> QED BY <1>0, <2>1, <2>2, TaskChanged
<1> QED BY <1>1, <1>2, <1>3, <1>4

(* Every step does.                                                        *)
LEMMA JuriPreserved == JuriInv /\ [JuriNext]_juriVars => JuriInv'
<1> SUFFICES ASSUME JuriInv, [JuriNext]_juriVars PROVE JuriInv'
  OBVIOUS
<1>1. CASE \E m \in Months, p \in CaseIds, s \in Segments : IndexDecision(m, p, s)
  BY <1>1, DecisionIndexed
<1>2. CASE \E csv \in Csvs : LoadAbj(csv)
  BY <1>2, AbjLoaded
<1>3. CASE \E a \in Aggregators : ReadBuckets(a) \/ ReadAbj(a) \/ Upsert(a) \/ Aborts(a)
  BY <1>3, AggregationGoesOn
<1>4. CASE UNCHANGED juriVars
  BY <1>4 DEF juriVars, JuriInv, JuriType, RowsSound, RowSound, OfDatajud, Blended, InLanding
<1> QED BY <1>1, <1>2, <1>3, <1>4 DEF JuriNext

(* The initial state satisfies it.                                         *)
LEMMA JuriStarts == JuriInit => JuriInv
BY WaitsSound, FS_EmptySet DEF JuriInit, JuriInv, JuriType, RowsSound, Waits, TaskSound
-----------------------------------------------------------------------------
(* Volume is a sum over rows,                                              *)
LEMMA SumOfRows ==
  ASSUME NEW group, IsFiniteSet(group)
  PROVE  \E g : IsSum(group, [r \in group |-> r.n], g) /\ Volume(group) = g[group]
<1> DEFINE f == [r \in group |-> r.n]
           Chosen(g) == g = [s \in SUBSET group |->
                  IF s = {} THEN 0
                  ELSE (CHOOSE x \in s : TRUE).n + g[s \ {CHOOSE x \in s : TRUE}]]
           h == CHOOSE g : Chosen(g)
<1>1. Volume(group) = h[group]
  BY Zenon DEF Volume, MapThenSumSet, MapThenFoldSet
<1>2. \A g : Chosen(g) <=> IsSum(group, f, g)
  <2> TAKE g
  <2>1. ASSUME NEW s \in SUBSET group
        PROVE  Added(f, g, s) =
               IF s = {} THEN 0
               ELSE (CHOOSE x \in s : TRUE).n + g[s \ {CHOOSE x \in s : TRUE}]
    <3>1. CASE s = {}
      BY <3>1 DEF Added
    <3>2. CASE s # {}
      <4> DEFINE x == CHOOSE x \in s : TRUE
      <4>1. x \in group
        BY <3>2
      <4> HIDE DEF x
      <4>2. f[x] = x.n
        BY <4>1
      <4> HIDE DEF f
      <4> QED BY <3>2, <4>2 DEF Added, x
    <3> QED BY <3>1, <3>2
  <2> HIDE DEF f
  <2> QED BY <2>1 DEF IsSum
<1> HIDE DEF Chosen
<1>3. \E g : Chosen(g)
  BY <1>2, SumExists
<1> QED BY <1>1, <1>2, <1>3

(* so that it is at least that of any two.                                 *)
LEMMA TwoRows ==
  ASSUME NEW group, IsFiniteSet(group), \A r \in group : r.n \in Nat,
         NEW r \in group, NEW d \in group, r # d
  PROVE  Volume(group) >= r.n + d.n
<1> DEFINE f == [x \in group |-> x.n]
<1>1. PICK g : IsSum(group, f, g) /\ Volume(group) = g[group]
  BY SumOfRows
<1>2. \A x \in group : f[x] = x.n /\ f[x] \in Nat
  OBVIOUS
<1> HIDE DEF f
<1>3. g[group] \in Nat /\ f[r] + f[d] <= g[group]
  BY <1>1, <1>2, SumAtLeast
<1> QED BY <1>1, <1>2, <1>3

(* The points of a series are sums over the rows of ABJ.                   *)
LEMMA SeriesFromAbj ==
  ASSUME JuriInv, NEW s \in Segments, NEW p \in Series(s.tribunal)
  PROVE  p.n = Volume({r \in CourtRows(s.tribunal) : r.periodo = p.periodo /\ r.fonte = "ABJ"})
<1>1. PICK q \in {r.periodo : r \in SeriesRows(s.tribunal)} :
        p.periodo = q /\ p.n = Volume({r \in SeriesRows(s.tribunal) : r.periodo = q})
  BY DEF Series
<1>2. q # TODOS
  BY <1>1 DEF SeriesRows
<1>3. \A r \in CourtRows(s.tribunal) : RowSound(r, indicador)
  BY DEF JuriInv, RowsSound, CourtRows
<1>4. {r \in SeriesRows(s.tribunal) : r.periodo = q}
      = {r \in CourtRows(s.tribunal) : r.periodo = q /\ r.fonte = "ABJ"}
  BY <1>2, <1>3 DEF SeriesRows, RowSound, OfDatajud, Blended
<1> QED BY <1>1, <1>4

(* A blended row stands beside the row of DATAJUD it was made from, and    *)
(* both are in the total.                                                  *)
LEMMA BlendCountsTwice ==
  ASSUME JuriInv, NEW s \in Segments, NEW line \in Market(s.tribunal), NEW r \in indicador,
         r.segment = line.segment, r.fonte = "BLEND"
  PROVE  \E d \in indicador : d.fonte = "DATAJUD" /\ SameKey(d, r) /\ line.total >= r.n + d.n
<1>1. PICK t \in {x.segment : x \in CourtRows(s.tribunal)} :
        line.segment = t /\ line.total = Volume({x \in CourtRows(s.tribunal) : x.segment = t})
  BY DEF Market
<1> DEFINE group == {x \in CourtRows(s.tribunal) : x.segment = t}
<1>2. PICK d \in indicador : d.fonte = "DATAJUD" /\ SameKey(d, r)
  BY DEF JuriInv, RowsSound, RowSound, OfDatajud, Blended
<1>3. r \in group /\ d \in group /\ r # d
  BY <1>1, <1>2 DEF CourtRows, SameKey
<1>4. IsFiniteSet(group)
  BY FS_Subset DEF JuriInv, JuriType, CourtRows
<1>5. \A x \in group : x.n \in Nat
  BY DEF JuriInv, RowsSound, RowSound, CourtRows
<1>6. line.total = Volume(group)
  BY <1>1
<1> HIDE DEF group
<1>7. Volume(group) >= r.n + d.n
  BY <1>3, <1>4, <1>5, TwoRows
<1> QED BY <1>2, <1>6, <1>7

(* A profile that says something has a row over all periods behind it.     *)
LEMMA ProfileFromTodos ==
  ASSUME JuriInv, NEW s \in Segments,
         Profile(s.tribunal).congestionamento # NULL \/ Profile(s.tribunal).duracao # NULL
  PROVE  \E r \in landing : r.periodo = TODOS /\ r.segment.tribunal = s.tribunal
<1>1. \E x \in ProfileRows(s.tribunal) : x.taxa # NULL \/ x.duracao # NULL
  BY DEF Profile, WeightedAvg, Known, Taxa, Duracao
<1>2. PICK x \in indicador : /\ x.segment.tribunal = s.tribunal /\ x.fonte \in {"DATAJUD", "BLEND"}
                             /\ x.taxa # NULL \/ x.duracao # NULL
  BY <1>1 DEF ProfileRows, CourtRows
<1>3. Blended(x, indicador)
  BY <1>2 DEF JuriInv, RowsSound, RowSound, OfDatajud
<1> QED BY <1>2, <1>3 DEF Blended, InLanding, SameKey

(* The demand series, the market report and the chamber profiles rest on   *)
(* the rows they say, whatever the sources hold and however aggregations   *)
(* overlap and fail (jurimetria_aggregate.py 217).                         *)
THEOREM ReportsKeepToTheirSide == JuriSpec => []ReportsOneSided
<1>1. JuriInv => ReportsOneSided
  <2> SUFFICES ASSUME JuriInv PROVE ReportsOneSided
    OBVIOUS
  <2>1. SeriesIsAbjStock
    <3>1. ASSUME NEW s \in Segments, NEW p \in Series(s.tribunal)
          PROVE  p.n = MapThenSumSet(LAMBDA r : r.n,
                   {r \in CourtRows(s.tribunal) : r.periodo = p.periodo /\ r.fonte = "ABJ"})
      BY Zenon, SeriesFromAbj DEF Volume
    <3> QED BY Zenon, <3>1, BlendCountsTwice DEF SeriesIsAbjStock
  <2>2. ProfileBlindWithoutTodos
    BY ProfileFromTodos DEF ProfileBlindWithoutTodos
  <2> QED BY <2>1, <2>2 DEF ReportsOneSided
<1> QED BY <1>1, JuriStarts, JuriPreserved, PTL DEF JuriSpec

\* A run whose reads are of the present sources holds what they call for.
ReadsPresent(a) ==
  /\ DOMAIN task[a] = {"at", "buckets", "abj"}
  /\ task[a].at \in {"read", "write"} /\ task[a].buckets \in Answered
  /\ task[a].at = "write" => task[a].abj = landing

CoverInv ==
  /\ task = [a \in Aggregators |-> task[a]] /\ reading \subseteq Aggregators
  /\ \A a \in reading : ReadsPresent(a)
  /\ CurrentMeansCovered

(* A step of one run leaves what the others hold.                          *)
LEMMA OthersHold ==
  ASSUME CoverInv, UNCHANGED <<silver, landing>>, NEW a \in Aggregators, NEW t,
         task' = [task EXCEPT ![a] = t]
  PROVE  /\ task' = [b \in Aggregators |-> task'[b]] /\ task'[a] = t /\ Answered' = Answered
         /\ \A b \in reading \ {a} : ReadsPresent(b)'
<1>1. Answered' = Answered
  BY DEF Answered, Buckets, KeptSegments, KeepsMostFrequent, Terms, Documents, Path
<1>2. task' = [b \in Aggregators |-> task'[b]] /\ task'[a] = t
  BY DEF CoverInv
<1>3. ASSUME NEW b \in reading \ {a} PROVE ReadsPresent(b)'
  <2>1. task'[b] = task[b] /\ ReadsPresent(b)
    BY DEF CoverInv
  <2> QED BY <1>1, <2>1 DEF ReadsPresent
<1> QED BY <1>1, <1>2, <1>3

(* Every step keeps the table covered while it is current.                 *)
LEMMA CoverPreserved == CoverInv /\ [JuriNext]_juriVars => CoverInv'
<1> SUFFICES ASSUME CoverInv, [JuriNext]_juriVars PROVE CoverInv'
  OBVIOUS
<1>1. CASE \/ \E m \in Months, p \in CaseIds, s \in Segments : IndexDecision(m, p, s)
           \/ \E csv \in Csvs : LoadAbj(csv)
  BY <1>1 DEF IndexDecision, LoadAbj, SourcesChange, CoverInv, CurrentMeansCovered
<1>2. ASSUME NEW a \in Aggregators, ReadBuckets(a) PROVE CoverInv'
  <2>1. PICK found \in Answered \cup {{}} :
          /\ (found \in Answered /\ reading' = reading \cup {a}) \/ UNCHANGED reading
          /\ task' = [task EXCEPT ![a] = [at |-> "read", buckets |-> found, abj |-> {}]]
    BY <1>2 DEF ReadBuckets
  <2>2. task[a].at = "start" /\ UNCHANGED <<silver, landing, indicador, current>>
    BY <1>2 DEF ReadBuckets
  <2>3. a \notin reading
    BY <2>2 DEF CoverInv, ReadsPresent
  <2> DEFINE t == [at |-> "read", buckets |-> found, abj |-> {}]
  <2>4. /\ task' = [b \in Aggregators |-> task'[b]] /\ task'[a] = t /\ Answered' = Answered
        /\ \A b \in reading \ {a} : ReadsPresent(b)'
    BY <2>1, <2>2, OthersHold
  <2>5. found \in Answered => ReadsPresent(a)'
    BY <2>4 DEF ReadsPresent
  <2>6. reading' \subseteq Aggregators /\ \A b \in reading' : ReadsPresent(b)'
    BY <2>1, <2>3, <2>4, <2>5 DEF CoverInv
  <2> QED BY <2>2, <2>4, <2>6 DEF CoverInv, CurrentMeansCovered
<1>3. ASSUME NEW a \in Aggregators, ReadAbj(a) PROVE CoverInv'
  <2>1. PICK found \in {landing, {}} :
          /\ (found = landing /\ UNCHANGED reading) \/ reading' = reading \ {a}
          /\ task' = [task EXCEPT ![a].at = "write", ![a].abj = found]
    BY <1>3 DEF ReadAbj
  <2>2. UNCHANGED <<silver, landing, indicador, current>>
    BY <1>3 DEF ReadAbj
  <2> DEFINE t == [task[a] EXCEPT !.at = "write", !.abj = found]
  <2>3. task' = [task EXCEPT ![a] = t]
    BY <2>1 DEF CoverInv
  <2>4. /\ task' = [b \in Aggregators |-> task'[b]] /\ task'[a] = t /\ Answered' = Answered
        /\ \A b \in reading \ {a} : ReadsPresent(b)'
    BY <2>2, <2>3, OthersHold
  <2>5. ASSUME a \in reading' PROVE ReadsPresent(a)'
    <3>1. found = landing /\ a \in reading
      BY <2>1, <2>5
    <3>2. ReadsPresent(a)
      BY <3>1 DEF CoverInv
    <3>3. DOMAIN task[a] = {"at", "buckets", "abj"} /\ task[a].buckets \in Answered
      BY <3>2 DEF ReadsPresent
    <3>4. /\ DOMAIN t = {"at", "buckets", "abj"} /\ t.at = "write"
          /\ t.buckets = task[a].buckets /\ t.abj = found
      BY <3>3
    <3> HIDE DEF t
    <3> QED BY <2>2, <2>4, <3>1, <3>3, <3>4 DEF ReadsPresent
  <2>6. reading' \subseteq Aggregators /\ \A b \in reading' : ReadsPresent(b)'
    BY <2>1, <2>4, <2>5 DEF CoverInv
  <2> QED BY <2>2, <2>4, <2>6 DEF CoverInv, CurrentMeansCovered
<1>4. ASSUME NEW a \in Aggregators, Upsert(a) \/ Aborts(a) PROVE CoverInv'
  <2>1. /\ UNCHANGED <<silver, landing>> /\ task' = [task EXCEPT ![a] = Waits]
        /\ reading' = reading \ {a}
    BY <1>4 DEF Upsert, Aborts, Ends
  <2>2. /\ task' = [b \in Aggregators |-> task'[b]] /\ Answered' = Answered
        /\ \A b \in reading \ {a} : ReadsPresent(b)'
    BY <2>1, OthersHold
  <2>3. CurrentMeansCovered'
    <3>1. CASE Aborts(a)
      BY <2>1, <2>2, <3>1 DEF Aborts, CoverInv, CurrentMeansCovered
    <3>2. CASE Upsert(a) /\ a \in reading
      <4>1. task[a].at = "write" /\ task[a].buckets \in Answered /\ task[a].abj = landing
        BY <3>2 DEF Upsert, CoverInv, ReadsPresent
      <4>2. Built(task[a].buckets, landing) \subseteq indicador'
        BY <3>2, <4>1 DEF Upsert, Upserted
      <4> QED BY <2>1, <2>2, <4>1, <4>2 DEF CurrentMeansCovered
    <3>3. CASE Upsert(a) /\ a \notin reading
      BY <3>3 DEF Upsert, CurrentMeansCovered
    <3> QED BY <1>4, <3>1, <3>2, <3>3
  <2> QED BY <2>1, <2>2, <2>3 DEF CoverInv
<1>5. CASE UNCHANGED juriVars
  <2>1. Answered' = Answered /\ UNCHANGED <<task, reading, current, landing, indicador>>
    BY <1>5 DEF juriVars, Answered, Buckets, KeptSegments, KeepsMostFrequent, Terms, Documents, Path
  <2> QED BY <2>1 DEF CoverInv, CurrentMeansCovered, ReadsPresent
<1> QED BY <1>1, <1>2, <1>3, <1>4, <1>5 DEF JuriNext

(* Old values are left in the table only by a run that read a source       *)
(* before it changed, or could not read it, and wrote after those that saw *)
(* it: however many aggregations overlap and fail (jurimetria_aggregate.py *)
(* 217).                                                                   *)
THEOREM RecomputedTable == JuriSpec => []CurrentMeansCovered
<1>1. JuriInit => CoverInv
  BY DEF JuriInit, CoverInv, CurrentMeansCovered
<1>2. CoverInv => CurrentMeansCovered
  BY DEF CoverInv
<1> QED BY <1>1, <1>2, CoverPreserved, PTL DEF JuriSpec
-----------------------------------------------------------------------------
(* Advice and Answers *)

(***************************************************************************)
(* The advice products, for all probabilities, amounts and volumes, and    *)
(* series and samples of every length.  Each answer is sound by itself, so *)
(* AdviceSound is its own inductive invariant; the work is in what the     *)
(* folds compute.  A total of values between two bounds lies between as    *)
(* many times these (the opinion, the settlement), a slope is the sum of   *)
(* the steps of the series with positive weights (the trend), a history    *)
(* that never changes has no variance (the surges), and along the sorted   *)
(* samples the area counts pairs, which the sorting permutation maps one   *)
(* to one to those the positive sample does not lose (the validation).     *)
(***************************************************************************)
(* Folds over sequences                                                    *)

(***************************************************************************)
(* FoldLeft is a recursive function over the sets of positions that takes  *)
(* the last one off.  As with sums, that one exists is proved once, for    *)
(* all the folds of Advice together; and then a fold is what n steps from  *)
(* the base lead to, one position after the other.                         *)
(***************************************************************************)
\* One step of a fold: a sum, one of squares, the terms of a slope, the values
\* that are not missing, the count of an area.
Folded(fold, s, acc, x) ==
  CASE fold = "total" -> acc + x
    [] fold = "squares" -> acc + x * x
    [] fold = "slope" -> acc + (2 * (x - 1) - (Len(s) - 1)) * s[x]
    [] fold = "provided" -> IF x = Missing THEN acc ELSE Append(acc, x)
    [] fold = "area" -> IF x[2] = 1 THEN [acc EXCEPT !.tp = @ + 1]
                        ELSE [acc EXCEPT !.auc = @ + acc.tp]

\* The positions of s up to the last one, and the value of a fold g there.
FoldedSet(fold, s, base, q, g, t) ==
  IF t = {} THEN base ELSE Folded(fold, s, g[t \ {Max(t)}], q[Max(t)])

\* g holds the fold of q over every set of its positions.
IsFold(fold, s, base, q, g) ==
  g = [t \in SUBSET DOMAIN q |-> FoldedSet(fold, s, base, q, g, t)]

\* h holds it after every number of steps.
Steps(fold, s, base, q, n, h) ==
  /\ h[0] = base
  /\ \A k \in 1..n : h[k] = Folded(fold, s, h[k - 1], q[k])

(* A finite set of numbers has a greatest one.                             *)
LEMMA Greatest ==
  ASSUME NEW n \in Nat, NEW t \in SUBSET (0..n), t # {}
  PROVE  Max(t) \in t /\ \A x \in t : Max(t) >= x
<1> DEFINE R == {n - x : x \in t}
<1>1. PICK m \in R : \A r \in R : m <= r
  <2>1. R \in SUBSET Nat
    OBVIOUS
  <2>2. PICK x \in t : TRUE
    OBVIOUS
  <2>3. n - x \in R
    OBVIOUS
  <2> HIDE DEF R
  <2> QED BY <2>1, <2>3, LeastNumber
<1>2. PICK x \in t : m = n - x
  OBVIOUS
<1>3. \A y \in t : x >= y
  <2> TAKE y \in t
  <2>1. n - y \in R /\ x \in 0..n /\ y \in 0..n
    OBVIOUS
  <2>2. n - x <= n - y
    BY <1>1, <1>2, <2>1
  <2> QED BY <2>1, <2>2
<1> QED BY <1>3 DEF Max

(* A fold over a sequence exists: over the sets of up to n positions by    *)
(* induction on n.                                                         *)
LEMMA FoldExists ==
  ASSUME NEW fold, NEW s, NEW base, NEW q, NEW n \in Nat, DOMAIN q = 1..n
  PROVE  \E g : IsFold(fold, s, base, q, g)
<1> DEFINE UpToSize(m) == {t \in SUBSET (1..n) : Cardinality(t) <= m}
           Over(g, t) == FoldedSet(fold, s, base, q, g, t)
           Folds(m, g) == g = [t \in UpToSize(m) |-> Over(g, t)]
           T == {m \in Nat : \E g : Folds(m, g)}
<1>0. /\ IsFiniteSet(1..n)
      /\ \A t \in SUBSET (1..n) : IsFiniteSet(t) /\ Cardinality(t) \in Nat
  <2>1. IsFiniteSet(1..n)
    BY FS_Interval
  <2> QED BY <2>1, FS_Subset, FS_CardinalityType
<1>1. 0 \in T
  <2>1. \A t \in UpToSize(0) : t = {}
    BY <1>0, FS_EmptySet
  <2> DEFINE g == [t \in UpToSize(0) |-> base]
  <2>2. \A t \in UpToSize(0) : Over(g, t) = base
    BY <2>1 DEF FoldedSet
  <2>3. g = [t \in UpToSize(0) |-> Over(g, t)]
    BY <2>2
  <2> HIDE DEF g, UpToSize, Over
  <2> QED BY <2>3
<1>2. ASSUME NEW m \in T PROVE m + 1 \in T
  <2>1. PICK g : Folds(m, g)
    OBVIOUS
  <2> DEFINE h == [t \in UpToSize(m + 1) |-> Over(g, t)]
  <2>2. ASSUME NEW t \in UpToSize(m + 1) PROVE Over(g, t) = Over(h, t)
    <3>1. CASE t = {}
      BY <3>1 DEF FoldedSet
    <3>2. CASE t # {}
      <4> DEFINE x == Max(t)
      <4>1. x \in t
        <5>1. t \in SUBSET (0..n)
          OBVIOUS
        <5> QED BY <5>1, <3>2, Greatest
      <4> HIDE DEF x
      <4>2. t \ {x} \in UpToSize(m)
        BY <1>0, <3>2, <4>1, Smaller
      <4>3. t \ {x} \in UpToSize(m + 1)
        BY <1>0, <4>2
      <4> HIDE DEF UpToSize
      <4>4. g[t \ {x}] = Over(g, t \ {x}) /\ h[t \ {x}] = Over(g, t \ {x})
        BY <2>1, <4>2, <4>3, Zenon
      <4> QED BY <3>2, <4>4 DEF FoldedSet, x
    <3> QED BY <3>1, <3>2
  <2> HIDE DEF UpToSize, Over
  <2>3. h = [t \in UpToSize(m + 1) |-> Over(h, t)]
    BY <2>2
  <2> HIDE DEF h
  <2>4. Folds(m + 1, h) /\ m + 1 \in Nat
    BY <2>3
  <2> QED BY <2>4
<1> HIDE DEF T
<1>3. T = Nat
  BY <1>1, <1>2, NatSetInduction DEF T
<1>4. PICK g : Folds(Cardinality(1..n), g)
  BY <1>0, <1>3 DEF T
<1>5. UpToSize(Cardinality(1..n)) = SUBSET (1..n)
  BY <1>0, FS_Subset
<1> QED BY <1>4, <1>5 DEF IsFold

(* It is what the steps lead to, one position after the other.             *)
LEMMA FoldIsSteps ==
  ASSUME NEW fold, NEW s, NEW base, NEW q, NEW n \in Nat, DOMAIN q = 1..n,
         NEW g, IsFold(fold, s, base, q, g)
  PROVE  \E h : Steps(fold, s, base, q, n, h) /\ DOMAIN h = 0..n /\ h[n] = g[DOMAIN q]
<1> DEFINE h == [k \in 0..n |-> g[1..k]]
<1>1. \A t \in SUBSET (1..n) : g[t] = FoldedSet(fold, s, base, q, g, t)
  BY DEF IsFold
<1>2. h[0] = base
  <2>1. 1..0 = {} /\ 0 \in 0..n
    OBVIOUS
  <2> QED BY <1>1, <2>1 DEF FoldedSet
<1>3. ASSUME NEW k \in 1..n PROVE h[k] = Folded(fold, s, h[k - 1], q[k])
  <2>1. 1..k \in SUBSET (1..n) /\ 1..k # {} /\ k \in 0..n /\ k - 1 \in 0..n
    OBVIOUS
  <2>2. Max(1..k) = k
    <3>1. 1..k \in SUBSET (0..n) /\ k \in 1..k
      BY <2>1
    <3>2. Max(1..k) \in 1..k /\ Max(1..k) >= k
      BY <3>1, <2>1, Greatest
    <3> QED BY <3>2
  <2>3. (1..k) \ {k} = 1..(k - 1)
    OBVIOUS
  <2>4. g[1..k] = Folded(fold, s, g[(1..k) \ {k}], q[k])
    BY <1>1, <2>1, <2>2 DEF FoldedSet
  <2> QED BY <2>1, <2>3, <2>4
<1>4. h[n] = g[DOMAIN q]
  OBVIOUS
<1> HIDE DEF h
<1>5. DOMAIN h = 0..n
  BY DEF h
<1> QED BY <1>2, <1>3, <1>4, <1>5 DEF Steps

\* A fold of Advice is what its steps lead to.
LeadsTo(fold, s, base, q, n, value) ==
  \E h : Steps(fold, s, base, q, n, h) /\ DOMAIN h = 0..n /\ h[n] = value

(* Total and Squares add up the values and their squares,                  *)
LEMMA TotalSteps ==
  ASSUME NEW s, NEW n \in Nat, DOMAIN s = 1..n
  PROVE  LeadsTo("total", s, 0, s, n, Total(s))
<1> DEFINE iter == CHOOSE g : g = [t \in SUBSET DOMAIN s |->
                     IF t = {} THEN 0 ELSE g[t \ {Max(t)}] + s[Max(t)]]
<1>1. \A g : IsFold("total", s, 0, s, g) <=>
               g = [t \in SUBSET DOMAIN s |->
                      IF t = {} THEN 0 ELSE g[t \ {Max(t)}] + s[Max(t)]]
  BY DEF IsFold, FoldedSet, Folded
<1>2. IsFold("total", s, 0, s, iter)
  BY <1>1, FoldExists
<1>3. Total(s) = iter[DOMAIN s]
  BY DEF Total, FoldLeft, MapThenFoldSet
<1> HIDE DEF iter
<1> QED BY <1>2, <1>3, FoldIsSteps DEF LeadsTo

LEMMA SquaresSteps ==
  ASSUME NEW s, NEW n \in Nat, DOMAIN s = 1..n
  PROVE  LeadsTo("squares", s, 0, s, n, Squares(s))
<1> DEFINE iter == CHOOSE g : g = [t \in SUBSET DOMAIN s |->
                     IF t = {} THEN 0 ELSE g[t \ {Max(t)}] + s[Max(t)] * s[Max(t)]]
<1>1. \A g : IsFold("squares", s, 0, s, g) <=>
               g = [t \in SUBSET DOMAIN s |->
                      IF t = {} THEN 0 ELSE g[t \ {Max(t)}] + s[Max(t)] * s[Max(t)]]
  BY DEF IsFold, FoldedSet, Folded
<1>2. IsFold("squares", s, 0, s, iter)
  BY <1>1, FoldExists
<1>3. Squares(s) = iter[DOMAIN s]
  BY DEF Squares, FoldLeft, MapThenFoldSet
<1> HIDE DEF iter
<1> QED BY <1>2, <1>3, FoldIsSteps DEF LeadsTo

(* Slope the terms of the positions,                                       *)
LEMMA SlopeSteps ==
  ASSUME NEW s, NEW n \in Nat, DOMAIN s = 1..n
  PROVE  LeadsTo("slope", s, 0, [i \in 1..n |-> i], n, Slope(s))
<1> DEFINE q == [i \in DOMAIN s |-> i]
           Over(g, t) == IF t = {} THEN 0
                       ELSE g[t \ {Max(t)}] + (2 * (q[Max(t)] - 1) - (Len(s) - 1)) * s[q[Max(t)]]
           iter == CHOOSE g : g = [t \in SUBSET DOMAIN q |-> Over(g, t)]
<1>1. \A g : IsFold("slope", s, 0, q, g) <=> g = [t \in SUBSET DOMAIN q |-> Over(g, t)]
  BY DEF IsFold, FoldedSet, Folded
<1>2. DOMAIN q = 1..n
  OBVIOUS
<1>3. IsFold("slope", s, 0, q, iter)
  <2> HIDE DEF q, Over
  <2>1. PICK g : IsFold("slope", s, 0, q, g)
    BY <1>2, FoldExists
  <2> QED BY <2>1, <1>1
<1>4. Slope(s) = iter[DOMAIN q]
  BY DEF Slope, FoldLeftDomain, FoldLeft, MapThenFoldSet
<1> HIDE DEF iter, Over
<1>5. q = [i \in 1..n |-> i]
  OBVIOUS
<1> HIDE DEF q
<1> QED BY <1>2, <1>3, <1>4, <1>5, FoldIsSteps DEF LeadsTo

(* Provided puts together the values that are not missing,                 *)
LEMMA ProvidedSteps ==
  ASSUME NEW s, NEW n \in Nat, DOMAIN s = 1..n
  PROVE  LeadsTo("provided", s, <<>>, s, n, Provided(s))
<1> DEFINE Over(g, t) ==
             IF t = {} THEN <<>>
             ELSE IF s[Max(t)] = Missing THEN g[t \ {Max(t)}]
                  ELSE Append(g[t \ {Max(t)}], s[Max(t)])
           iter == CHOOSE g : g = [t \in SUBSET DOMAIN s |-> Over(g, t)]
<1>1. \A g : IsFold("provided", s, <<>>, s, g) <=> g = [t \in SUBSET DOMAIN s |-> Over(g, t)]
  BY DEF IsFold, FoldedSet, Folded
<1>2. IsFold("provided", s, <<>>, s, iter)
  BY <1>1, FoldExists
<1>3. Provided(s) = iter[DOMAIN s]
  BY DEF Provided, FoldLeft, MapThenFoldSet
<1> HIDE DEF iter
<1> QED BY <1>2, <1>3, FoldIsSteps DEF LeadsTo

(* and Auc counts along the sorted samples.                                *)
LEMMA AreaSteps ==
  ASSUME NEW s, NEW n \in Nat, DOMAIN s = 1..n
  PROVE  \E acc : Auc(s) = acc.auc
                  /\ LeadsTo("area", s, [tp |-> 0, auc |-> 0], InOrder(s), n, acc)
<1> DEFINE q == InOrder(s)
           zero == [tp |-> 0, auc |-> 0]
           Over(g, t) ==
             IF t = {} THEN zero
             ELSE IF q[Max(t)][2] = 1 THEN [g[t \ {Max(t)}] EXCEPT !.tp = @ + 1]
                  ELSE [g[t \ {Max(t)}] EXCEPT !.auc = @ + g[t \ {Max(t)}].tp]
           iter == CHOOSE g : g = [t \in SUBSET DOMAIN q |-> Over(g, t)]
<1>1. \A g : IsFold("area", s, zero, q, g) <=> g = [t \in SUBSET DOMAIN q |-> Over(g, t)]
  BY DEF IsFold, FoldedSet, Folded
<1>2. DOMAIN q = 1..n
  BY DEF InOrder
<1>3. IsFold("area", s, zero, q, iter)
  BY <1>1, <1>2, FoldExists
<1>4. Auc(s) = iter[DOMAIN q].auc
  BY DEF Auc, FoldLeft, MapThenFoldSet
<1> HIDE DEF iter, Over, q
<1> QED BY <1>2, <1>3, <1>4, FoldIsSteps DEF LeadsTo, q

(* A set of numbers has a least one, which Min is.                         *)
LEMMA LeastOf ==
  ASSUME NEW t \in SUBSET Nat, t # {}
  PROVE  Min(t) \in t /\ \A x \in t : Min(t) <= x
<1>1. PICK m \in t : \A x \in t : m <= x
  BY LeastNumber
<1> QED BY <1>1 DEF Min

\* The first n values of s are between lo and hi.
AllWithin(s, n, lo, hi) == \A i \in 1..n : s[i] \in lo..hi

(* A total lies between as many times the least and the greatest value,    *)
(* and above the first if one value does.                                  *)
LEMMA TotalBounds ==
  ASSUME NEW s, NEW n \in Nat, DOMAIN s = 1..n, NEW lo \in Int, NEW hi \in Int,
         AllWithin(s, n, lo, hi)
  PROVE  /\ Total(s) \in Int /\ lo * n <= Total(s) /\ Total(s) <= hi * n
         /\ (\E i \in 1..n : s[i] > lo) => lo * n < Total(s)
<1>1. PICK h : Steps("total", s, 0, s, n, h) /\ h[n] = Total(s)
  BY TotalSteps DEF LeadsTo
<1>2. h[0] = 0 /\ \A k \in 1..n : h[k] = h[k - 1] + s[k]
  BY <1>1 DEF Steps, Folded
<1> DEFINE More(k) == \E i \in 1..k : s[i] > lo
           S == {k \in Nat : k <= n => /\ h[k] \in Int /\ lo * k <= h[k] /\ h[k] <= hi * k
                                      /\ (More(k) => lo * k < h[k])}
<1>3. 0 \in S
  BY <1>2
<1>4. ASSUME NEW k \in S PROVE k + 1 \in S
  <2>1. SUFFICES ASSUME k + 1 <= n
                 PROVE  /\ h[k + 1] \in Int
                        /\ lo * (k + 1) <= h[k + 1] /\ h[k + 1] <= hi * (k + 1)
                        /\ More(k + 1) => lo * (k + 1) < h[k + 1]
    OBVIOUS
  <2>2. h[k] \in Int /\ lo * k <= h[k] /\ h[k] <= hi * k /\ (More(k) => lo * k < h[k])
    BY <2>1
  <2>3. k + 1 \in 1..n /\ (k + 1) - 1 = k
    BY <2>1
  <2>4. h[k + 1] = h[k] + s[k + 1] /\ s[k + 1] \in lo..hi
    BY <1>2, <2>3 DEF AllWithin
  <2>5. lo * (k + 1) = lo * k + lo /\ hi * (k + 1) = hi * k + hi /\ lo * k \in Int /\ hi * k \in Int
    OBVIOUS
  <2>6. More(k + 1) => More(k) \/ s[k + 1] > lo
    <3>1. 1..(k + 1) = (1..k) \cup {k + 1}
      OBVIOUS
    <3> QED BY <3>1
  <2> HIDE DEF More
  <2> QED BY <2>2, <2>4, <2>5, <2>6
<1>5. S \in SUBSET Nat
  OBVIOUS
<1> HIDE DEF S
<1>6. S = Nat
  BY <1>3, <1>4, <1>5, NatSetInduction
<1> QED BY <1>1, <1>6 DEF S

(* What Provided keeps are the values that are not missing.                *)
LEMMA ProvidedShape ==
  ASSUME NEW s \in Seq(Signals)
  PROVE  Provided(s) \in Seq(Shares) /\ Range(Provided(s)) = Given(Range(s))
<1> DEFINE n == Len(s)
           Seen(k) == {s[i] : i \in 1..k}
<1>1. n \in Nat /\ DOMAIN s = 1..n /\ \A i \in 1..n : s[i] \in Signals
  OBVIOUS
<1>2. PICK h : Steps("provided", s, <<>>, s, n, h) /\ h[n] = Provided(s)
  BY <1>1, ProvidedSteps DEF LeadsTo
<1>3. /\ h[0] = <<>>
      /\ \A k \in 1..n : h[k] = IF s[k] = Missing THEN h[k - 1] ELSE Append(h[k - 1], s[k])
  BY <1>2 DEF Steps, Folded
<1> DEFINE S == {k \in Nat : k <= n => h[k] \in Seq(Shares) /\ Range(h[k]) = Given(Seen(k))}
<1>4. 0 \in S
  <2>1. h[0] \in Seq(Shares) /\ Range(<<>>) = {}
    BY <1>3 DEF Range
  <2>2. Given(Seen(0)) = {}
    BY DEF Given
  <2> QED BY <1>3, <2>1, <2>2
<1>5. ASSUME NEW k \in S PROVE k + 1 \in S
  <2>1. SUFFICES ASSUME k + 1 <= n
                 PROVE  h[k + 1] \in Seq(Shares) /\ Range(h[k + 1]) = Given(Seen(k + 1))
    OBVIOUS
  <2>2. h[k] \in Seq(Shares) /\ Range(h[k]) = Given(Seen(k))
    BY <2>1, <1>1
  <2>3. k + 1 \in 1..n /\ (k + 1) - 1 = k
    BY <2>1, <1>1
  <2>4. Seen(k + 1) = Seen(k) \cup {s[k + 1]}
    <3>1. 1..(k + 1) = (1..k) \cup {k + 1}
      OBVIOUS
    <3> QED BY <3>1
  <2>5. CASE s[k + 1] = Missing
    <3>1. h[k + 1] = h[k]
      BY <1>3, <2>3, <2>5
    <3> QED BY <2>2, <2>4, <2>5, <3>1 DEF Given
  <2>6. CASE s[k + 1] # Missing
    <3>1. h[k + 1] = Append(h[k], s[k + 1]) /\ s[k + 1] \in Shares
      BY <1>1, <1>3, <2>3, <2>6 DEF Signals
    <3>2. Range(Append(h[k], s[k + 1])) = Range(h[k]) \cup {s[k + 1]}
      <4> DEFINE g == h[k]
                 x == s[k + 1]
      <4>1. g \in Seq(Shares) /\ x \in Shares
        BY <2>2, <3>1
      <4> HIDE DEF g, x
      <4>2. /\ DOMAIN g = 1..Len(g) /\ Len(g) \in Nat /\ DOMAIN Append(g, x) = 1..(Len(g) + 1)
            /\ \A i \in 1..Len(g) : Append(g, x)[i] = g[i]
            /\ Append(g, x)[Len(g) + 1] = x
        BY <4>1
      <4> HIDE DEF S
      <4>3. Range(Append(g, x)) = Range(g) \cup {x}
        <5>1. ASSUME NEW y \in Range(Append(g, x)) PROVE y \in Range(g) \cup {x}
          <6>1. PICK i \in 1..(Len(g) + 1) : Append(g, x)[i] = y
            BY <4>2 DEF Range
          <6>2. i \in 1..Len(g) \/ i = Len(g) + 1
            BY <4>2
          <6> QED BY <4>2, <6>1, <6>2 DEF Range
        <5>2. ASSUME NEW y \in Range(g) PROVE y \in Range(Append(g, x))
          <6>1. PICK i \in 1..Len(g) : g[i] = y
            BY <4>2 DEF Range
          <6>2. i \in 1..(Len(g) + 1)
            BY <4>2
          <6> QED BY <4>2, <6>1, <6>2 DEF Range
        <5>3. x \in Range(Append(g, x))
          <6>1. Len(g) + 1 \in 1..(Len(g) + 1)
            BY <4>2
          <6> QED BY <4>2, <6>1 DEF Range
        <5> QED BY <5>1, <5>2, <5>3
      <4> QED BY <4>3 DEF g, x
    <3>3. Append(h[k], s[k + 1]) \in Seq(Shares)
      BY <2>2, <3>1
    <3> QED BY <2>2, <2>4, <2>6, <3>1, <3>2, <3>3 DEF Given
  <2> QED BY <2>5, <2>6
<1>6. S \in SUBSET Nat
  OBVIOUS
<1> HIDE DEF S
<1>7. S = Nat
  BY <1>4, <1>5, <1>6, NatSetInduction
<1>8. h[n] \in Seq(Shares) /\ Range(h[n]) = Given(Seen(n))
  <2>1. n \in S /\ n <= n
    BY <1>1, <1>7
  <2> HIDE DEF n, Seen
  <2> QED BY <2>1 DEF S
<1>9. Seen(n) = Range(s)
  BY <1>1 DEF Range
<1> QED BY <1>2, <1>8, <1>9
-----------------------------------------------------------------------------
(* Settlement Optimizer, Second Opinion and ConciliaIA                     *)

\* The answer of a product to a request.
Reported(product, asked, says) ==
  advice' = [product |-> product, asked |-> asked, says |-> says]

(* What it says is nothing the other products have to answer for.          *)
LEMMA OnlyItsOwn ==
  ASSUME NEW product, NEW asked, NEW says, Reported(product, asked, says)
  PROVE  /\ product # "settlement-optimizer" => SettlementIsRational'
         /\ product # "second-opinion" => OpinionWithinSignals'
         /\ product # "concilia" => ConciliaIsPrior'
         /\ product # "early-warning" => SeverityFollowsVolume'
         /\ product # "forecasting" => TrendFollowsSeries'
         /\ product # "validation" => AucCountsPairs'
BY DEF Reported, SettlementIsRational, OpinionWithinSignals, ConciliaIsPrior,
       SeverityFollowsVolume, TrendFollowsSeries, AucCountsPairs, Says

(* A blend is a probability, in half per cents.                            *)
LEMMA BlendIsShare ==
  ASSUME NEW a \in Signals, NEW b \in Signals PROVE Blend(a, b) \in 0..200
<1> DEFINE g == Provided(<<a, b>>)
           n == Len(g)
<1>1. g \in Seq(Shares)
  <2>1. << a, b >> \in Seq(Signals)
    OBVIOUS
  <2> QED BY <2>1, ProvidedShape
<1>2. Blend(a, b) = IF g = <<>> THEN 100 ELSE (2 * Total(g)) \div n
  BY DEF Blend
<1> HIDE DEF g
<1>3. CASE g = <<>>
  BY <1>2, <1>3
<1>4. CASE g # <<>>
  <2>1. n \in Nat \ {0} /\ DOMAIN g = 1..n
    BY <1>1, <1>4
  <2>2. AllWithin(g, n, 0, 100)
    <3>1. \A i \in 1..n : g[i] \in Shares
      BY <1>1, <2>1
    <3>2. Shares \subseteq 0..100
      BY AdviceAssumption
    <3> QED BY <3>1, <3>2 DEF AllWithin
  <2>3. Total(g) \in Int /\ 0 * n <= Total(g) /\ Total(g) <= 100 * n
    BY <2>1, <2>2, TotalBounds
  <2> HIDE DEF n
  <2>4. (2 * Total(g)) \div n \in 0..200
    <3> DEFINE T == 2 * Total(g)
               d == T \div n
    <3>1. T \in Nat /\ T <= 200 * n
      BY <2>1, <2>3
    <3> HIDE DEF T
    <3>2. d \in Int /\ n * d \in Int /\ n * (d + 1) \in Int /\ n * d <= T /\ T < n * (d + 1)
      BY <2>1, <3>1
    <3> HIDE DEF d
    <3>3. d >= 0
      <4>1. SUFFICES ASSUME d + 1 <= 0 PROVE FALSE
        BY <3>2
      <4>2. (d + 1) * n <= 0 * n
        BY <3>2, <4>1, <2>1, ProductGrows
      <4>3. (d + 1) * n = n * (d + 1) /\ 0 * n = 0
        BY <2>1, <3>2
      <4> QED BY <3>1, <3>2, <4>2, <4>3
    <3>4. d <= 200
      <4>1. SUFFICES ASSUME 201 <= d PROVE FALSE
        BY <3>2
      <4>2. 201 * n <= d * n
        BY <3>2, <4>1, <2>1, ProductGrows
      <4>3. d * n = n * d
        BY <2>1, <3>2
      <4>4. 201 * n <= T
        BY <2>1, <3>1, <3>2, <4>2, <4>3
      <4>5. n \in Nat \ {0} /\ T <= 200 * n
        BY <2>1, <3>1
      <4> HIDE DEF T, d
      <4> QED BY <3>1, <4>4, <4>5
    <3>5. d \in 0..200
      BY <3>2, <3>3, <3>4
    <3> QED BY <3>5 DEF d, T
  <2> QED BY <1>2, <1>4, <2>4
<1> QED BY <1>3, <1>4

(* A settlement is between the two expectations and within the value of    *)
(* the case (optimize.py 29-60).                                           *)
LEMMA SettlementSound ==
  ASSUME NEW c \in Lawsuit, Reported("settlement-optimizer", c, Optimize(c))
  PROVE  SettlementIsRational'
<1> DEFINE p == Blend(c.prob, c.provimento)
           v == c.valor
           a == c.custoAutor
           r == c.custoReu
           q == p * v
<1>1. p \in 0..200 /\ v \in Nat /\ a \in Nat /\ r \in Nat
  <2>1. c.prob \in Signals /\ c.provimento \in Signals
    BY DEF Lawsuit
  <2>2. v \in Amounts /\ a \in Amounts /\ r \in Amounts
    BY DEF Lawsuit
  <2>3. p \in 0..200
    BY <2>1, BlendIsShare
  <2>4. v \in Nat /\ a \in Nat /\ r \in Nat
    BY <2>2, AdviceAssumption
  <2> QED BY <2>3, <2>4
<1>2. q \in Nat /\ q <= 200 * v
  <2>1. p \in Nat /\ p <= 200
    BY <1>1
  <2>2. 0 * v <= p * v /\ p * v <= 200 * v
    BY <2>1, <1>1, ProductGrows
  <2> QED BY <1>1, <2>1, <2>2
<1> DEFINE low == q - 200 * a
           high == q + 200 * r
           piso == IF low > 0 THEN low ELSE 0
           teto == Least(200 * v, high)
<1>3. Optimize(c) = IF high >= low THEN <<"ACORDAR", piso, teto, piso + teto>> ELSE <<"LITIGAR">>
  BY DEF Optimize, Expected
<1> HIDE DEF p, v, a, r, q
<1>4. /\ high >= low /\ piso \in Nat /\ teto \in Int
      /\ piso + teto >= 2 * low /\ piso + teto <= 2 * high /\ piso + teto \in 0..400 * v
  BY <1>1, <1>2 DEF Least
<1> HIDE DEF low, high, piso, teto
<1>5. advice'.asked = c /\ advice'.says = <<"ACORDAR", piso, teto, piso + teto>>
  BY <1>3, <1>4 DEF Reported
<1> DEFINE t == piso + teto
<1>6. t >= 2 * low /\ t <= 2 * high /\ t \in 0..400 * v
  BY <1>4
<1> HIDE DEF t
<1>7. advice'.says[1] = "ACORDAR" /\ advice'.says[4] = t
  BY <1>5 DEF t
<1>8. low = p * c.valor - 200 * c.custoAutor /\ high = p * c.valor + 200 * c.custoReu /\ v = c.valor
  BY DEF low, high, q, v, a, r
<1>9. /\ advice'.says[1] = "ACORDAR"
      /\ advice'.says[4] >= 2 * (p * c.valor - 200 * c.custoAutor)
      /\ advice'.says[4] <= 2 * (p * c.valor + 200 * c.custoReu)
      /\ advice'.says[4] \in 0..400 * c.valor
  BY <1>6, <1>7, <1>8
<1> QED BY <1>5, <1>9 DEF SettlementIsRational, p

(* The verdict on the mean lies between the verdicts of the signals        *)
(* (consensus.py 34-57).                                                   *)
LEMMA OpinionSound ==
  ASSUME NEW signals \in SignalLists, NEW opinion \in Synthesize(signals),
         Reported("second-opinion", signals, opinion)
  PROVE  OpinionWithinSignals'
<1> DEFINE g == Provided(signals)
           n == Len(g)
           spread == Max(Range(g)) - Min(Range(g))
           own == {Rank(Verdict(s, 1)) : s \in Given(Range(signals))}
<1>1. g \in Seq(Shares) /\ Range(g) = Given(Range(signals))
  <2>1. signals \in Seq(Signals)
    <3>1. PICK a \in Signals, b \in Signals, c \in Signals : signals = << a, b, c >>
      BY DEF SignalLists
    <3>2. << a, b, c >> \in Seq(Signals)
      OBVIOUS
    <3> QED BY <3>1, <3>2
  <2> QED BY <2>1, ProvidedShape
<1>2. advice'.asked = signals /\ advice'.says = opinion
  BY DEF Reported
<1>3. opinion = <<"sem_sinais">> \/ (g # <<>> /\ opinion[1] \in Verdicts(Total(g), n, spread))
  BY DEF Synthesize
<1>4. SUFFICES ASSUME g # <<>>, NEW v \in Verdicts(Total(g), n, spread)
               PROVE  Rank(v) \in Min(own)..Max(own)
  BY <1>2, <1>3 DEF OpinionWithinSignals
<1> HIDE DEF g, spread
<1>5. n \in Nat \ {0} /\ DOMAIN g = 1..n /\ \A i \in 1..n : g[i] \in 0..100
  <2>1. n \in Nat \ {0} /\ DOMAIN g = 1..n /\ \A i \in 1..n : g[i] \in Shares
    BY <1>1, <1>4
  <2>2. Shares \subseteq 0..100
    BY AdviceAssumption
  <2> QED BY <2>1, <2>2
<1>6. ASSUME NEW i \in 1..n
      PROVE  LET one == Rank(Verdict(g[i], 1)) IN
             /\ one \in 0..2
             /\ (one <= 1 => g[i] \in 0..59) /\ (one <= 0 => g[i] \in 0..39)
             /\ (one >= 1 => g[i] \in 40..100) /\ (one >= 2 => g[i] \in 60..100)
  <2> DEFINE x == g[i]
  <2>1. x \in 0..100
    BY <1>5
  <2> HIDE DEF x
  <2>2. Rank(Verdict(x, 1)) = IF x >= 60 THEN 2 ELSE IF x >= 40 THEN 1 ELSE 0
    BY <2>1 DEF Rank, Verdict
  <2> DEFINE one == Rank(Verdict(x, 1))
  <2>3. one = IF x >= 60 THEN 2 ELSE IF x >= 40 THEN 1 ELSE 0
    BY <2>2
  <2> HIDE DEF one
  <2>4. /\ one \in 0..2
        /\ (one <= 1 => x \in 0..59) /\ (one <= 0 => x \in 0..39)
        /\ (one >= 1 => x \in 40..100) /\ (one >= 2 => x \in 60..100)
    BY <2>1, <2>3
  <2> QED BY <2>4 DEF x, one
<1>7. own = {Rank(Verdict(g[i], 1)) : i \in 1..n}
  BY <1>1, <1>5 DEF Range
<1>20. spread \in Nat /\ (spread > 0 => \A k \in Int : (\A i \in 1..n : g[i] >= k) => \E i \in 1..n : g[i] > k)
  <2>1. Range(g) \in SUBSET (0..100) /\ Range(g) # {} /\ Range(g) \in SUBSET Nat
    <3>1. 1 \in 1..n
      BY <1>5
    <3>2. Range(g) = {g[i] : i \in 1..n}
      BY <1>5 DEF Range
    <3>3. \A x \in Range(g) : x \in 0..100
      BY <3>2, <1>5
    <3>4. Range(g) # {}
      BY <3>1, <3>2
    <3>5. ASSUME NEW x \in Range(g) PROVE x \in Nat
      <4>1. x \in 0..100
        BY <3>3
      <4> QED BY <4>1
    <3>6. Range(g) \in SUBSET (0..100)
      BY <3>3
    <3>7. Range(g) \in SUBSET Nat
      BY <3>5
    <3> QED BY <3>4, <3>6, <3>7
  <2>2. 100 \in Nat
    OBVIOUS
  <2>3. Max(Range(g)) \in Range(g) /\ Min(Range(g)) \in Range(g) /\ Min(Range(g)) <= Max(Range(g))
    BY <2>1, <2>2, Greatest, LeastOf
  <2>4. PICK i \in 1..n, j \in 1..n : Max(Range(g)) = g[i] /\ Min(Range(g)) = g[j]
    BY <2>3, <1>5 DEF Range
  <2>5. g[i] \in 0..100 /\ g[j] \in 0..100
    BY <1>5
  <2>6. spread = g[i] - g[j] /\ g[j] <= g[i]
    BY <2>3, <2>4 DEF spread
  <2> HIDE DEF n
  <2>7. spread \in Nat /\ (spread > 0 => g[i] > g[j])
    <3> DEFINE x == g[i]
               y == g[j]
    <3>1. x \in Nat /\ y \in Nat /\ spread = x - y /\ y <= x
      BY <2>5, <2>6
    <3> HIDE DEF x, y
    <3>2. spread \in Nat /\ (spread > 0 => x > y)
      BY <3>1
    <3> QED BY <3>2 DEF x, y
  <2>8. ASSUME spread > 0, NEW k \in Int, \A m \in 1..n : g[m] >= k
        PROVE  \E m \in 1..n : g[m] > k
    <3>1. g[j] >= k /\ g[i] > g[j]
      BY <2>7, <2>8
    <3>2. g[i] > k
      BY <3>1, <2>5
    <3> QED BY <3>2
  <2> QED BY <2>7, <2>8
<1> DEFINE t == Total(g)
           rank == Rank(v)
<1>21. PICK u \in {t, t - Least(1, spread)} : v = Verdict(u, n)
  BY DEF Verdicts
<1>8. rank = IF u >= 60 * n THEN 2 ELSE IF u >= 40 * n THEN 1 ELSE 0
  BY <1>21 DEF Rank, Verdict
<1> HIDE DEF own, n, t
<1>9. own \in SUBSET (0..2) /\ Rank(Verdict(g[1], 1)) \in own
  <2>1. \A i \in 1..n : Rank(Verdict(g[i], 1)) \in 0..2
    BY <1>5, <1>6
  <2>2. 1 \in 1..n
    BY <1>5
  <2> QED BY <2>1, <2>2, <1>7
<1>10. Max(own) \in own /\ \A i \in 1..n : Max(own) >= Rank(Verdict(g[i], 1))
  <2>1. 2 \in Nat /\ own \in SUBSET (0..2) /\ own # {}
    BY <1>9
  <2>2. Max(own) \in own /\ \A x \in own : Max(own) >= x
    BY <2>1, Greatest
  <2> QED BY <2>2, <1>7
<1>11. Min(own) \in own /\ \A i \in 1..n : Min(own) <= Rank(Verdict(g[i], 1))
  <2>1. own \in SUBSET Nat /\ own # {}
    BY <1>9
  <2> QED BY <2>1, <1>7, LeastOf
<1>22. \A lo, hi \in Int : AllWithin(g, n, lo, hi) =>
          /\ t \in Int /\ lo * n <= t /\ t <= hi * n
          /\ (\E i \in 1..n : g[i] > lo) => lo * n < t
  BY <1>5, TotalBounds DEF t
<1>23. t \in Int
  <2>1. AllWithin(g, n, 0, 100)
    BY <1>5 DEF AllWithin
  <2> QED BY <2>1, <1>22
<1>12. \A lo, hi \in Int : AllWithin(g, n, lo, hi) => u \in Int /\ lo * n <= u /\ u <= hi * n
  <2> SUFFICES ASSUME NEW lo \in Int, NEW hi \in Int, AllWithin(g, n, lo, hi)
               PROVE  u \in Int /\ lo * n <= u /\ u <= hi * n
    OBVIOUS
  <2>1. lo * n <= t /\ t <= hi * n /\ lo * n \in Int /\ hi * n \in Int
    BY <1>22, <1>5
  <2>2. spread > 0 => lo * n < t
    <3>1. \A i \in 1..n : g[i] >= lo
      BY <1>5 DEF AllWithin
    <3> QED BY <3>1, <1>20, <1>22
  <2>3. u = t \/ (spread > 0 /\ u = t - 1)
    BY <1>20, <1>21, <1>23 DEF Least
  <2> HIDE DEF spread
  <2> QED BY <2>1, <2>2, <2>3, <1>23
<1>13. u \in Int
  <2>1. AllWithin(g, n, 0, 100)
    BY <1>5 DEF AllWithin
  <2> QED BY <2>1, <1>12
<1>14. rank = IF u >= 60 * n THEN 2 ELSE IF u >= 40 * n THEN 1 ELSE 0
  BY <1>8
<1> HIDE DEF rank
<1>15. Max(own) \in 0..2 /\ Min(own) \in 0..2
  BY <1>9, <1>10, <1>11
<1>16. rank <= Max(own)
  <2>1. CASE Max(own) = 2
    BY <2>1, <1>14, <1>5
  <2>2. CASE Max(own) = 1
    <3>1. AllWithin(g, n, 0, 59)
      BY <2>2, <1>5, <1>6, <1>10 DEF AllWithin
    <3>2. u <= 59 * n
      BY <3>1, <1>12
    <3> QED BY <2>2, <3>2, <1>5, <1>13, <1>14
  <2>3. CASE Max(own) = 0
    <3>1. AllWithin(g, n, 0, 39)
      BY <2>3, <1>5, <1>6, <1>10 DEF AllWithin
    <3>2. u <= 39 * n
      BY <3>1, <1>12
    <3> QED BY <2>3, <3>2, <1>5, <1>13, <1>14
  <2> QED BY <2>1, <2>2, <2>3, <1>15
<1>17. Min(own) <= rank
  <2>1. CASE Min(own) = 0
    BY <2>1, <1>14, <1>5
  <2>2. CASE Min(own) = 1
    <3>1. AllWithin(g, n, 40, 100)
      BY <2>2, <1>5, <1>6, <1>11 DEF AllWithin
    <3>2. 40 * n <= u
      BY <3>1, <1>12
    <3> QED BY <2>2, <3>2, <1>5, <1>13, <1>14
  <2>3. CASE Min(own) = 2
    <3>1. AllWithin(g, n, 60, 100)
      BY <2>3, <1>5, <1>6, <1>11 DEF AllWithin
    <3>2. 60 * n <= u
      BY <3>1, <1>12
    <3> QED BY <2>3, <3>2, <1>5, <1>13, <1>14
  <2> QED BY <2>1, <2>2, <2>3, <1>15
<1>18. rank \in 0..2
  BY <1>14
<1> QED BY <1>15, <1>16, <1>17, <1>18 DEF rank

(* No type of an action is a matter, so the range is that of the prior     *)
(* (recommender.py 15-22 and 79-82).                                       *)
LEMMA ConciliaSound ==
  ASSUME NEW tipo \in Tipos, NEW valor \in Amounts, NEW prob \in Signals,
         Reported("concilia", <<tipo, valor, prob>>, Recommend(tipo, valor, prob))
  PROVE  ConciliaIsPrior'
<1>1. Probability(tipo, prob) = Missing
  BY DEF Probability, Tipos, Materias
<1>2. BasePct(tipo) \in 35..65
  BY DEF Tipos, BasePct
<1> DEFINE pct == 2 * BasePct(tipo)
<1>3. Recommend(tipo, valor, prob) = SettlementRange(valor, Clamp(pct, 10, 190))
  BY <1>1 DEF Recommend
<1>4. Clamp(pct, 10, 190) = pct /\ pct \in 70..130
  BY <1>2 DEF Clamp
<1>5. valor \in Nat
  BY AdviceAssumption
<1> DEFINE x == pct * valor
<1>6. x \in Nat /\ x <= 130 * valor
  <2>1. pct * valor <= 130 * valor /\ pct * valor \in Nat
    BY <1>4, <1>5, ProductGrows
  <2> QED BY <2>1
<1>7. 200 * BasePct(tipo) * valor = 100 * x /\ \A k \in Nat : pct * valor * k = x * k
  BY <1>2, <1>5
<1> HIDE DEF x, pct
<1>8. /\ advice'.asked[1] = tipo /\ advice'.asked[2] = valor
      /\ advice'.says = SettlementRange(valor, pct)
  BY <1>3, <1>4 DEF Reported
<1>9. advice'.says = <<pct * valor * 70, pct * valor * 100, Least(valor * 20000, pct * valor * 130)>>
  BY <1>8 DEF SettlementRange
<1>10. advice'.says = <<x * 70, x * 100, Least(valor * 20000, x * 130)>>
  BY <1>7, <1>9
<1>11. /\ advice'.says[1] = x * 70 /\ advice'.says[2] = x * 100
       /\ advice'.says[3] = Least(valor * 20000, x * 130)
  BY <1>10
<1>12. /\ x * 100 = 100 * x /\ x * 70 <= x * 100 /\ x * 100 <= Least(valor * 20000, x * 130)
       /\ Least(valor * 20000, x * 130) <= 20000 * valor
  BY <1>5, <1>6 DEF Least
<1> QED BY <1>7, <1>8, <1>11, <1>12 DEF ConciliaIsPrior
-----------------------------------------------------------------------------
(* Early Warning                                                           *)

(* A total of integers is one.                                             *)
LEMMA TotalIsInt ==
  ASSUME NEW s, NEW n \in Nat, DOMAIN s = 1..n, \A i \in 1..n : s[i] \in Int
  PROVE  Total(s) \in Int
<1>1. PICK h : Steps("total", s, 0, s, n, h) /\ h[n] = Total(s)
  BY TotalSteps DEF LeadsTo
<1>2. h[0] = 0 /\ \A k \in 1..n : h[k] = h[k - 1] + s[k]
  BY <1>1 DEF Steps, Folded
<1> DEFINE S == {k \in Nat : k <= n => h[k] \in Int}
<1>3. 0 \in S
  BY <1>2
<1>4. ASSUME NEW k \in S PROVE k + 1 \in S
  <2>1. SUFFICES ASSUME k + 1 <= n PROVE h[k + 1] \in Int
    OBVIOUS
  <2>2. h[k] \in Int /\ k + 1 \in 1..n /\ (k + 1) - 1 = k
    BY <2>1
  <2>3. h[k + 1] = h[k] + s[k + 1] /\ s[k + 1] \in Int
    BY <1>2, <2>2
  <2> QED BY <2>2, <2>3
<1>5. S \in SUBSET Nat
  OBVIOUS
<1> HIDE DEF S
<1>6. S = Nat
  BY <1>3, <1>4, <1>5, NatSetInduction
<1> QED BY <1>1, <1>6 DEF S

(* Squares is the total of the squares.                                    *)
LEMMA SquaresAreTotal ==
  ASSUME NEW s, NEW n \in Nat, DOMAIN s = 1..n
  PROVE  Squares(s) = Total([i \in 1..n |-> s[i] * s[i]])
<1> DEFINE r == [i \in 1..n |-> s[i] * s[i]]
<1>1. PICK g : Steps("squares", s, 0, s, n, g) /\ g[n] = Squares(s)
  BY SquaresSteps DEF LeadsTo
<1>2. PICK h : Steps("total", r, 0, r, n, h) /\ h[n] = Total(r)
  <2>1. DOMAIN r = 1..n
    OBVIOUS
  <2> HIDE DEF r
  <2> QED BY <2>1, TotalSteps DEF LeadsTo
<1>3. g[0] = 0 /\ \A k \in 1..n : g[k] = g[k - 1] + s[k] * s[k]
  BY <1>1 DEF Steps, Folded
<1>4. h[0] = 0 /\ \A k \in 1..n : h[k] = h[k - 1] + s[k] * s[k]
  BY <1>2 DEF Steps, Folded
<1> DEFINE S == {k \in Nat : k <= n => g[k] = h[k]}
<1>5. 0 \in S
  BY <1>3, <1>4
<1>6. ASSUME NEW k \in S PROVE k + 1 \in S
  <2>1. SUFFICES ASSUME k + 1 <= n PROVE g[k + 1] = h[k + 1]
    OBVIOUS
  <2>2. g[k] = h[k] /\ k + 1 \in 1..n /\ (k + 1) - 1 = k
    BY <2>1
  <2> QED BY <1>3, <1>4, <2>2
<1>7. S \in SUBSET Nat
  OBVIOUS
<1> HIDE DEF S
<1>8. S = Nat
  BY <1>5, <1>6, <1>7, NatSetInduction
<1> QED BY <1>1, <1>2, <1>8 DEF S

(* More volume is further above the mean.                                  *)
LEMMA ExceedsGrows ==
  ASSUME NEW h, NEW n \in Nat, Len(h) = n, Total(h) \in Int, Squares(h) \in Int,
         NEW x \in Int, NEW y \in Int, x <= y, NEW k \in Nat, Exceeds(h, x, k)
  PROVE  Exceeds(h, y, k)
<1> DEFINE a == n * x - Total(h)
           b == n * y - Total(h)
           var == n * Squares(h) - Total(h) * Total(h)
           r == k * k * var
<1>1. a \in Int /\ b \in Int /\ var \in Int /\ r \in Int
  OBVIOUS
<1>2. a <= b
  <2>1. x * n <= y * n
    BY ProductGrows
  <2>2. x * n = n * x /\ y * n = n * y /\ n * x \in Int /\ n * y \in Int
    OBVIOUS
  <2> QED BY <2>1, <2>2
<1>3. var > 0 /\ a > 0 /\ a * a >= r
  BY DEF Exceeds
<1>4. Exceeds(h, y, k) <=> var > 0 /\ b > 0 /\ b * b >= r
  BY DEF Exceeds
<1> HIDE DEF a, b, var, r
<1>5. a \in Nat /\ b \in Nat /\ b > 0
  BY <1>1, <1>2, <1>3
<1>6. a * a <= b * a /\ a * b <= b * b
  BY <1>2, <1>5, ProductGrows
<1>7. a * b = b * a /\ a * a \in Int /\ a * b \in Int /\ b * b \in Int
  BY <1>5
<1>8. b * b >= r
  BY <1>1, <1>3, <1>6, <1>7
<1> QED BY <1>3, <1>4, <1>5, <1>8

(* Without deviation there is no surge.                                    *)
LEMMA ConstantHistory ==
  ASSUME NEW h, NEW n \in Nat, DOMAIN h = 1..n, Len(h) = n, NEW c \in Int,
         \A i \in 1..n : h[i] = c, NEW x, NEW k
  PROVE  ~ Exceeds(h, x, k)
<1> DEFINE r == [i \in 1..n |-> h[i] * h[i]]
<1>1. Total(h) = n * c
  <2>1. AllWithin(h, n, c, c)
    BY DEF AllWithin
  <2>2. Total(h) \in Int /\ c * n <= Total(h) /\ Total(h) <= c * n
    BY <2>1, TotalBounds
  <2>3. c * n = n * c /\ n * c \in Int
    OBVIOUS
  <2> QED BY <2>2, <2>3
<1>2. Squares(h) = n * (c * c)
  <2> DEFINE d == c * c
  <2>1. d \in Int
    OBVIOUS
  <2>2. Squares(h) = Total(r)
    BY SquaresAreTotal
  <2>3. DOMAIN r = 1..n /\ \A i \in 1..n : r[i] = d
    OBVIOUS
  <2> HIDE DEF r, d
  <2>4. AllWithin(r, n, d, d)
    BY <2>1, <2>3 DEF AllWithin
  <2>5. Total(r) \in Int /\ d * n <= Total(r) /\ Total(r) <= d * n
    BY <2>1, <2>3, <2>4, TotalBounds
  <2>6. d * n = n * d /\ n * d \in Int
    BY <2>1
  <2>7. Total(r) = n * d
    BY <2>5, <2>6
  <2> QED BY <2>2, <2>7 DEF d
<1>3. n * (n * (c * c)) = (n * c) * (n * c) /\ (n * c) * (n * c) \in Int
  OBVIOUS
<1>4. n * Squares(h) - Total(h) * Total(h) = 0
  BY <1>1, <1>2, <1>3
<1> QED BY <1>4 DEF Exceeds

(* The history of a series, and its last value.                            *)
LEMMA SeriesShape ==
  ASSUME NEW n \in Nat, n >= 1, NEW s \in SeriesOf(n)
  PROVE  /\ s \in Seq(Volumes) /\ Len(s) = n /\ DOMAIN s = 1..n
         /\ \A i \in 1..n : s[i] \in Int
         /\ Front(s) \in Seq(Volumes) /\ Len(Front(s)) = n - 1 /\ DOMAIN Front(s) = 1..(n - 1)
         /\ \A i \in 1..(n - 1) : Front(s)[i] = s[i]
         /\ Last(s) \in Int
<1>1. Volumes \subseteq Int
  BY AdviceAssumption
<1>2. s \in Seq(Volumes) /\ Len(s) = n /\ DOMAIN s = 1..n /\ \A i \in 1..n : s[i] \in Volumes
  BY DEF SeriesOf
<1>3. Front(s) = SubSeq(s, 1, n - 1)
  BY <1>2 DEF Front
<1>4. /\ SubSeq(s, 1, n - 1) \in Seq(Volumes) /\ Len(SubSeq(s, 1, n - 1)) = n - 1
      /\ DOMAIN SubSeq(s, 1, n - 1) = 1..(n - 1)
      /\ \A i \in 1..(n - 1) : SubSeq(s, 1, n - 1)[i] = s[i]
  BY <1>2
<1>5. Last(s) = s[n] /\ n \in 1..n
  BY <1>2 DEF Last
<1>6. /\ Front(s) \in Seq(Volumes) /\ Len(Front(s)) = n - 1 /\ DOMAIN Front(s) = 1..(n - 1)
      /\ \A i \in 1..(n - 1) : Front(s)[i] = s[i]
  BY <1>3, <1>4
<1>7. \A i \in 1..n : s[i] \in Int
  BY <1>1, <1>2
<1>8. Last(s) \in Int
  BY <1>5, <1>7
<1> QED BY <1>2, <1>6, <1>7, <1>8

(* More volume never lowers the severity, and one that never changed does  *)
(* not give more than MEDIUM (detect.py 22-65).                            *)
LEMMA EarlyWarningSound ==
  ASSUME NEW n \in Nat, n >= 1, NEW s \in SeriesOf(n), NEW second,
         Reported("early-warning", s, <<Severity(Front(s), Last(s)), second>>)
  PROVE  SeverityFollowsVolume'
<1> DEFINE h == Front(s)
           x == Last(s)
           m == n - 1
<1>1. /\ h \in Seq(Volumes) /\ Len(h) = m /\ DOMAIN h = 1..m /\ m \in Nat /\ x \in Int
      /\ \A i \in 1..m : h[i] \in Int
  <2>1. \A i \in 1..m : i \in 1..n
    OBVIOUS
  <2> QED BY <2>1, SeriesShape
<1> HIDE DEF h, x, m
<1>2. Total(h) \in Int /\ Squares(h) \in Int
  <2> DEFINE r == [i \in 1..m |-> h[i] * h[i]]
  <2>1. Squares(h) = Total(r)
    BY <1>1, SquaresAreTotal
  <2>2. DOMAIN r = 1..m /\ \A i \in 1..m : r[i] \in Int
    BY <1>1
  <2> HIDE DEF r
  <2>3. Total(r) \in Int /\ Total(h) \in Int
    BY <1>1, <2>2, TotalIsInt
  <2> QED BY <2>1, <2>3
<1>3. ASSUME NEW y \in Volumes, y >= x PROVE Severity(h, y) >= Severity(h, x)
  <2>1. y \in Int
    BY AdviceAssumption
  <2>2. /\ Exceeds(h, x, 4) => Exceeds(h, y, 4)
        /\ Exceeds(h, x, 3) => Exceeds(h, y, 3)
        /\ Exceeds(h, x, 2) => Exceeds(h, y, 2)
    BY <1>1, <1>2, <1>3, <2>1, ExceedsGrows
  <2>3. CASE m < 2
    BY <1>1, <2>3 DEF Severity
  <2>4. CASE m >= 2
    <3>1. Last(h) \in Int
      <4>1. m \in 1..m
        BY <1>1, <2>4
      <4> QED BY <1>1, <4>1 DEF Last
    <3>2. 2 * (x - Last(h)) >= Last(h) => 2 * (y - Last(h)) >= Last(h)
      BY <1>1, <1>3, <2>1, <3>1
    <3> QED BY <1>1, <2>2, <2>4, <3>2 DEF Severity
  <2> QED BY <1>1, <2>3, <2>4
<1>4. ASSUME Cardinality(Range(h)) = 1 PROVE Severity(h, x) <= 1
  <2>1. IsFiniteSet(Range(h)) /\ \A i \in 1..m : h[i] \in Range(h)
    <3>1. IsFiniteSet(1..m)
      BY <1>1, FS_Interval
    <3>2. Range(h) = {h[i] : i \in 1..m}
      BY <1>1 DEF Range
    <3>3. IsFiniteSet({h[i] : i \in 1..m})
      BY <3>1, ImageIsFinite
    <3> QED BY <3>2, <3>3
  <2>2. PICK c : Range(h) = {c}
    BY <1>4, <2>1, FS_Singleton
  <2>3. \A i \in 1..m : h[i] = c
    BY <2>1, <2>2
  <2>4. c \in Int
    <3>1. PICK i \in DOMAIN h : h[i] = c
      BY <2>2 DEF Range
    <3> QED BY <1>1, <3>1
  <2>5. ~ Exceeds(h, x, 4) /\ ~ Exceeds(h, x, 3)
    BY <1>1, <2>3, <2>4, ConstantHistory
  <2> QED BY <2>5 DEF Severity
<1>5. advice'.asked = s
  BY DEF Reported
<1>6. /\ \A y \in Volumes : y >= x => Severity(h, y) >= Severity(h, x)
      /\ Cardinality(Range(h)) = 1 => Severity(h, x) <= 1
  BY <1>3, <1>4
<1> QED BY <1>5, <1>6 DEF SeverityFollowsVolume, h, x
-----------------------------------------------------------------------------
(* Demand Forecasting                                                      *)

\* How much a slope owes to the step from value k to the next.
Weight(n, k) == k * (n - k)

(* The slope is the sum of the steps of the series, each with its weight.  *)
LEMMA SlopeBySteps ==
  ASSUME NEW s, NEW n \in Nat, n >= 1, Len(s) = n, DOMAIN s = 1..n, \A i \in 1..n : s[i] \in Int
  PROVE  \E b : /\ b[1] = 0 /\ b[n] = Slope(s)
                /\ \A k \in 1..(n - 1) :
                     b[k] \in Int => b[k + 1] = b[k] + Weight(n, k) * (s[k + 1] - s[k])
<1>1. PICK h : Steps("slope", s, 0, [i \in 1..n |-> i], n, h) /\ h[n] = Slope(s)
  BY SlopeSteps DEF LeadsTo
<1>2. h[0] = 0 /\ \A k \in 1..n : h[k] = h[k - 1] + (2 * (k - 1) - (n - 1)) * s[k]
  BY <1>1 DEF Steps, Folded
<1> DEFINE S == {k \in Nat : k <= n => h[k] \in Int}
<1>3. S = Nat
  <2>1. 0 \in S
    BY <1>2
  <2>2. ASSUME NEW k \in S PROVE k + 1 \in S
    <3>1. SUFFICES ASSUME k + 1 <= n PROVE h[k + 1] \in Int
      OBVIOUS
    <3>2. h[k] \in Int /\ k + 1 \in 1..n /\ (k + 1) - 1 = k
      BY <3>1
    <3>3. h[k + 1] = h[k] + (2 * ((k + 1) - 1) - (n - 1)) * s[k + 1] /\ s[k + 1] \in Int
      BY <1>2, <3>2
    <3>4. (2 * ((k + 1) - 1) - (n - 1)) * s[k + 1] \in Int
      BY <3>3
    <3> QED BY <3>2, <3>3, <3>4
  <2>3. S \in SUBSET Nat
    OBVIOUS
  <2> HIDE DEF S
  <2> QED BY <2>1, <2>2, <2>3, NatSetInduction
<1>4. \A k \in 0..n : h[k] \in Int
  <2> TAKE k \in 0..n
  <2>1. k \in S
    BY <1>3
  <2> QED BY <2>1
<1> DEFINE b == [k \in 1..n |-> h[k] + Weight(n, k) * s[k]]
<1>5. b[1] = 0
  <2>1. 1 \in 1..n /\ h[1] = h[0] + (2 * (1 - 1) - (n - 1)) * s[1] /\ s[1] \in Int
    BY <1>2
  <2>2. (2 * (1 - 1) - (n - 1)) * s[1] + (1 * (n - 1)) * s[1] = 0
    BY <2>1
  <2> QED BY <1>2, <2>1, <2>2 DEF Weight
<1>6. b[n] = Slope(s)
  <2>1. n \in 1..n /\ Weight(n, n) * s[n] = 0 /\ h[n] \in Int
    BY <1>4 DEF Weight
  <2> QED BY <1>1, <2>1
<1>7. ASSUME NEW k \in 1..(n - 1) PROVE b[k + 1] = b[k] + Weight(n, k) * (s[k + 1] - s[k])
  <2> DEFINE x == s[k]
             y == s[k + 1]
             w == Weight(n, k)
  <2>1. k \in 1..n /\ k + 1 \in 1..n /\ (k + 1) - 1 = k /\ x \in Int /\ y \in Int /\ h[k] \in Int
    BY <1>4
  <2>2. h[k + 1] = h[k] + (2 * k - (n - 1)) * y
    BY <1>2, <2>1
  <2>3. w \in Int /\ Weight(n, k + 1) = w - (2 * k - (n - 1))
    BY <2>1 DEF Weight
  <2>4. b[k] = h[k] + w * x /\ b[k + 1] = h[k + 1] + Weight(n, k + 1) * y
    BY <2>1
  <2> HIDE DEF x, y, w, b
  <2> DEFINE e == 2 * k - (n - 1)
  <2>5. e \in Int
    BY <2>1
  <2> HIDE DEF e
  <2>6. e * y + (w - e) * y = w * y /\ w * (y - x) = w * y - w * x
    BY <2>1, <2>3, <2>5
  <2>7. e * y \in Int /\ (w - e) * y \in Int /\ w * y \in Int /\ w * x \in Int
    BY <2>1, <2>3, <2>5
  <2>8. b[k + 1] = h[k] + e * y + (w - e) * y
    BY <2>2, <2>3, <2>4 DEF e
  <2>9. b[k + 1] = b[k] + w * (y - x)
    BY <2>1, <2>4, <2>6, <2>7, <2>8
  <2> QED BY <2>9 DEF w, x, y
<1> HIDE DEF b
<1> QED BY <1>5, <1>6, <1>7

(* Its steps have a weight of at least 1.                                  *)
LEMMA WeightIsPositive ==
  ASSUME NEW n \in Nat, NEW k \in 1..(n - 1) PROVE Weight(n, k) \in Nat \ {0}
<1>1. k \in Nat \ {0} /\ n - k \in Nat \ {0}
  OBVIOUS
<1> QED BY <1>1 DEF Weight

\* The series after k values has only risen, or only fallen.
RisesTo(s, k) == \A i \in 2..k : s[i] >= s[i - 1]
FallsTo(s, k) == \A i \in 2..k : s[i] <= s[i - 1]

(* The slope has the sign of the steps when they all have one.             *)
LEMMA SlopeHasSign ==
  ASSUME NEW s, NEW n \in Nat, n >= 1, Len(s) = n, DOMAIN s = 1..n, \A i \in 1..n : s[i] \in Int
  PROVE  /\ Slope(s) \in Int
         /\ RisesTo(s, n) => Slope(s) >= 0 /\ (~ FallsTo(s, n) => Slope(s) > 0)
         /\ FallsTo(s, n) => Slope(s) <= 0 /\ (~ RisesTo(s, n) => Slope(s) < 0)
<1>1. PICK b : /\ b[1] = 0 /\ b[n] = Slope(s)
               /\ \A k \in 1..(n - 1) :
                    b[k] \in Int => b[k + 1] = b[k] + Weight(n, k) * (s[k + 1] - s[k])
  BY SlopeBySteps
<1> DEFINE Signed(k) ==
             /\ b[k] \in Int
             /\ RisesTo(s, k) => b[k] >= 0 /\ (~ FallsTo(s, k) => b[k] > 0)
             /\ FallsTo(s, k) => b[k] <= 0 /\ (~ RisesTo(s, k) => b[k] < 0)
           S == {k \in Nat : k + 1 <= n => Signed(k + 1)}
<1>2. 0 \in S
  <2>1. RisesTo(s, 1) /\ FallsTo(s, 1)
    BY DEF RisesTo, FallsTo
  <2> QED BY <1>1, <2>1
<1>3. ASSUME NEW j \in S PROVE j + 1 \in S
  <2> DEFINE k == j + 1
  <2>1. SUFFICES ASSUME k + 1 <= n PROVE Signed(k + 1)
    OBVIOUS
  <2>2. k \in 1..(n - 1) /\ k \in Nat /\ k \in 1..n /\ k + 1 \in 1..n
    BY <2>1
  <2>3. Signed(k)
    BY <2>1
  <2> DEFINE w == Weight(n, k)
             d == s[k + 1] - s[k]
  <2>4. w \in Nat \ {0} /\ d \in Int
    BY <2>2, WeightIsPositive
  <2> HIDE DEF w
  <2>5. b[k + 1] = b[k] + w * d
    BY <1>1, <2>2, <2>3 DEF w
  <2>6. RisesTo(s, k + 1) <=> RisesTo(s, k) /\ d >= 0
    <3>1. \A i : i \in 2..(k + 1) <=> i \in 2..k \/ i = k + 1
      BY <2>2
    <3>2. s[k + 1] >= s[(k + 1) - 1] <=> d >= 0
      BY <2>2
    <3> HIDE DEF d, k, S
    <3> QED BY <3>1, <3>2 DEF RisesTo
  <2>7. FallsTo(s, k + 1) <=> FallsTo(s, k) /\ d <= 0
    <3>1. \A i : i \in 2..(k + 1) <=> i \in 2..k \/ i = k + 1
      BY <2>2
    <3>2. s[k + 1] <= s[(k + 1) - 1] <=> d <= 0
      BY <2>2
    <3> HIDE DEF d, k, S
    <3> QED BY <3>1, <3>2 DEF FallsTo
  <2> HIDE DEF d, k, S
  <2>8. w * d \in Int /\ (d > 0 => w * d > 0) /\ (d = 0 => w * d = 0) /\ (d < 0 => w * d < 0)
    <3>1. d > 0 => w * d > 0
      BY <2>4
    <3>2. d < 0 => w * d < 0
      BY <2>4
    <3> QED BY <2>4, <3>1, <3>2
  <2> DEFINE u == w * d
  <2>9. u \in Int /\ (d > 0 => u > 0) /\ (d = 0 => u = 0) /\ (d < 0 => u < 0) /\ b[k + 1] = b[k] + u
    BY <2>5, <2>8
  <2> HIDE DEF u
  <2> QED BY <2>3, <2>4, <2>6, <2>7, <2>9
<1>4. S \in SUBSET Nat
  OBVIOUS
<1> HIDE DEF S
<1>5. S = Nat
  BY <1>2, <1>3, <1>4, NatSetInduction
<1>6. n - 1 \in S /\ (n - 1) + 1 = n
  BY <1>5
<1>7. Signed(n)
  BY <1>6 DEF S
<1> QED BY <1>1, <1>7

(* A forecast has the trend of the series (forecast.py 20-71).             *)
LEMMA ForecastSound ==
  ASSUME NEW n \in Nat, n >= 1, NEW s \in SeriesOf(n), Reported("forecasting", s, <<Trend(s)>>)
  PROVE  TrendFollowsSeries'
<1>1. Len(s) = n /\ DOMAIN s = 1..n /\ \A i \in 1..n : s[i] \in Int
  BY SeriesShape
<1> DEFINE rises == \A i \in 2..Len(s) : s[i] >= s[i - 1]
           falls == \A i \in 2..Len(s) : s[i] <= s[i - 1]
<1>2. /\ Slope(s) \in Int
      /\ rises => Slope(s) >= 0 /\ (~ falls => Slope(s) > 0)
      /\ falls => Slope(s) <= 0 /\ (~ rises => Slope(s) < 0)
  BY <1>1, SlopeHasSign DEF RisesTo, FallsTo
<1>3. advice'.asked = s /\ advice'.says[1] = Trend(s)
  BY DEF Reported
<1>4. SUFFICES ASSUME Len(s) >= 3
               PROVE  /\ rises /\ ~falls => Trend(s) = "CRESCENTE"
                      /\ falls /\ ~rises => Trend(s) = "DECRESCENTE"
                      /\ rises /\ falls => Trend(s) = "ESTAVEL"
  BY <1>3 DEF TrendFollowsSeries
<1>5. Trend(s) = IF Slope(s) > 0 THEN "CRESCENTE"
                 ELSE IF Slope(s) < 0 THEN "DECRESCENTE" ELSE "ESTAVEL"
  BY <1>1, <1>4 DEF Trend
<1> HIDE DEF rises, falls
<1> QED BY <1>2, <1>5
-----------------------------------------------------------------------------
(* The area under the ROC curve                                            *)

\* p goes through U in the order of falling keys.
GoesThrough(p, m, U, key) ==
  /\ p \in [1..m -> U]
  /\ \A u \in U : \E i \in 1..m : p[i] = u
  /\ \A i, j \in 1..m : p[i] = p[j] => i = j
  /\ \A i, j \in 1..m : i < j => key[p[i]] >= key[p[j]]

(* A finite set can be sorted: what is left without a least element first, *)
(* then that element.                                                      *)
LEMMA SortingExists ==
  ASSUME NEW n \in Nat, NEW key \in [1..n -> Nat]
  PROVE  \E p : GoesThrough(p, n, 1..n, key)
<1> DEFINE S == {m \in Nat : \A U \in SUBSET (1..n) : Cardinality(U) = m =>
                               \E p : GoesThrough(p, m, U, key)}
<1>0. /\ IsFiniteSet(1..n) /\ Cardinality(1..n) = n
      /\ \A U \in SUBSET (1..n) : IsFiniteSet(U) /\ Cardinality(U) \in Nat
  <2>1. IsFiniteSet(1..n) /\ Cardinality(1..n) = n
    BY FS_Interval
  <2> QED BY <2>1, FS_Subset, FS_CardinalityType
<1>1. 0 \in S
  <2>1. ASSUME NEW U \in SUBSET (1..n), Cardinality(U) = 0 PROVE \E p : GoesThrough(p, 0, U, key)
    <3>1. U = {}
      BY <1>0, <2>1, FS_EmptySet
    <3>2. GoesThrough([i \in 1..0 |-> i], 0, U, key)
      BY <3>1 DEF GoesThrough
    <3> QED BY <3>2
  <2> QED BY <2>1
<1>2. ASSUME NEW m \in S PROVE m + 1 \in S
  <2>0. m \in Nat
    OBVIOUS
  <2>1. ASSUME NEW U \in SUBSET (1..n), Cardinality(U) = m + 1
        PROVE  \E p : GoesThrough(p, m + 1, U, key)
    <3>1. U # {}
      <4>1. Cardinality(U) # 0
        BY <2>1
      <4> QED BY <4>1, FS_EmptySet
    <3>2. PICK z \in U : \A u \in U : key[z] <= key[u]
      <4> DEFINE K == {key[u] : u \in U}
      <4>1. K \in SUBSET Nat /\ K # {}
        BY <3>1
      <4>2. PICK k \in K : \A l \in K : k <= l
        <5> HIDE DEF K
        <5> QED BY <4>1, LeastNumber
      <4> QED BY <4>2
    <3>3. U \ {z} \in SUBSET (1..n) /\ Cardinality(U \ {z}) = m
      BY <1>0, <2>1, <3>1, Smaller
    <3>4. PICK p : GoesThrough(p, m, U \ {z}, key)
      BY <3>3
    <3> DEFINE q == [i \in 1..(m + 1) |-> IF i = m + 1 THEN z ELSE p[i]]
    <3>5. /\ \A i \in 1..m : q[i] = p[i] /\ p[i] \in U \ {z} /\ i \in 1..(m + 1) /\ i # m + 1
          /\ q[m + 1] = z /\ m + 1 \in 1..(m + 1)
          /\ \A i \in 1..(m + 1) : i \in 1..m \/ i = m + 1
      BY <3>4 DEF GoesThrough
    <3>6. q \in [1..(m + 1) -> U]
      BY <3>5
    <3> HIDE DEF q, S
    <3>7. ASSUME NEW u \in U PROVE \E i \in 1..(m + 1) : q[i] = u
      <4>1. CASE u = z
        BY <3>5, <4>1
      <4>2. CASE u # z
        <5>1. PICK i \in 1..m : p[i] = u
          BY <3>4, <4>2 DEF GoesThrough
        <5> QED BY <3>5, <5>1
      <4> QED BY <4>1, <4>2
    <3>8. ASSUME NEW i \in 1..(m + 1), NEW j \in 1..(m + 1), q[i] = q[j] PROVE i = j
      <4>1. \A a, b \in 1..m : p[a] = p[b] => a = b
        BY <3>4 DEF GoesThrough
      <4> QED BY <3>5, <3>8, <4>1
    <3>9. ASSUME NEW i \in 1..(m + 1), NEW j \in 1..(m + 1), i < j PROVE key[q[i]] >= key[q[j]]
      <4>1. i \in 1..m
        BY <2>0, <3>9
      <4>2. CASE j = m + 1
        <5>1. q[j] = z /\ q[i] \in U /\ key[z] <= key[q[i]]
          BY <3>2, <3>5, <4>1, <4>2
        <5>2. key[z] \in Nat /\ key[q[i]] \in Nat
          BY <5>1
        <5> QED BY <5>1, <5>2
      <4>3. CASE j # m + 1
        <5>1. j \in 1..m
          BY <3>5, <4>3
        <5> QED BY <3>4, <3>5, <3>9, <4>1, <5>1 DEF GoesThrough
      <4> QED BY <4>2, <4>3
    <3> QED BY <3>6, <3>7, <3>8, <3>9 DEF GoesThrough
  <2> QED BY <2>1
<1>3. S \in SUBSET Nat
  OBVIOUS
<1> HIDE DEF S
<1>4. S = Nat
  BY <1>1, <1>2, <1>3, NatSetInduction
<1>5. n \in S /\ 1..n \in SUBSET (1..n)
  BY <1>4
<1> QED BY <1>0, <1>5 DEF S

\* A sample has a score and a label.
LEMMA SampleShape ==
  ASSUME NEW n \in Nat, NEW s \in SamplesOf(n)
  PROVE  /\ DOMAIN s = 1..n
         /\ \A i \in 1..n : s[i][1] \in {1, 2, 3} /\ s[i][2] \in {0, 1}
<1>1. s \in [1..n -> {1, 2, 3} \X {0, 1}]
  BY DEF SamplesOf
<1>2. \A i \in 1..n : s[i] \in {1, 2, 3} \X {0, 1}
  BY <1>1
<1> QED BY <1>1, <1>2

(* Validation sorts the samples: place goes once through all of them, and  *)
(* of two the earlier one does not come behind the later one.              *)
LEMMA InOrderIsSorted ==
  ASSUME NEW n \in Nat, NEW s \in SamplesOf(n)
  PROVE  \E place \in Bijection(1..n, 1..n) :
           /\ \A i, j \in 1..n : i < j => Order(s[place[i]], s[place[j]])
           /\ InOrder(s) = [i \in 1..n |-> s[place[i]]]
<1>1. DOMAIN s = 1..n /\ \A i \in 1..n : s[i][1] \in {1, 2, 3} /\ s[i][2] \in {0, 1}
  BY SampleShape
<1> DEFINE key == [i \in 1..n |-> 2 * s[i][1] + s[i][2]]
<1>2. key \in [1..n -> Nat]
  BY <1>1
<1>3. PICK p : GoesThrough(p, n, 1..n, key)
  <2> HIDE DEF key
  <2> QED BY <1>2, SortingExists
<1>4. p \in Bijection(1..n, 1..n)
  BY <1>3 DEF GoesThrough, Bijection, Injection, Surjection, IsInjective
<1>5. \A i, j \in 1..n : i < j => Order(s[p[i]], s[p[j]])
  <2> TAKE i, j \in 1..n
  <2>1. SUFFICES ASSUME i < j PROVE Order(s[p[i]], s[p[j]])
    OBVIOUS
  <2>2. p[i] \in 1..n /\ p[j] \in 1..n /\ key[p[i]] >= key[p[j]]
    BY <1>3, <2>1 DEF GoesThrough
  <2> DEFINE x == s[p[i]]
             y == s[p[j]]
  <2>3. /\ x[1] \in {1, 2, 3} /\ x[2] \in {0, 1} /\ y[1] \in {1, 2, 3} /\ y[2] \in {0, 1}
        /\ 2 * x[1] + x[2] >= 2 * y[1] + y[2]
    BY <1>1, <2>2
  <2> HIDE DEF x, y
  <2>4. Order(x, y)
    BY <2>3 DEF Order
  <2> QED BY <2>4 DEF x, y
<1> DEFINE Sorts(q) == \A i, j \in DOMAIN s : i < j => Order(s[q[i]], s[q[j]])
           place == CHOOSE q \in Bijection(DOMAIN s, DOMAIN s) : Sorts(q)
<1>6. Sorts(p) /\ p \in Bijection(DOMAIN s, DOMAIN s)
  BY <1>1, <1>4, <1>5
<1>7. InOrder(s) = [i \in DOMAIN s |-> s[place[i]]]
  BY DEF InOrder
<1>8. place \in Bijection(DOMAIN s, DOMAIN s) /\ Sorts(place)
  <2> HIDE DEF Sorts
  <2> QED BY <1>6
<1> HIDE DEF place
<1> QED BY <1>1, <1>7, <1>8

\* The pairs of positions up to k of a positive sample and a later negative one.
PairsTo(q, k) ==
  {c \in (1..k) \X (1..k) : c[1] < c[2] /\ q[c[1]][2] = 1 /\ q[c[2]][2] = 0}
PositivesTo(q, k) == {i \in 1..k : q[i][2] = 1}

(* They are finitely many.                                                 *)
LEMMA PairsAreFinite ==
  ASSUME NEW q, NEW k \in Nat
  PROVE  /\ IsFiniteSet(PairsTo(q, k)) /\ IsFiniteSet(PositivesTo(q, k))
         /\ Cardinality(PairsTo(q, k)) \in Nat /\ Cardinality(PositivesTo(q, k)) \in Nat
<1>1. IsFiniteSet(1..k)
  BY FS_Interval
<1>2. IsFiniteSet((1..k) \X (1..k))
  BY <1>1, FS_Product
<1>3. PairsTo(q, k) \in SUBSET ((1..k) \X (1..k)) /\ PositivesTo(q, k) \in SUBSET (1..k)
  BY DEF PairsTo, PositivesTo
<1>4. IsFiniteSet(PairsTo(q, k)) /\ IsFiniteSet(PositivesTo(q, k))
  BY <1>1, <1>2, <1>3, FS_Subset
<1> QED BY <1>4, FS_CardinalityType

(* A positive sample adds itself,                                          *)
LEMMA PositiveCounted ==
  ASSUME NEW q, NEW k \in Nat, q[k + 1][2] = 1
  PROVE  /\ PairsTo(q, k + 1) = PairsTo(q, k)
         /\ Cardinality(PositivesTo(q, k + 1)) = Cardinality(PositivesTo(q, k)) + 1
<1>1. \A i : i \in 1..(k + 1) <=> i \in 1..k \/ i = k + 1
  OBVIOUS
<1>2. \A i \in 1..k : ~ (k + 1 < i) /\ i # k + 1
  OBVIOUS
<1>3. PairsTo(q, k + 1) = PairsTo(q, k)
  <2>1. ASSUME NEW c \in PairsTo(q, k + 1) PROVE c \in PairsTo(q, k)
    <3>1. /\ c \in (1..(k + 1)) \X (1..(k + 1)) /\ c[1] < c[2]
          /\ q[c[1]][2] = 1 /\ q[c[2]][2] = 0
      BY DEF PairsTo
    <3>2. c[1] \in 1..(k + 1) /\ c[2] \in 1..(k + 1) /\ c = << c[1], c[2] >>
      BY <3>1
    <3>3. c[2] # k + 1
      BY <3>1
    <3>4. c[2] \in 1..k /\ c[1] \in 1..k
      BY <3>1, <3>2, <3>3
    <3> QED BY <3>1, <3>2, <3>4 DEF PairsTo
  <2>2. ASSUME NEW c \in PairsTo(q, k) PROVE c \in PairsTo(q, k + 1)
    <3>1. c \in (1..(k + 1)) \X (1..(k + 1))
      BY <1>1 DEF PairsTo
    <3> QED BY <3>1 DEF PairsTo
  <2> QED BY <2>1, <2>2
<1>4. PositivesTo(q, k + 1) = PositivesTo(q, k) \cup {k + 1} /\ k + 1 \notin PositivesTo(q, k)
  BY <1>1, <1>2 DEF PositivesTo
<1> QED BY <1>3, <1>4, PairsAreFinite, FS_AddElement

(* and a negative one a pair with every positive one before it.            *)
LEMMA NegativeCounted ==
  ASSUME NEW q, NEW k \in Nat, q[k + 1][2] = 0
  PROVE  /\ PositivesTo(q, k + 1) = PositivesTo(q, k)
         /\ Cardinality(PairsTo(q, k + 1)) =
              Cardinality(PairsTo(q, k)) + Cardinality(PositivesTo(q, k))
<1> DEFINE P == PositivesTo(q, k)
           Fresh == {c \in PairsTo(q, k + 1) : c[2] = k + 1}
<1>1. \A i : i \in 1..(k + 1) <=> i \in 1..k \/ i = k + 1
  OBVIOUS
<1>2. \A i \in 1..k : i < k + 1 /\ i # k + 1
  OBVIOUS
<1>3. PositivesTo(q, k + 1) = P
  BY <1>1 DEF PositivesTo
<1>4. PairsTo(q, k + 1) = PairsTo(q, k) \cup Fresh
  <2>1. ASSUME NEW c \in PairsTo(q, k + 1) PROVE c \in PairsTo(q, k) \cup Fresh
    <3>1. /\ c \in (1..(k + 1)) \X (1..(k + 1)) /\ c[1] < c[2]
          /\ q[c[1]][2] = 1 /\ q[c[2]][2] = 0
      BY DEF PairsTo
    <3>2. c[1] \in 1..(k + 1) /\ c[2] \in 1..(k + 1) /\ c = << c[1], c[2] >>
      BY <3>1
    <3>3. CASE c[2] = k + 1
      BY <3>3
    <3>4. CASE c[2] # k + 1
      <4>1. c[2] \in 1..k /\ c[1] \in 1..k
        BY <3>1, <3>2, <3>4
      <4> QED BY <3>1, <3>2, <4>1 DEF PairsTo
    <3> QED BY <3>3, <3>4
  <2>2. ASSUME NEW c \in PairsTo(q, k) PROVE c \in PairsTo(q, k + 1)
    <3>1. c \in (1..(k + 1)) \X (1..(k + 1))
      BY <1>1 DEF PairsTo
    <3> QED BY <3>1 DEF PairsTo
  <2> QED BY <2>1, <2>2
<1>5. PairsTo(q, k) \cap Fresh = {}
  BY <1>2 DEF PairsTo
<1> DEFINE f == [i \in P |-> << i, k + 1 >>]
<1>6. f \in Bijection(P, Fresh)
  <2>1. ASSUME NEW i \in P PROVE << i, k + 1 >> \in Fresh
    <3>1. i \in 1..k /\ q[i][2] = 1
      BY DEF PositivesTo
    <3>2. << i, k + 1 >> \in (1..(k + 1)) \X (1..(k + 1)) /\ i < k + 1
      BY <3>1
    <3> QED BY <3>1, <3>2 DEF PairsTo
  <2>2. ASSUME NEW c \in Fresh PROVE \E i \in P : f[i] = c
    <3>1. /\ c \in (1..(k + 1)) \X (1..(k + 1)) /\ c[1] < c[2]
          /\ q[c[1]][2] = 1 /\ c[2] = k + 1
      BY DEF PairsTo
    <3>2. c[1] \in 1..k /\ c = << c[1], k + 1 >>
      BY <3>1
    <3>3. c[1] \in P
      BY <3>1, <3>2 DEF PositivesTo
    <3> QED BY <3>2, <3>3
  <2>3. f \in [P -> Fresh] /\ \A a, b \in P : f[a] = f[b] => a = b
    BY <2>1
  <2> HIDE DEF f, Fresh
  <2> QED BY <2>2, <2>3 DEF Bijection, Injection, Surjection, IsInjective, f
<1>7. IsFiniteSet(Fresh) /\ Cardinality(Fresh) = Cardinality(P)
  <2>1. ExistsBijection(P, Fresh)
    BY <1>6 DEF ExistsBijection
  <2>2. IsFiniteSet(P)
    BY PairsAreFinite
  <2> HIDE DEF P, Fresh
  <2> QED BY <2>1, <2>2, FS_Bijection
<1> HIDE DEF Fresh, f
<1>8. Cardinality(PairsTo(q, k) \cup Fresh) =
        Cardinality(PairsTo(q, k)) + Cardinality(Fresh) - Cardinality(PairsTo(q, k) \cap Fresh)
  BY <1>7, PairsAreFinite, FS_Union
<1>9. Cardinality(PairsTo(q, k) \cap Fresh) = 0
  BY <1>5, FS_EmptySet
<1>10. Cardinality(PairsTo(q, k + 1)) = Cardinality(PairsTo(q, k)) + Cardinality(P) - 0
  BY <1>4, <1>7, <1>8, <1>9
<1>11. Cardinality(PairsTo(q, k)) \in Nat /\ Cardinality(P) \in Nat
  BY PairsAreFinite
<1> HIDE DEF P
<1>12. Cardinality(PairsTo(q, k + 1)) = Cardinality(PairsTo(q, k)) + Cardinality(P)
  BY <1>10, <1>11
<1> QED BY <1>3, <1>12 DEF P

(* So the fold counts the pairs.                                           *)
LEMMA AreaIsPairs ==
  ASSUME NEW s, NEW q, NEW n \in Nat, \A i \in 1..n : q[i][2] \in {0, 1}, NEW acc,
         LeadsTo("area", s, [tp |-> 0, auc |-> 0], q, n, acc)
  PROVE  acc.auc = Cardinality(PairsTo(q, n))
<1>1. PICK h : Steps("area", s, [tp |-> 0, auc |-> 0], q, n, h) /\ h[n] = acc
  BY DEF LeadsTo
<1>2. /\ h[0] = [tp |-> 0, auc |-> 0]
      /\ \A k \in 1..n : h[k] = IF q[k][2] = 1 THEN [h[k - 1] EXCEPT !.tp = @ + 1]
                                ELSE [h[k - 1] EXCEPT !.auc = @ + h[k - 1].tp]
  BY <1>1 DEF Steps, Folded
<1> DEFINE Counted(k) == h[k] = [tp |-> Cardinality(PositivesTo(q, k)), auc |-> Cardinality(PairsTo(q, k))]
           S == {k \in Nat : k <= n => Counted(k)}
<1>3. 0 \in S
  <2>1. PositivesTo(q, 0) = {} /\ PairsTo(q, 0) = {}
    BY DEF PositivesTo, PairsTo
  <2> QED BY <1>2, <2>1, FS_EmptySet
<1>4. ASSUME NEW k \in S PROVE k + 1 \in S
  <2>1. SUFFICES ASSUME k + 1 <= n PROVE Counted(k + 1)
    OBVIOUS
  <2>2. Counted(k) /\ k + 1 \in 1..n /\ (k + 1) - 1 = k /\ k \in Nat
    BY <2>1
  <2> DEFINE tp == Cardinality(PositivesTo(q, k))
             auc == Cardinality(PairsTo(q, k))
  <2>3. h[k] = [tp |-> tp, auc |-> auc]
    BY <2>2
  <2>4. CASE q[k + 1][2] = 1
    <3>1. h[k + 1] = [h[k] EXCEPT !.tp = @ + 1]
      BY <1>2, <2>2, <2>4
    <3>2. h[k + 1] = [tp |-> tp + 1, auc |-> auc]
      BY <2>3, <3>1
    <3> QED BY <2>2, <2>4, <3>2, PositiveCounted
  <2>5. CASE q[k + 1][2] = 0
    <3>1. h[k + 1] = [h[k] EXCEPT !.auc = @ + h[k].tp]
      <4>1. q[k + 1][2] # 1
        BY <2>5
      <4> QED BY <1>2, <2>2, <4>1
    <3>2. h[k + 1] = [tp |-> tp, auc |-> auc + tp]
      BY <2>3, <3>1
    <3> QED BY <2>2, <2>5, <3>2, NegativeCounted
  <2> QED BY <2>2, <2>4, <2>5
<1>5. S \in SUBSET Nat
  OBVIOUS
<1> HIDE DEF S
<1>6. S = Nat
  BY <1>3, <1>4, <1>5, NatSetInduction
<1>7. Counted(n)
  BY <1>6 DEF S
<1> QED BY <1>1, <1>7

\* The pairs in which the positive sample does not have the lower score.
WonPairs(s) ==
  {p \in (DOMAIN s) \X (DOMAIN s) :
     s[p[1]][2] = 1 /\ s[p[2]][2] = 0 /\ s[p[1]][1] >= s[p[2]][1]}

(* In the sorted samples these are the pairs with the positive one first.  *)
LEMMA PairsAreWon ==
  ASSUME NEW n \in Nat, NEW s \in SamplesOf(n), NEW place \in Bijection(1..n, 1..n),
         \A i, j \in 1..n : i < j => Order(s[place[i]], s[place[j]]),
         NEW q, q = [i \in 1..n |-> s[place[i]]]
  PROVE  Cardinality(PairsTo(q, n)) = Cardinality(WonPairs(s))
<1> DEFINE W == PairsTo(q, n)
           V == WonPairs(s)
           f == [c \in W |-> << place[c[1]], place[c[2]] >>]
<1>1. DOMAIN s = 1..n /\ \A i \in 1..n : s[i][1] \in {1, 2, 3} /\ s[i][2] \in {0, 1}
  BY SampleShape
<1>2. /\ place \in [1..n -> 1..n] /\ \A i, j \in 1..n : place[i] = place[j] => i = j
      /\ \A a \in 1..n : \E i \in 1..n : place[i] = a
  BY DEF Bijection, Injection, Surjection, IsInjective
<1>3. \A i \in 1..n : q[i] = s[place[i]] /\ place[i] \in 1..n
  BY <1>2
<1>4. ASSUME NEW c \in W PROVE /\ c[1] \in 1..n /\ c[2] \in 1..n /\ c = << c[1], c[2] >>
                               /\ c[1] < c[2] /\ q[c[1]][2] = 1 /\ q[c[2]][2] = 0
  BY DEF PairsTo
<1>5. ASSUME NEW c \in W PROVE f[c] \in V
  <2> DEFINE a == place[c[1]]
             b == place[c[2]]
  <2>1. a \in 1..n /\ b \in 1..n /\ s[a][2] = 1 /\ s[b][2] = 0 /\ Order(s[a], s[b])
    BY <1>3, <1>4
  <2>2. f[c] = << a, b >>
    OBVIOUS
  <2> HIDE DEF a, b, W, f
  <2>3. s[a][1] >= s[b][1]
    BY <1>1, <2>1 DEF Order
  <2>4. << a, b >> \in (DOMAIN s) \X (DOMAIN s) /\ << a, b >>[1] = a /\ << a, b >>[2] = b
    BY <1>1, <2>1
  <2>5. << a, b >> \in V
    BY <2>1, <2>3, <2>4 DEF WonPairs
  <2> QED BY <2>2, <2>5
<1>6. ASSUME NEW p \in V PROVE \E c \in W : f[c] = p
  <2>1. /\ p[1] \in 1..n /\ p[2] \in 1..n /\ p = << p[1], p[2] >>
        /\ s[p[1]][2] = 1 /\ s[p[2]][2] = 0 /\ s[p[1]][1] >= s[p[2]][1]
    BY <1>1 DEF WonPairs
  <2>2. PICK i \in 1..n : place[i] = p[1]
    BY <1>2, <2>1
  <2>3. PICK j \in 1..n : place[j] = p[2]
    BY <1>2, <2>1
  <2>4. i < j
    <3>1. i # j
      BY <2>1, <2>2, <2>3
    <3>2. ~ (j < i)
      <4>1. SUFFICES ASSUME j < i PROVE FALSE
        OBVIOUS
      <4>2. Order(s[p[2]], s[p[1]])
        BY <2>2, <2>3, <4>1
      <4> DEFINE x == s[p[1]]
                 y == s[p[2]]
      <4>3. x[1] \in {1, 2, 3} /\ y[1] \in {1, 2, 3} /\ x[2] = 1 /\ y[2] = 0 /\ x[1] >= y[1] /\ Order(y, x)
        BY <1>1, <2>1, <4>2
      <4> HIDE DEF x, y
      <4> QED BY <4>3 DEF Order
    <3> QED BY <3>1, <3>2
  <2>5. << i, j >> \in W
    <3>1. q[i][2] = 1 /\ q[j][2] = 0
      BY <1>3, <2>1, <2>2, <2>3
    <3>2. << i, j >> \in (1..n) \X (1..n) /\ << i, j >>[1] = i /\ << i, j >>[2] = j
      OBVIOUS
    <3> QED BY <2>4, <3>1, <3>2 DEF PairsTo
  <2>6. f[<< i, j >>] = p
    BY <2>1, <2>2, <2>3, <2>5
  <2> QED BY <2>5, <2>6
<1>7. ASSUME NEW c \in W, NEW d \in W, f[c] = f[d] PROVE c = d
  <2>1. place[c[1]] = place[d[1]] /\ place[c[2]] = place[d[2]]
    BY <1>7
  <2>2. c[1] = d[1] /\ c[2] = d[2]
    BY <1>2, <1>4, <2>1
  <2> QED BY <1>4, <2>2
<1>8. f \in Bijection(W, V)
  <2>1. f \in [W -> V]
    BY <1>5
  <2> HIDE DEF f, W, V
  <2> QED BY <2>1, <1>6, <1>7 DEF Bijection, Injection, Surjection, IsInjective
<1>9. ExistsBijection(W, V) /\ IsFiniteSet(W)
  BY <1>8, PairsAreFinite DEF ExistsBijection
<1> HIDE DEF W, V, f
<1>10. Cardinality(V) = Cardinality(W)
  BY <1>9, FS_Bijection
<1> QED BY <1>10 DEF W, V

(* The area is the number of pairs a positive sample does not lose         *)
(* (validation.py 70-87).                                                  *)
LEMMA ValidationSound ==
  ASSUME NEW n \in Nat, NEW samples \in SamplesOf(n),
         Reported("validation", samples, <<Auc(samples)>>)
  PROVE  AucCountsPairs'
<1> DEFINE q == InOrder(samples)
<1>1. DOMAIN samples = 1..n /\ \A i \in 1..n : samples[i][2] \in {0, 1}
  BY SampleShape
<1>2. PICK place \in Bijection(1..n, 1..n) :
         /\ \A i, j \in 1..n : i < j => Order(samples[place[i]], samples[place[j]])
         /\ q = [i \in 1..n |-> samples[place[i]]]
  BY InOrderIsSorted
<1>3. PICK acc : /\ Auc(samples) = acc.auc
                 /\ LeadsTo("area", samples, [tp |-> 0, auc |-> 0], q, n, acc)
  BY <1>1, AreaSteps
<1> HIDE DEF q
<1>4. \A i \in 1..n : q[i][2] \in {0, 1}
  <2>1. \A i \in 1..n : place[i] \in 1..n
    BY DEF Bijection, Injection
  <2> QED BY <1>1, <1>2, <2>1
<1>5. Auc(samples) = Cardinality(PairsTo(q, n))
  BY <1>3, <1>4, AreaIsPairs
<1>6. Auc(samples) = Cardinality(WonPairs(samples))
  BY <1>2, <1>5, PairsAreWon
<1>7. advice'.asked = samples /\ advice'.says[1] = Auc(samples)
  BY DEF Reported
<1> QED BY <1>6, <1>7 DEF AucCountsPairs, WonPairs
-----------------------------------------------------------------------------
(* All answers                                                             *)

(* Every answer is sound, whatever was asked: nothing has to be known of   *)
(* the state before.                                                       *)
LEMMA AnswerSound == AdviceNext => AdviceSound'
<1> SUFFICES ASSUME AdviceNext PROVE AdviceSound'
  OBVIOUS
<1>1. CASE \E c \in Lawsuit : AskOptimize(c)
  <2>1. PICK c \in Lawsuit : AskOptimize(c)
    BY <1>1
  <2>2. Reported("settlement-optimizer", c, Optimize(c))
    BY <2>1 DEF AskOptimize, Say, Reported
  <2> QED BY <2>2, SettlementSound, OnlyItsOwn DEF AdviceSound
<1>2. CASE \E signals \in SignalLists : AskOpinion(signals)
  <2>1. PICK signals \in SignalLists : AskOpinion(signals)
    BY <1>2
  <2>2. PICK opinion \in Synthesize(signals) : Reported("second-opinion", signals, opinion)
    BY <2>1 DEF AskOpinion, Say, Reported
  <2> QED BY <2>2, OpinionSound, OnlyItsOwn DEF AdviceSound
<1>3. CASE \E t \in Tipos, v \in Amounts, p \in Signals : AskRecommend(t, v, p)
  <2>1. PICK t \in Tipos, v \in Amounts, p \in Signals : AskRecommend(t, v, p)
    BY <1>3
  <2>2. Reported("concilia", <<t, v, p>>, Recommend(t, v, p))
    BY <2>1 DEF AskRecommend, Say, Reported
  <2> QED BY <2>2, ConciliaSound, OnlyItsOwn DEF AdviceSound
<1>4. CASE \E n \in 1..Longest : \E s \in SeriesOf(n) :
             AskForecast(s) \/ \E taxa \in Shares : AskEarlyWarning(s, taxa)
  <2>1. PICK n \in 1..Longest : \E s \in SeriesOf(n) :
               AskForecast(s) \/ \E taxa \in Shares : AskEarlyWarning(s, taxa)
    BY <1>4
  <2>2. PICK s \in SeriesOf(n) : AskForecast(s) \/ \E taxa \in Shares : AskEarlyWarning(s, taxa)
    BY <2>1
  <2>3. n \in Nat /\ n >= 1
    BY AdviceAssumption
  <2>4. CASE AskForecast(s)
    <3>1. Reported("forecasting", s, <<Trend(s)>>)
      BY <2>4 DEF AskForecast, Say, Reported
    <3> QED BY <2>3, <3>1, ForecastSound, OnlyItsOwn DEF AdviceSound
  <2>5. CASE \E taxa \in Shares : AskEarlyWarning(s, taxa)
    <3>1. PICK taxa \in Shares : AskEarlyWarning(s, taxa)
      BY <2>5
    <3>2. Reported("early-warning", s, <<Severity(Front(s), Last(s)), Congested(taxa)>>)
      BY <3>1 DEF AskEarlyWarning, Say, Reported
    <3> QED BY <2>3, <3>2, EarlyWarningSound, OnlyItsOwn DEF AdviceSound
  <2> QED BY <2>2, <2>4, <2>5
<1>5. CASE \E n \in 1..Longest : \E samples \in SamplesOf(n) : Validate(samples)
  <2>1. PICK n \in 1..Longest : \E samples \in SamplesOf(n) : Validate(samples)
    BY <1>5
  <2>2. PICK samples \in SamplesOf(n) : Validate(samples)
    BY <2>1
  <2>3. n \in Nat
    BY AdviceAssumption
  <2>4. Reported("validation", samples, <<Auc(samples)>>)
    BY <2>2 DEF Validate, Say, Reported
  <2> QED BY <2>3, <2>4, ValidationSound, OnlyItsOwn DEF AdviceSound
<1> QED BY <1>1, <1>2, <1>3, <1>4, <1>5 DEF AdviceNext

(* The advice products never contradict what their answers are made from,  *)
(* and the fallback of the score engine always answers, with no advantage  *)
(* for a source that is missing: for all probabilities, amounts, series    *)
(* and samples (settlement_optimizer, second_opinion, concilia,            *)
(* early_warning, forecasting, scoring/validation.py, scoring/engine).     *)
THEOREM AnswersAreSound == AnswersSpec => []AnswersSound
<1>1. AdviceInit => AdviceSound
  BY DEF AdviceInit, NoAdvice, AdviceSound, SettlementIsRational, OpinionWithinSignals,
         ConciliaIsPrior, SeverityFollowsVolume, TrendFollowsSeries, AucCountsPairs, Says
<1>2. AdviceSound /\ [AdviceNext]_adviceVars => AdviceSound'
  <2>1. CASE AdviceNext
    BY <2>1, AnswerSound
  <2>2. ASSUME AdviceSound, UNCHANGED adviceVars PROVE AdviceSound'
    BY <2>2 DEF adviceVars, AdviceSound, SettlementIsRational, OpinionWithinSignals,
                ConciliaIsPrior, SeverityFollowsVolume, TrendFollowsSeries, AucCountsPairs, Says
  <2> QED BY <2>1, <2>2
<1>3. AnswersInit => AdviceInit /\ EngineInit
  BY DEF AnswersInit
<1>4. [AnswersNext]_answerVars => [AdviceNext]_adviceVars /\ [EngineNext]_engineVars
  BY DEF AnswersNext, answerVars, adviceVars, engineVars
<1>5. AnswersSpec => EngineSpec
  BY <1>3, <1>4, PTL DEF AnswersSpec, EngineSpec
<1>6. AnswersSpec => []AdviceSound
  BY <1>1, <1>2, <1>3, <1>4, PTL DEF AnswersSpec
<1>7. AnswersSound <=> AdviceSound /\ EngineSound
  BY DEF AnswersSound
<1> QED BY <1>5, <1>6, <1>7, FallbackIsSound, PTL
=============================================================================
