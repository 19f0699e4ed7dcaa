--------------------------- MODULE CryptoShredding ---------------------------
(***************************************************************************)
(* Crypto-shredding of services/shared/lgpd_crypto.py.  Every titular of a *)
(* tenant has a random key of its own, in the memory of the process; a     *)
(* subject_token of the Decision Ledger is the pseudonym under that key.   *)
(* Tokens stay for ever: erasing a titular is destroying the key, which    *)
(* erase_titular does in the process it is called in and nowhere else.     *)
(* Nothing in services/ calls it: an erasure is a call from outside.       *)
(*                                                                         *)
(* The lock covers the store only.  encrypt_for_ledger takes its key under *)
(* the lock and uses it after, when the key may have been destroyed.       *)
(***************************************************************************)
EXTENDS Naturals, FiniteSets

CONSTANTS Processes, Callers, Titulares, Tenants,
          MaxKeyDraws, \* bound of the model: keys drawn in all processes
          MaxErasures, \* bound of the model: erasures of one titular, per process
          MaxRestarts  \* bound of the model: restarts of one process

ASSUME ShreddingAssumption == {MaxKeyDraws, MaxErasures, MaxRestarts} \subseteq Nat

VARIABLES store,    \* store[p][kid]: _KEY_STORE of process p, 0 for no key
          drawn,    \* number of keys drawn by os.urandom; no two are alike
          holding,  \* holding[c]: the token a caller is about to seal
          ledger,   \* the tokens in the ledger
          erasures, \* erasures[p][s]: history: how often s was erased in p
          restarts  \* restarts[p]: history

keyVars == <<store, drawn, holding, ledger, erasures, restarts>>

Subjects == [tenant : Tenants, titular : Titulares]

\* Seeded fault: one key per titular for all tenants.
KeyIdOfTitular(s) == <<CHOOSE t \in Tenants : TRUE, s.titular>>

\* f"{tenant_id}:{pseudonym}"; a pseudonym is hexadecimal, so the last colon
\* separates the two.
KeyId(s) == <<s.tenant, s.titular>>

KeyIds == Tenants \X Titulares
NoToken == [none |-> TRUE]

KeysInit ==
  /\ store = [p \in Processes |-> [kid \in KeyIds |-> 0]]
  /\ drawn = 0
  /\ holding = [c \in Callers |-> NoToken]
  /\ ledger = {}
  /\ erasures = [p \in Processes |-> [s \in Subjects |-> 0]]
  /\ restarts = [p \in Processes |-> 0]
-----------------------------------------------------------------------------
\* The token that process p makes for s under a key, and when it does so: the
\* erasures of s by then, in each process, and the restarts of p.
Token(p, s, key) ==
  [process |-> p, subject |-> s, key |-> key,
   erased |-> [q \in Processes |-> erasures[q][s]], restart |-> restarts[p]]

\* _load_or_create_key.
LoadOrCreateKey(c, p, s) ==
  /\ holding[c] = NoToken
  /\ \/ /\ store[p][KeyId(s)] # 0
        /\ holding' = [holding EXCEPT ![c] = Token(p, s, store[p][KeyId(s)])]
        /\ UNCHANGED <<store, drawn>>
     \/ /\ store[p][KeyId(s)] = 0 /\ drawn < MaxKeyDraws
        /\ drawn' = drawn + 1
        /\ store' = [store EXCEPT ![p][KeyId(s)] = drawn + 1]
        /\ holding' = [holding EXCEPT ![c] = Token(p, s, drawn + 1)]
  /\ UNCHANGED <<ledger, erasures, restarts>>

\* Seeded fault: the key that was used is put back.
SealAndStore(c) ==
  /\ holding[c] # NoToken
  /\ ledger' = ledger \cup {holding[c]}
  /\ store' = [store EXCEPT ![holding[c].process][KeyId(holding[c].subject)] = holding[c].key]
  /\ holding' = [holding EXCEPT ![c] = NoToken]
  /\ UNCHANGED <<drawn, erasures, restarts>>

\* The rest of encrypt_for_ledger, and the write of the token.
Seal(c) ==
  /\ holding[c] # NoToken
  /\ ledger' = ledger \cup {holding[c]}
  /\ holding' = [holding EXCEPT ![c] = NoToken]
  /\ UNCHANGED <<store, drawn, erasures, restarts>>

\* erase_titular.
EraseTitular(p, s) ==
  /\ erasures[p][s] < MaxErasures
  /\ store' = [store EXCEPT ![p][KeyId(s)] = 0]
  /\ erasures' = [erasures EXCEPT ![p][s] = @ + 1]
  /\ UNCHANGED <<drawn, holding, ledger, restarts>>

\* The store is volatile.
Restart(p) ==
  /\ restarts[p] < MaxRestarts
  /\ store' = [store EXCEPT ![p] = [kid \in KeyIds |-> 0]]
  /\ holding' = [c \in Callers |->
       IF holding[c] # NoToken /\ holding[c].process = p THEN NoToken ELSE holding[c]]
  /\ restarts' = [restarts EXCEPT ![p] = @ + 1]
  /\ UNCHANGED <<drawn, ledger, erasures>>

\* decrypt_from_ledger, in process p for subject s; authenticated encryption
\* rejects every key but the one the token was made with.
CanRead(p, s, token) ==
  /\ store[p][KeyId(s)] # 0            \* else KeyError
  /\ store[p][KeyId(s)] = token.key    \* else InvalidTag
-----------------------------------------------------------------------------
KeysNext ==
  \/ \E c \in Callers, p \in Processes, s \in Subjects : LoadOrCreateKey(c, p, s)
  \/ \E c \in Callers : Seal(c)
  \/ \E p \in Processes, s \in Subjects : EraseTitular(p, s)
  \/ \E p \in Processes : Restart(p)

KeysSpec == KeysInit /\ [][KeysNext]_keyVars
-----------------------------------------------------------------------------
(* Properties *)

Tokens == [process : Processes, subject : Subjects, key : Nat,
           erased : [Processes -> Nat], restart : Nat]

KeysTypeOK ==
  /\ drawn \in Nat
  /\ store \in [Processes -> [KeyIds -> 0..drawn]]
  /\ holding \in [Callers -> Tokens \cup {NoToken}]
  /\ ledger \subseteq Tokens
  /\ erasures \in [Processes -> [Subjects -> Nat]]
  /\ restarts \in [Processes -> Nat]

\* The titular was not erased where the token was made, nor that process
\* restarted, since the key of the token was taken.
Alive(token) ==
  /\ token.erased[token.process] = erasures[token.process][token.subject]
  /\ token.restart = restarts[token.process]

(* Once a titular is erased in the process that made a token, no process   *)
(* can read it under any subject: not when a caller who took the key       *)
(* before seals it after the erasure, nor when the same titular gets a new *)
(* key, there or elsewhere (lgpd_crypto.py 55-86, 109-126).                *)
ErasedIsUnreadable ==
  \A token \in ledger : ~ Alive(token) =>
    \A p \in Processes, s \in Subjects : ~ CanRead(p, s, token)

(* Until then a token can be read where it was made, under its own subject *)
(* and under no other, whatever is erased in other processes or for        *)
(* another tenant (lgpd_crypto.py 50-52, 89-106).                          *)
ReadableUntilErased ==
  \A token \in ledger : Alive(token) =>
    \A p \in Processes, s \in Subjects :
      CanRead(p, s, token) <=> (p = token.process /\ s = token.subject)

(* What the module promises: to erase the data of a titular it is enough   *)
(* to destroy the key, and the token becomes irrecoverable (lgpd_crypto.py *)
(* 5-8).  The store is one per process: erased in another one, a token     *)
(* stays readable.                                                         *)
ErasureReachesToken ==
  \A token \in ledger :
    (\E q \in Processes : erasures[q][token.subject] > token.erased[q]) =>
      \A p \in Processes, s \in Subjects : ~ CanRead(p, s, token)
=============================================================================
