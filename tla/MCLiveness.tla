----------------------------- MODULE MCLiveness -----------------------------
(* Small instances of what must eventually happen: every writer of the     *)
(* Decision Ledger ends, and no batch is shown as running for ever.  The   *)
(* two share no state: a behaviour belongs to one of them ("part").        *)
EXTENDS MCPostgresLedger, BatchJob
CONSTANT t3
VARIABLE part

\* Two tenants hash to one advisory lock, the third has its own.
SharedAndOwn == t1 :> k1 @@ t2 :> k1 @@ t3 :> k2

LivenessInit == Init /\ BatchInit /\ part \in {"ledger", "batch"}
LivenessNext ==
  /\ UNCHANGED part
  /\ IF part = "ledger" THEN Next ELSE UNCHANGED vars
  /\ IF part = "batch" THEN BatchNext ELSE UNCHANGED batchVars

\* The fairness of FairSpec and of BatchFairSpec, each in its own part.
InLedger(A) == part = "ledger" /\ A
InBatch(A) == part = "batch" /\ A
LivenessSpec ==
  /\ LivenessInit /\ [][LivenessNext]_<<vars, batchVars, part>>
  /\ \A w \in Writers :
       /\ SF_vars(InLedger(AcquireLock(w))) /\ SF_vars(InLedger(Insert(w)))
       /\ SF_vars(InLedger(InsertDuplicate(w))) /\ WF_vars(InLedger(CountEntries(w)))
       /\ WF_vars(InLedger(ReadHashes(w))) /\ WF_vars(InLedger(Commit(w)))
  /\ WF_batchVars(InBatch(Tick))
  /\ \A j \in Jobs : WF_batchVars(InBatch(Work(j)))
  /\ WF_batchVars(InBatch(\E m \in queue : Deliver(m)))
=============================================================================
