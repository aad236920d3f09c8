---------------------------- MODULE ServicesProofs ----------------------------
(***************************************************************************)
(* Theorems about the three specifications of Services, for any number of  *)
(* runs and files, requests, wallets, addresses and chains, and tokens.    *)
(* The parts are proved one after the other; the theorems that the runs'   *)
(* properties hold, and those of all parts together, are at the end.       *)
(***************************************************************************)
EXTENDS Services, Sequences, NaturalsInduction, WellFoundedInduction, TLAPS

-----------------------------------------------------------------------------
(* The migrations runner (MigrationsRunner).                               *)
(* Files in their order.                                                   *)

\* Everything before the first missing file is there.
LEMMA FirstMissing ==
  ASSUME NEW n \in 0 .. NumFiles, NEW K, NEW f \in (1 .. n) \ K,
         \A g \in (1 .. n) \ K : f <= g
  PROVE  f \in File /\ f # 0 /\ 1 .. (f - 1) \subseteq K
<1>1. f \in File /\ f # 0
  BY MigrationsAssumption DEF File
<1>2. ASSUME NEW g \in 1 .. (f - 1) PROVE g \in K
  BY <1>2, MigrationsAssumption
<1> QED
  BY <1>1, <1>2

\* A prefix of the files stays one when the next file joins it.
LEMMA PrefixGrows ==
  ASSUME NEW T \in SUBSET File, NEW s \in File, 1 .. (s - 1) \subseteq T,
         \A f \in T : 1 .. f \subseteq T
  PROVE  \A f \in T \union {s} : 1 .. f \subseteq T \union {s}
<1>1. ASSUME NEW g \in 1 .. s PROVE g \in T \union {s}
  BY <1>1, MigrationsAssumption DEF File
<1> QED
  BY <1>1

-----------------------------------------------------------------------------
(* The invariant holds at the start, and every step of a run keeps it.     *)

LEMMA InitInv == Init => MigrationsInv
  BY MigrationsAssumption DEF Init, MigrationsInv, TypeOK, AppliedInOrder, File, Locked,
     ExitIsTrue, SessionMatches, LockHeld, TransactionExtends, KnowsTheTable

\* A run opens its session.
LEMMA ConnectInv ==
  ASSUME MigrationsInv, NEW q \in Run, Connect(q)
  PROVE  MigrationsInv'
<1> USE MigrationsAssumption DEF MigrationsInv, TypeOK, Connect, Goto, database, server
<1>1. TypeOK'
  BY DEF TransactionExtends
<1>2. AppliedInOrder'
  BY DEF AppliedInOrder
<1>3. ASSUME NEW r \in Run
      PROVE  ExitIsTrue(r)' /\ SessionMatches(r)' /\ LockHeld(r)'
             /\ TransactionExtends(r)' /\ KnowsTheTable(r)'
  <2>exit. ExitIsTrue(r)'
    BY DEF ExitIsTrue, SessionMatches, TransactionExtends, KnowsTheTable, Locked
  <2>session. SessionMatches(r)'
    BY DEF SessionMatches, Locked
  <2>lock. LockHeld(r)'
    BY DEF LockHeld, SessionMatches, Locked
  <2>txn. TransactionExtends(r)'
    BY DEF TransactionExtends, SessionMatches, LockHeld, KnowsTheTable, Locked
  <2>table. KnowsTheTable(r)'
    BY DEF KnowsTheTable, SessionMatches, LockHeld, TransactionExtends, Locked
  <2> QED
    BY <2>exit, <2>session, <2>lock, <2>txn, <2>table
<1> QED
  BY <1>1, <1>2, <1>3

\* A run takes the free lock.
LEMMA AcquireLockInv ==
  ASSUME MigrationsInv, NEW q \in Run, AcquireLock(q)
  PROVE  MigrationsInv'
<1> USE MigrationsAssumption DEF MigrationsInv, TypeOK, AcquireLock, Goto, database, server
<1>1. TypeOK'
  BY DEF TransactionExtends
<1>2. AppliedInOrder'
  BY DEF AppliedInOrder
<1>3. ASSUME NEW r \in Run
      PROVE  ExitIsTrue(r)' /\ SessionMatches(r)' /\ LockHeld(r)'
             /\ TransactionExtends(r)' /\ KnowsTheTable(r)'
  <2>exit. ExitIsTrue(r)'
    BY DEF ExitIsTrue, SessionMatches, TransactionExtends, KnowsTheTable, Locked
  <2>session. SessionMatches(r)'
    BY DEF SessionMatches, Locked
  <2>lock. LockHeld(r)'
    BY DEF LockHeld, SessionMatches, Locked
  <2>txn. TransactionExtends(r)'
    BY DEF TransactionExtends, SessionMatches, LockHeld, KnowsTheTable, Locked
  <2>table. KnowsTheTable(r)'
    BY DEF KnowsTheTable, SessionMatches, LockHeld, TransactionExtends, Locked
  <2> QED
    BY <2>exit, <2>session, <2>lock, <2>txn, <2>table
<1> QED
  BY <1>1, <1>2, <1>3

\* The timeouts change nothing that matters here.
LEMMA SetTimeoutsInv ==
  ASSUME MigrationsInv, NEW q \in Run, SetTimeouts(q)
  PROVE  MigrationsInv'
<1> USE MigrationsAssumption DEF MigrationsInv, TypeOK, SetTimeouts, Goto, database, server
<1>1. TypeOK'
  BY DEF TransactionExtends
<1>2. AppliedInOrder'
  BY DEF AppliedInOrder
<1>3. ASSUME NEW r \in Run
      PROVE  ExitIsTrue(r)' /\ SessionMatches(r)' /\ LockHeld(r)'
             /\ TransactionExtends(r)' /\ KnowsTheTable(r)'
  <2>exit. ExitIsTrue(r)'
    BY DEF ExitIsTrue, SessionMatches, TransactionExtends, KnowsTheTable, Locked
  <2>session. SessionMatches(r)'
    BY DEF SessionMatches, Locked
  <2>lock. LockHeld(r)'
    BY DEF LockHeld, SessionMatches, Locked
  <2>txn. TransactionExtends(r)'
    BY DEF TransactionExtends, SessionMatches, LockHeld, KnowsTheTable, Locked
  <2>table. KnowsTheTable(r)'
    BY DEF KnowsTheTable, SessionMatches, LockHeld, TransactionExtends, Locked
  <2> QED
    BY <2>exit, <2>session, <2>lock, <2>txn, <2>table
<1> QED
  BY <1>1, <1>2, <1>3

\* A run reads the applied files under the lock.
LEMMA ReadAppliedInv ==
  ASSUME MigrationsInv, NEW q \in Run, ReadApplied(q)
  PROVE  MigrationsInv'
<1> USE MigrationsAssumption DEF MigrationsInv, TypeOK, ReadApplied, Goto, database, server
<1>1. TypeOK'
  BY DEF TransactionExtends
<1>2. AppliedInOrder'
  BY DEF AppliedInOrder
<1>3. ASSUME NEW r \in Run
      PROVE  ExitIsTrue(r)' /\ SessionMatches(r)' /\ LockHeld(r)'
             /\ TransactionExtends(r)' /\ KnowsTheTable(r)'
  <2>exit. ExitIsTrue(r)'
    BY DEF ExitIsTrue, SessionMatches, TransactionExtends, KnowsTheTable, Locked
  <2>session. SessionMatches(r)'
    BY DEF SessionMatches, Locked
  <2>lock. LockHeld(r)'
    BY DEF LockHeld, SessionMatches, Locked
  <2>txn. TransactionExtends(r)'
    BY DEF TransactionExtends, SessionMatches, LockHeld, KnowsTheTable, Locked
  <2>table. KnowsTheTable(r)'
    BY DEF KnowsTheTable, SessionMatches, LockHeld, TransactionExtends, Locked
  <2> QED
    BY <2>exit, <2>session, <2>lock, <2>txn, <2>table
<1> QED
  BY <1>1, <1>2, <1>3

\* A run opens the transaction of the first file that is missing.
LEMMA ApplyFileInv ==
  ASSUME MigrationsInv, NEW q \in Run, ApplyFile(q)
  PROVE  MigrationsInv'
<1> USE MigrationsAssumption DEF MigrationsInv, TypeOK, ApplyFile, Goto, database, server
<1>0. PICK f \in (1 .. Last[q]) \ known[q] :
        /\ \A g \in (1 .. Last[q]) \ known[q] : f <= g
        /\ sent' = [sent EXCEPT ![q] = f]
        /\ file' = [file EXCEPT ![q] = f]
  OBVIOUS
<1> HIDE DEF ApplyFile
<1>a. /\ pc[q] = "next" /\ pc' = [pc EXCEPT ![q] = "insert"]
      /\ UNCHANGED <<table, schema, lock, session, known, exit, faulted>>
  BY DEF ApplyFile
<1>b. f \in File /\ f # 0 /\ 1 .. (f - 1) \subseteq known[q]
  <2> HIDE DEF MigrationsInv, TypeOK
  <2>1. Last[q] \in 0 .. NumFiles
    OBVIOUS
  <2>2. f \in (1 .. Last[q]) \ known[q]
    BY <1>0
  <2>3. \A g \in (1 .. Last[q]) \ known[q] : f <= g
    BY <1>0
  <2> QED
    BY ONLY <2>1, <2>2, <2>3, FirstMissing
<1>1. TypeOK'
  BY <1>0, <1>a, <1>b
<1>2. AppliedInOrder'
  BY <1>a DEF AppliedInOrder
<1>3. ASSUME NEW r \in Run
      PROVE  ExitIsTrue(r)' /\ SessionMatches(r)' /\ LockHeld(r)'
             /\ TransactionExtends(r)' /\ KnowsTheTable(r)'
  <2>exit. ExitIsTrue(r)'
    BY <1>0, <1>a, <1>b DEF ExitIsTrue, SessionMatches, TransactionExtends, KnowsTheTable, Locked
  <2>session. SessionMatches(r)'
    BY <1>0, <1>a, <1>b DEF SessionMatches, Locked
  <2>lock. LockHeld(r)'
    BY <1>0, <1>a, <1>b DEF LockHeld, SessionMatches, Locked
  <2>txn. TransactionExtends(r)'
    <3>1. CASE r = q
      <4>1. sent'[q] = f /\ file'[q] = f /\ table' = table /\ known[q] = table
        BY <1>0, <1>a DEF KnowsTheTable
      <4>2. f \notin table /\ 1 .. (f - 1) \subseteq table
        BY <1>b, <4>1
      <4> QED
        BY ONLY <3>1, <4>1, <4>2 DEF TransactionExtends
    <3>2. CASE r # q
      BY <1>0, <1>a, <3>2 DEF TransactionExtends
    <3> QED
      BY <3>1, <3>2
  <2>table. KnowsTheTable(r)'
    BY <1>0, <1>a, <1>b DEF KnowsTheTable, SessionMatches, LockHeld, TransactionExtends, Locked
  <2> QED
    BY <2>exit, <2>session, <2>lock, <2>txn, <2>table
<1> QED
  BY <1>1, <1>2, <1>3

\* The row of the file is new, because the run has the lock.
LEMMA InsertRowInv ==
  ASSUME MigrationsInv, NEW q \in Run, InsertRow(q)
  PROVE  MigrationsInv'
<1> USE MigrationsAssumption DEF MigrationsInv, TypeOK, InsertRow, GiveUp, Goto, database, server
<1>0. file[q] \notin table
  BY DEF SessionMatches, TransactionExtends
<1>a. /\ pc' = [pc EXCEPT ![q] = "commit"]
      /\ UNCHANGED <<table, schema, lock, session, sent, known, file, exit, faulted>>
  BY <1>0
<1>1. TypeOK'
  BY <1>a
<1>2. AppliedInOrder'
  BY DEF AppliedInOrder
<1>3. ASSUME NEW r \in Run
      PROVE  ExitIsTrue(r)' /\ SessionMatches(r)' /\ LockHeld(r)'
             /\ TransactionExtends(r)' /\ KnowsTheTable(r)'
  <2>exit. ExitIsTrue(r)'
    BY <1>0, <1>a DEF ExitIsTrue, SessionMatches, TransactionExtends, KnowsTheTable, Locked
  <2>session. SessionMatches(r)'
    BY <1>0, <1>a DEF SessionMatches, Locked
  <2>lock. LockHeld(r)'
    BY <1>0, <1>a DEF LockHeld, SessionMatches, Locked
  <2>txn. TransactionExtends(r)'
    BY <1>0, <1>a DEF TransactionExtends, SessionMatches, LockHeld, KnowsTheTable, Locked
  <2>table. KnowsTheTable(r)'
    BY <1>0, <1>a DEF KnowsTheTable, SessionMatches, LockHeld, TransactionExtends, Locked
  <2> QED
    BY <2>exit, <2>session, <2>lock, <2>txn, <2>table
<1> QED
  BY <1>1, <1>2, <1>3

\* A run sends its COMMIT.
LEMMA SendCommitInv ==
  ASSUME MigrationsInv, NEW q \in Run, SendCommit(q)
  PROVE  MigrationsInv'
<1> USE MigrationsAssumption DEF MigrationsInv, TypeOK, SendCommit, Goto, database, server
<1>1. TypeOK'
  BY DEF TransactionExtends
<1>2. AppliedInOrder'
  BY DEF AppliedInOrder
<1>3. ASSUME NEW r \in Run
      PROVE  ExitIsTrue(r)' /\ SessionMatches(r)' /\ LockHeld(r)'
             /\ TransactionExtends(r)' /\ KnowsTheTable(r)'
  <2>exit. ExitIsTrue(r)'
    BY DEF ExitIsTrue, SessionMatches, TransactionExtends, KnowsTheTable, Locked
  <2>session. SessionMatches(r)'
    BY DEF SessionMatches, Locked
  <2>lock. LockHeld(r)'
    BY DEF LockHeld, SessionMatches, Locked
  <2>txn. TransactionExtends(r)'
    BY DEF TransactionExtends, SessionMatches, LockHeld, KnowsTheTable, Locked
  <2>table. KnowsTheTable(r)'
    BY DEF KnowsTheTable, SessionMatches, LockHeld, TransactionExtends, Locked
  <2> QED
    BY <2>exit, <2>session, <2>lock, <2>txn, <2>table
<1> QED
  BY <1>1, <1>2, <1>3

\* The file of the open transaction becomes the next applied one.
LEMMA CommitLandsInv ==
  ASSUME MigrationsInv, NEW q \in Run, CommitLands(q)
  PROVE  MigrationsInv'
<1> USE MigrationsAssumption DEF MigrationsInv, TypeOK, CommitLands, script, database, server
<1>0. /\ sent[q] \in File /\ sent[q] \notin table
      /\ 1 .. (sent[q] - 1) \subseteq table
  BY DEF TransactionExtends
<1>s. schema' = [schema EXCEPT ![sent[q]] = 1]
  <2>1. schema[sent[q]] = 0
    BY <1>0 DEF AppliedInOrder, File
  <2>2. schema' = [schema EXCEPT ![sent[q]] = schema[sent[q]] + 1]
    OBVIOUS
  <2> QED
    BY ONLY <2>1, <2>2
<1>1. TypeOK'
  <2>1. schema' \in [File -> Nat]
    <3>1. schema \in [File -> Nat] /\ sent[q] \in File
      BY <1>0
    <3> QED
      BY ONLY <1>s, <3>1
  <2> QED
    BY <1>0, <2>1 DEF script
<1>2. AppliedInOrder'
  <2>1. \A f \in table' : 1 .. f \subseteq table'
    BY <1>0, PrefixGrows DEF AppliedInOrder
  <2>2. ASSUME NEW f \in File PROVE schema'[f] = IF f \in table' THEN 1 ELSE 0
    <3>1. CASE f = sent[q]
      BY <1>0, <1>s, <3>1 DEF AppliedInOrder
    <3>2. CASE f # sent[q]
      BY <1>0, <1>s, <3>2 DEF AppliedInOrder
    <3> QED
      BY <3>1, <3>2
  <2> QED
    BY <2>1, <2>2 DEF AppliedInOrder
<1>3. ASSUME NEW r \in Run
      PROVE  ExitIsTrue(r)' /\ SessionMatches(r)' /\ LockHeld(r)'
             /\ TransactionExtends(r)' /\ KnowsTheTable(r)'
  <2>exit. ExitIsTrue(r)'
    BY DEF ExitIsTrue, SessionMatches, TransactionExtends, KnowsTheTable, Locked
  <2>session. SessionMatches(r)'
    BY DEF SessionMatches, Locked
  <2>lock. LockHeld(r)'
    BY DEF LockHeld, SessionMatches, Locked
  <2>txn. TransactionExtends(r)'
    BY DEF TransactionExtends, SessionMatches, LockHeld, KnowsTheTable, Locked
  <2>table. KnowsTheTable(r)'
    BY DEF KnowsTheTable, SessionMatches, LockHeld, TransactionExtends, Locked
  <2> QED
    BY <2>exit, <2>session, <2>lock, <2>txn, <2>table
<1> QED
  BY <1>1, <1>2, <1>3

\* A run learns of its COMMIT.
LEMMA CommitAnsweredInv ==
  ASSUME MigrationsInv, NEW q \in Run, CommitAnswered(q)
  PROVE  MigrationsInv'
<1> USE MigrationsAssumption DEF MigrationsInv, TypeOK, CommitAnswered, Goto, database, server
<1>0. known[q] \union {file[q]} = table
  BY DEF KnowsTheTable
<1>1. TypeOK'
  BY <1>0
<1>2. AppliedInOrder'
  BY DEF AppliedInOrder
<1>3. ASSUME NEW r \in Run
      PROVE  ExitIsTrue(r)' /\ SessionMatches(r)' /\ LockHeld(r)'
             /\ TransactionExtends(r)' /\ KnowsTheTable(r)'
  <2>exit. ExitIsTrue(r)'
    BY DEF ExitIsTrue, SessionMatches, TransactionExtends, KnowsTheTable, Locked
  <2>session. SessionMatches(r)'
    BY DEF SessionMatches, Locked
  <2>lock. LockHeld(r)'
    BY DEF LockHeld, SessionMatches, Locked
  <2>txn. TransactionExtends(r)'
    BY DEF TransactionExtends, SessionMatches, LockHeld, KnowsTheTable, Locked
  <2>table. KnowsTheTable(r)'
    BY DEF KnowsTheTable, SessionMatches, LockHeld, TransactionExtends, Locked
  <2> QED
    BY <2>exit, <2>session, <2>lock, <2>txn, <2>table
<1> QED
  BY <1>1, <1>2, <1>3

\* A run has applied what its image holds.
LEMMA AllAppliedInv ==
  ASSUME MigrationsInv, NEW q \in Run, AllApplied(q)
  PROVE  MigrationsInv'
<1> USE MigrationsAssumption DEF MigrationsInv, TypeOK, AllApplied, Goto, database, server
<1>1. TypeOK'
  BY DEF TransactionExtends
<1>2. AppliedInOrder'
  BY DEF AppliedInOrder
<1>3. ASSUME NEW r \in Run
      PROVE  ExitIsTrue(r)' /\ SessionMatches(r)' /\ LockHeld(r)'
             /\ TransactionExtends(r)' /\ KnowsTheTable(r)'
  <2>exit. ExitIsTrue(r)'
    BY DEF ExitIsTrue, SessionMatches, TransactionExtends, KnowsTheTable, Locked
  <2>session. SessionMatches(r)'
    BY DEF SessionMatches, Locked
  <2>lock. LockHeld(r)'
    BY DEF LockHeld, SessionMatches, Locked
  <2>txn. TransactionExtends(r)'
    BY DEF TransactionExtends, SessionMatches, LockHeld, KnowsTheTable, Locked
  <2>table. KnowsTheTable(r)'
    <3>1. CASE r = q
      <4>1. 1 .. Last[q] \subseteq table
        BY DEF KnowsTheTable
      <4> QED
        BY <3>1, <4>1 DEF KnowsTheTable
    <3>2. CASE r # q
      BY <3>2 DEF KnowsTheTable
    <3> QED
      BY <3>1, <3>2
  <2> QED
    BY <2>exit, <2>session, <2>lock, <2>txn, <2>table
<1> QED
  BY <1>1, <1>2, <1>3

\* A run gives the lock back.
LEMMA ReleaseLockInv ==
  ASSUME MigrationsInv, NEW q \in Run, ReleaseLock(q)
  PROVE  MigrationsInv'
<1> USE MigrationsAssumption DEF MigrationsInv, TypeOK, ReleaseLock, Goto, database, server
<1>1. TypeOK'
  BY DEF TransactionExtends
<1>2. AppliedInOrder'
  BY DEF AppliedInOrder
<1>3. ASSUME NEW r \in Run
      PROVE  ExitIsTrue(r)' /\ SessionMatches(r)' /\ LockHeld(r)'
             /\ TransactionExtends(r)' /\ KnowsTheTable(r)'
  <2>exit. ExitIsTrue(r)'
    BY DEF ExitIsTrue, SessionMatches, TransactionExtends, KnowsTheTable, Locked
  <2>session. SessionMatches(r)'
    BY DEF SessionMatches, Locked
  <2>lock. LockHeld(r)'
    BY DEF LockHeld, SessionMatches, Locked
  <2>txn. TransactionExtends(r)'
    BY DEF TransactionExtends, SessionMatches, LockHeld, KnowsTheTable, Locked
  <2>table. KnowsTheTable(r)'
    BY DEF KnowsTheTable, SessionMatches, LockHeld, TransactionExtends, Locked
  <2> QED
    BY <2>exit, <2>session, <2>lock, <2>txn, <2>table
<1> QED
  BY <1>1, <1>2, <1>3

\* A run ends with its exit code.
LEMMA EndPoolInv ==
  ASSUME MigrationsInv, NEW q \in Run, EndPool(q)
  PROVE  MigrationsInv'
<1> USE MigrationsAssumption DEF MigrationsInv, TypeOK, EndPool, CloseSession, Goto, database, server
<1>1. TypeOK'
  <2>1. lock' \in Run \union {Nobody}
    OBVIOUS
  <2>2. pc' \in [Run -> {"start", "wait", "settings", "read", "next", "insert", "commit",
                        "committing", "wait left", "commit left", "unlock", "end", "done"}]
    OBVIOUS
  <2>3. exit' \in [Run -> {"none", "ok", "failed"}]
    OBVIOUS
  <2>4. session' \in [Run -> {"none", "open", "left"}] /\ sent' \in [Run -> File \union {0}]
    OBVIOUS
  <2> QED
    BY <2>1, <2>2, <2>3, <2>4
<1>2. AppliedInOrder'
  BY DEF AppliedInOrder
<1>3. ASSUME NEW r \in Run
      PROVE  ExitIsTrue(r)' /\ SessionMatches(r)' /\ LockHeld(r)'
             /\ TransactionExtends(r)' /\ KnowsTheTable(r)'
  <2>exit. ExitIsTrue(r)'
    BY DEF ExitIsTrue, SessionMatches, TransactionExtends, KnowsTheTable, Locked
  <2>session. SessionMatches(r)'
    BY DEF SessionMatches, Locked
  <2>lock. LockHeld(r)'
    BY DEF LockHeld, SessionMatches, Locked
  <2>txn. TransactionExtends(r)'
    BY DEF TransactionExtends, SessionMatches, LockHeld, KnowsTheTable, Locked
  <2>table. KnowsTheTable(r)'
    BY DEF KnowsTheTable, SessionMatches, LockHeld, TransactionExtends, Locked
  <2> QED
    BY <2>exit, <2>session, <2>lock, <2>txn, <2>table
<1> QED
  BY <1>1, <1>2, <1>3

\* A run finds no database.
LEMMA ConnectFailsInv ==
  ASSUME MigrationsInv, NEW q \in Run, ConnectFails(q)
  PROVE  MigrationsInv'
<1> USE MigrationsAssumption DEF MigrationsInv, TypeOK, ConnectFails, Goto, database, server
<1>1. TypeOK'
  BY DEF TransactionExtends
<1>2. AppliedInOrder'
  BY DEF AppliedInOrder
<1>3. ASSUME NEW r \in Run
      PROVE  ExitIsTrue(r)' /\ SessionMatches(r)' /\ LockHeld(r)'
             /\ TransactionExtends(r)' /\ KnowsTheTable(r)'
  <2>exit. ExitIsTrue(r)'
    BY DEF ExitIsTrue, SessionMatches, TransactionExtends, KnowsTheTable, Locked
  <2>session. SessionMatches(r)'
    BY DEF SessionMatches, Locked
  <2>lock. LockHeld(r)'
    BY DEF LockHeld, SessionMatches, Locked
  <2>txn. TransactionExtends(r)'
    BY DEF TransactionExtends, SessionMatches, LockHeld, KnowsTheTable, Locked
  <2>table. KnowsTheTable(r)'
    BY DEF KnowsTheTable, SessionMatches, LockHeld, TransactionExtends, Locked
  <2> QED
    BY <2>exit, <2>session, <2>lock, <2>txn, <2>table
<1> QED
  BY <1>1, <1>2, <1>3

\* A statement of a run fails.
LEMMA StatementFailsInv ==
  ASSUME MigrationsInv, NEW q \in Run, StatementFails(q)
  PROVE  MigrationsInv'
<1> USE MigrationsAssumption DEF MigrationsInv, TypeOK, StatementFails, GiveUp, Goto, database, server
<1>1. TypeOK'
  <2>2. pc' \in [Run -> {"start", "wait", "settings", "read", "next", "insert", "commit",
                        "committing", "wait left", "commit left", "unlock", "end", "done"}]
    OBVIOUS
  <2>3. exit' \in [Run -> {"none", "ok", "failed"}]
    OBVIOUS
  <2>4. sent' \in [Run -> File \union {0}] /\ faulted' \subseteq Run
    OBVIOUS
  <2> QED
    BY <2>2, <2>3, <2>4
<1>2. AppliedInOrder'
  BY DEF AppliedInOrder
<1>3. ASSUME NEW r \in Run
      PROVE  ExitIsTrue(r)' /\ SessionMatches(r)' /\ LockHeld(r)'
             /\ TransactionExtends(r)' /\ KnowsTheTable(r)'
  <2>exit. ExitIsTrue(r)'
    BY DEF ExitIsTrue, SessionMatches, TransactionExtends, KnowsTheTable, Locked
  <2>session. SessionMatches(r)'
    BY DEF SessionMatches, Locked
  <2>lock. LockHeld(r)'
    BY DEF LockHeld, SessionMatches, Locked
  <2>txn. TransactionExtends(r)'
    BY DEF TransactionExtends, SessionMatches, LockHeld, KnowsTheTable, Locked
  <2>table. KnowsTheTable(r)'
    BY DEF KnowsTheTable, SessionMatches, LockHeld, TransactionExtends, Locked
  <2> QED
    BY <2>exit, <2>session, <2>lock, <2>txn, <2>table
<1> QED
  BY <1>1, <1>2, <1>3

\* A run is gone and leaves its session behind.
LEMMA GoneInv ==
  ASSUME MigrationsInv, NEW q \in Run, Gone(q)
  PROVE  MigrationsInv'
<1> USE MigrationsAssumption DEF MigrationsInv, TypeOK, Gone, Goto, database, server
<1>1. TypeOK'
  BY DEF TransactionExtends
<1>2. AppliedInOrder'
  BY DEF AppliedInOrder
<1>3. ASSUME NEW r \in Run
      PROVE  ExitIsTrue(r)' /\ SessionMatches(r)' /\ LockHeld(r)'
             /\ TransactionExtends(r)' /\ KnowsTheTable(r)'
  <2>exit. ExitIsTrue(r)'
    BY DEF ExitIsTrue, SessionMatches, TransactionExtends, KnowsTheTable, Locked
  <2>session. SessionMatches(r)'
    BY DEF SessionMatches, Locked
  <2>lock. LockHeld(r)'
    BY DEF LockHeld, SessionMatches, Locked
  <2>txn. TransactionExtends(r)'
    BY DEF TransactionExtends, SessionMatches, LockHeld, KnowsTheTable, Locked
  <2>table. KnowsTheTable(r)'
    BY DEF KnowsTheTable, SessionMatches, LockHeld, TransactionExtends, Locked
  <2> QED
    BY <2>exit, <2>session, <2>lock, <2>txn, <2>table
<1> QED
  BY <1>1, <1>2, <1>3

\* An abandoned session is given the lock.
LEMMA LockLandsLateInv ==
  ASSUME MigrationsInv, NEW q \in Run, LockLandsLate(q)
  PROVE  MigrationsInv'
<1> USE MigrationsAssumption DEF MigrationsInv, TypeOK, LockLandsLate, Goto, database, server
<1>1. TypeOK'
  BY DEF TransactionExtends
<1>2. AppliedInOrder'
  BY DEF AppliedInOrder
<1>3. ASSUME NEW r \in Run
      PROVE  ExitIsTrue(r)' /\ SessionMatches(r)' /\ LockHeld(r)'
             /\ TransactionExtends(r)' /\ KnowsTheTable(r)'
  <2>exit. ExitIsTrue(r)'
    BY DEF ExitIsTrue, SessionMatches, TransactionExtends, KnowsTheTable, Locked
  <2>session. SessionMatches(r)'
    BY DEF SessionMatches, Locked
  <2>lock. LockHeld(r)'
    BY DEF LockHeld, SessionMatches, Locked
  <2>txn. TransactionExtends(r)'
    BY DEF TransactionExtends, SessionMatches, LockHeld, KnowsTheTable, Locked
  <2>table. KnowsTheTable(r)'
    BY DEF KnowsTheTable, SessionMatches, LockHeld, TransactionExtends, Locked
  <2> QED
    BY <2>exit, <2>session, <2>lock, <2>txn, <2>table
<1> QED
  BY <1>1, <1>2, <1>3

\* The server ends an abandoned session.
LEMMA SessionEndsInv ==
  ASSUME MigrationsInv, NEW q \in Run, SessionEnds(q)
  PROVE  MigrationsInv'
<1> USE MigrationsAssumption DEF MigrationsInv, TypeOK, SessionEnds, CloseSession, Goto, database, server
<1>1. TypeOK'
  <2>1. lock' \in Run \union {Nobody}
    OBVIOUS
  <2>2. pc' \in [Run -> {"start", "wait", "settings", "read", "next", "insert", "commit",
                        "committing", "wait left", "commit left", "unlock", "end", "done"}]
    OBVIOUS
  <2>3. exit' \in [Run -> {"none", "ok", "failed"}]
    OBVIOUS
  <2>4. session' \in [Run -> {"none", "open", "left"}] /\ sent' \in [Run -> File \union {0}]
    OBVIOUS
  <2> QED
    BY <2>1, <2>2, <2>3, <2>4
<1>2. AppliedInOrder'
  BY DEF AppliedInOrder
<1>3. ASSUME NEW r \in Run
      PROVE  ExitIsTrue(r)' /\ SessionMatches(r)' /\ LockHeld(r)'
             /\ TransactionExtends(r)' /\ KnowsTheTable(r)'
  <2>exit. ExitIsTrue(r)'
    BY DEF ExitIsTrue, SessionMatches, TransactionExtends, KnowsTheTable, Locked
  <2>session. SessionMatches(r)'
    BY DEF SessionMatches, Locked
  <2>lock. LockHeld(r)'
    BY DEF LockHeld, SessionMatches, Locked
  <2>txn. TransactionExtends(r)'
    BY DEF TransactionExtends, SessionMatches, LockHeld, KnowsTheTable, Locked
  <2>table. KnowsTheTable(r)'
    BY DEF KnowsTheTable, SessionMatches, LockHeld, TransactionExtends, Locked
  <2> QED
    BY <2>exit, <2>session, <2>lock, <2>txn, <2>table
<1> QED
  BY <1>1, <1>2, <1>3

-----------------------------------------------------------------------------
(* The theorems.                                                           *)

\* Every reachable state satisfies the invariant (runMigrations.js:83-156).
THEOREM InductiveInvariant == Spec => []MigrationsInv
<1>1. MigrationsInv /\ [Next]_vars => MigrationsInv'
  <2> SUFFICES ASSUME MigrationsInv, [Next]_vars PROVE MigrationsInv'
    OBVIOUS
  <2>1. CASE Next
    <3> PICK q \in Run :
          \/ Connect(q) \/ AcquireLock(q) \/ SetTimeouts(q) \/ ReadApplied(q) \/ ApplyFile(q)
          \/ InsertRow(q) \/ SendCommit(q) \/ CommitLands(q) \/ CommitAnswered(q) \/ AllApplied(q)
          \/ ReleaseLock(q) \/ EndPool(q) \/ ConnectFails(q) \/ StatementFails(q) \/ Gone(q)
          \/ LockLandsLate(q) \/ SessionEnds(q)
      BY <2>1 DEF Next
    <3> QED
      BY ConnectInv, AcquireLockInv, SetTimeoutsInv, ReadAppliedInv, ApplyFileInv, InsertRowInv,
         SendCommitInv, CommitLandsInv, CommitAnsweredInv, AllAppliedInv, ReleaseLockInv, EndPoolInv,
         ConnectFailsInv, StatementFailsInv, GoneInv, LockLandsLateInv, SessionEndsInv
  <2>2. CASE UNCHANGED vars
    BY <2>2 DEF vars, database, server, script, MigrationsInv, TypeOK, AppliedInOrder,
       ExitIsTrue, SessionMatches, LockHeld, TransactionExtends, KnowsTheTable
  <2> QED
    BY <2>1, <2>2
<1> QED
  BY InitInv, <1>1, PTL DEF Spec

\* The applied files are the first ones, each applied once, and the exit code of a run tells
\* whether all of its image is applied (runMigrations.js:96-153).
THEOREM MigrationsAreSound == Spec => []MigrationsSound
<1>1. MigrationsInv => MigrationsSound
  BY DEF MigrationsInv, MigrationsSound
<1> QED
  BY InductiveInvariant, <1>1, PTL

-----------------------------------------------------------------------------
(* Wallets (WalletRequests).                                               *)
WalletRow == [state : {"none", "live", "gone"}, address : Address \union {Same},
              chain : Chain \union {Same}, enabled : SUBSET Chain]

-----------------------------------------------------------------------------
(* The parts of the invariant.                                             *)

LEMMA RequestTypes ==
  ASSUME Wallets!RequestsInv
  PROVE  /\ account \in BOOLEAN
         /\ wallet \in [Wallets!Id -> WalletRow]
         /\ setting \in [Wallets!Id -> {"on", "off"}]
         /\ walletRequest \in [WalletRequest -> Wallets!Work]
         /\ late \in [WalletRequest -> SUBSET Wallets!Id]
         /\ excused \subseteq SUBSET Wallets!Id
         /\ overtaken \subseteq WalletRequest /\ lost \subseteq WalletRequest /\ walletFaults \subseteq WalletRequest
  BY DEF Wallets!RequestsInv, Wallets!TypeOK, WalletRow

LEMMA IdIsNotZero == \A i \in Wallets!Id : i # 0 /\ i \in Nat
  BY DEF Wallets!Id

LEMMA LiveIds == Wallets!Live \subseteq Wallets!Id /\ \A i \in Wallets!Id : i \in Wallets!Live <=> wallet[i].state = "live"
  BY DEF Wallets!Live

LEMMA AtAddress == \A a, i : i \in Wallets!At(a) <=> i \in Wallets!Live /\ wallet[i].address = a
  BY DEF Wallets!At

\* What Explained asks for, answer by answer: of the request, whether its wallet lives, what came
\* to the address, whether the user is there, whether it failed and was overtaken.
Answered(w, alive, came, there, failed, disturbed) ==
  /\ w.answer \in {"missing", "empty", "deleted"} => ~ alive
  /\ w.answer = "conflict" => came # {}
  /\ w.answer = "no user" => ~ there
  /\ w.answer = "error" => \/ failed
                           \/ w.kind = "create" /\ came # {}
                           \/ w.kind = "update" /\ w.address # Same
                           \/ w.kind = "put" /\ ~ alive
  /\ w.answer = "ok" /\ w.kind # "put" /\ ~ disturbed =>
       w.address \in {Same, w.seen} /\ w.shown # {} /\ w.chains \in {{}, w.shown}
  /\ w.answer # "unverified"

LEMMA ExplainedParts ==
  ASSUME NEW r \in WalletRequest
  PROVE  Wallets!Explained(r) <=> Answered(walletRequest[r], walletRequest[r].id \in Wallets!Live, late[r], account,
                                           r \in walletFaults, r \in overtaken)
<1> DEFINE w == walletRequest[r]
<1>1. CASE w.answer \in {"missing", "empty", "deleted"}
  BY <1>1 DEF Wallets!Explained, Answered
<1>2. CASE w.answer = "conflict"
  BY <1>2 DEF Wallets!Explained, Answered
<1>3. CASE w.answer = "no user"
  BY <1>3 DEF Wallets!Explained, Answered
<1>4. CASE w.answer = "error"
  BY <1>4 DEF Wallets!Explained, Answered
<1>5. CASE w.answer = "ok" /\ w.kind # "put"
  BY <1>5 DEF Wallets!Explained, Answered
<1>6. CASE /\ w.answer \notin {"missing", "empty", "deleted", "conflict", "no user", "error"}
           /\ ~ (w.answer = "ok" /\ w.kind # "put")
  BY <1>6 DEF Wallets!Explained, Answered
<1> QED
  BY <1>1, <1>2, <1>3, <1>4, <1>5, <1>6

\* The same of the next state.
LEMMA ExplainedNext ==
  ASSUME NEW r \in WalletRequest
  PROVE  Wallets!Explained(r)' <=> Answered(walletRequest'[r], walletRequest'[r].id \in Wallets!Live', late'[r], account',
                                            r \in walletFaults', r \in overtaken')
<1> DEFINE w == walletRequest'[r]
<1>1. CASE w.answer \in {"missing", "empty", "deleted"}
  BY <1>1 DEF Wallets!Explained, Answered
<1>2. CASE w.answer = "conflict"
  BY <1>2 DEF Wallets!Explained, Answered
<1>3. CASE w.answer = "no user"
  BY <1>3 DEF Wallets!Explained, Answered
<1>4. CASE w.answer = "error"
  BY <1>4 DEF Wallets!Explained, Answered
<1>5. CASE w.answer = "ok" /\ w.kind # "put"
  BY <1>5 DEF Wallets!Explained, Answered
<1>6. CASE /\ w.answer \notin {"missing", "empty", "deleted", "conflict", "no user", "error"}
           /\ ~ (w.answer = "ok" /\ w.kind # "put")
  BY <1>6 DEF Wallets!Explained, Answered
<1> QED
  BY <1>1, <1>2, <1>3, <1>4, <1>5, <1>6

LEMMA LessIsRelated ==
  ASSUME NEW x \in Nat, NEW y \in Nat, y < x
  PROVE  <<y, x>> \in OpToRel(<, Nat)
  BY DEF OpToRel

\* A set of numbers has a least one.
LEMMA LeastExists ==
  ASSUME NEW S \in SUBSET Nat, S # {}
  PROVE  \E x \in S : \A y \in S : x <= y
<1>1. PICK x \in S : \A y \in S : ~ (<<y, x>> \in OpToRel(<, Nat))
  BY NatLessThanWellFounded, WFMin
<1>2. ASSUME NEW y \in S PROVE x <= y
  <2>1. x \in Nat /\ y \in Nat /\ ~ (y < x)
    BY <1>1, LessIsRelated
  <2> QED
    BY <2>1
<1> QED
  BY <1>2

\* The oldest of some wallets.
LEMMA OldestExists ==
  ASSUME NEW S \in SUBSET Wallets!Id, S # {}
  PROVE  (CHOOSE i \in S : \A j \in S : i <= j) \in S
<1>1. S \in SUBSET Nat
  BY IdIsNotZero
<1>2. \E i \in S : \A j \in S : i <= j
  BY <1>1, LeastExists
<1> QED
  BY <1>2

-----------------------------------------------------------------------------
(* What a step may do to the requests it does not move.                    *)

\* Wallets come, change and go; what came to an address and who was overtaken is noted.
Evolves ==
  /\ account' \in BOOLEAN /\ (account' => account)
  /\ wallet' \in [Wallets!Id -> WalletRow]
  /\ \A i \in Wallets!Id : wallet[i].state # "none" =>
       /\ wallet'[i].state # "none" /\ wallet'[i].chain = wallet[i].chain
       /\ wallet[i].state = "gone" => wallet'[i].state = "gone"
  /\ late' \in [WalletRequest -> SUBSET Wallets!Id] /\ \A q \in WalletRequest : late[q] \subseteq late'[q]
  /\ overtaken \subseteq overtaken' /\ overtaken' \subseteq WalletRequest
  /\ walletFaults \subseteq walletFaults' /\ walletFaults' \subseteq WalletRequest

\* Wallets whose address is new to them.
Newcomer(i) == i \in Wallets!Live' /\ ~ (i \in Wallets!Live /\ wallet'[i].address = wallet[i].address)

\* A creation that looked hears of newcomers, the others of what they rely on.
Noted(q) ==
  /\ walletRequest[q].pc \in {"insert", "update"} /\ walletRequest[q].kind = "create" =>
       \A i \in Wallets!Id : Newcomer(i) /\ wallet'[i].address = walletRequest[q].address => i \in late'[q]
  /\ walletRequest[q].pc \in {"row", "chains"} /\ q \notin overtaken' =>
       wallet'[walletRequest[q].id] = wallet[walletRequest[q].id]
  /\ walletRequest[q].pc = "put" /\ q \notin overtaken' => setting'[walletRequest[q].id] = setting[walletRequest[q].id]

LEMMA BegunKept ==
  ASSUME Wallets!RequestsInv, Evolves, NEW q \in WalletRequest, Noted(q),
         walletRequest'[q] = walletRequest[q]
  PROVE  Wallets!Begun(q)'
<1> DEFINE w == walletRequest[q]
<1>0. Wallets!Begun(q) /\ w \in Wallets!Work /\ late[q] \subseteq late'[q]
  BY RequestTypes DEF Wallets!RequestsInv, Evolves
<1>1. \A i \in Wallets!Id : i \in Wallets!Live' <=> wallet'[i].state = "live"
  BY DEF Wallets!Live
<1>2. \A i \in Wallets!Id : wallet[i].state # "none" => wallet'[i].state # "none"
  BY DEF Evolves
<1>3. w.id # 0 => wallet'[w.id].state # "none"
  BY <1>0, <1>2 DEF Wallets!Begun, Wallets!Work
<1>4. ASSUME w.pc = "insert", NEW i \in Wallets!At(w.address)' PROVE i \in late'[q]
  <2>1. i \in Wallets!Id /\ i \in Wallets!Live' /\ wallet'[i].address = w.address
    BY <1>4 DEF Wallets!At, Wallets!Live
  <2>2. CASE Newcomer(i)
    BY <1>0, <1>4, <2>1, <2>2 DEF Noted, Wallets!Begun
  <2>3. CASE ~ Newcomer(i)
    BY <1>0, <1>4, <2>1, <2>3 DEF Newcomer, Wallets!Begun, Wallets!At
  <2> QED
    BY <2>2, <2>3
<1>5. ASSUME w.pc = "update", w.kind = "create", NEW i \in Wallets!At(w.address)',
             i \notin late'[q], i # w.id
      PROVE  wallet'[i].chain # wallet'[w.id].chain
  <2>1. i \in Wallets!Id /\ i \in Wallets!Live' /\ wallet'[i].address = w.address
    BY <1>5 DEF Wallets!At, Wallets!Live
  <2>2. ~ Newcomer(i)
    BY <1>5, <2>1 DEF Noted
  <2>3. i \in Wallets!At(w.address) \ late[q]
    BY <1>0, <1>5, <2>1, <2>2 DEF Newcomer, Wallets!At
  <2>4. wallet[i].chain # wallet[w.id].chain
    BY <1>0, <1>5, <2>3 DEF Wallets!Begun
  <2>5. w.id \in Wallets!Id /\ wallet[w.id].state # "none" /\ wallet[i].state # "none"
    BY <1>0, <1>5, <2>3, IdIsNotZero DEF Wallets!Begun, Wallets!At, Wallets!Live
  <2> QED
    BY <2>1, <2>4, <2>5 DEF Evolves
<1>6. ASSUME w.pc = "verify" PROVE w.id \notin Wallets!Live'
  <2>1. w.id \in Wallets!Id /\ wallet[w.id].state \notin {"none", "live"}
    BY <1>0, <1>6, IdIsNotZero, LiveIds DEF Wallets!Begun
  <2>2. wallet[w.id].state = "gone"
    BY <2>1, RequestTypes DEF WalletRow
  <2> QED
    BY <1>1, <2>1, <2>2 DEF Evolves
<1> QED
  BY <1>0, <1>3, <1>4, <1>5, <1>6 DEF Wallets!Begun

LEMMA UndisturbedKept ==
  ASSUME Wallets!RequestsInv, Evolves, NEW q \in WalletRequest, Noted(q),
         walletRequest'[q] = walletRequest[q]
  PROVE  Wallets!Undisturbed(q)'
<1> DEFINE w == walletRequest[q]
<1>0. Wallets!Begun(q) /\ Wallets!Undisturbed(q) /\ w \in Wallets!Work
  BY RequestTypes DEF Wallets!RequestsInv
<1>1. \A i \in Wallets!Id : i \in Wallets!Live' <=> wallet'[i].state = "live"
  BY DEF Wallets!Live
<1>2. q \notin overtaken' => q \notin overtaken
  BY DEF Evolves
<1>3. w.pc \in {"row", "chains"} => w.id \in Wallets!Id
  BY <1>0 DEF Wallets!Begun
<1>4. ASSUME w.pc \in {"row", "chains"}, q \notin overtaken'
      PROVE  w.id \in Wallets!Live' /\ wallet'[w.id] = wallet[w.id]
  BY <1>0, <1>1, <1>2, <1>3, <1>4, LiveIds DEF Noted, Wallets!Undisturbed
<1>5. w.pc = "put" /\ q \notin overtaken' => w.seen = setting'[w.id]
  BY <1>0, <1>2 DEF Noted, Wallets!Undisturbed
<1> QED
  BY <1>0, <1>2, <1>4, <1>5 DEF Wallets!Undisturbed

LEMMA ExplainedKept ==
  ASSUME Wallets!RequestsInv, Evolves, NEW q \in WalletRequest,
         walletRequest'[q] = walletRequest[q]
  PROVE  Wallets!Explained(q)'
<1> DEFINE w == walletRequest[q]
<1>1. Answered(w, w.id \in Wallets!Live, late[q], account, q \in walletFaults, q \in overtaken)
  BY ExplainedParts DEF Wallets!RequestsInv, Wallets!RequestsExplained
<1>3. w.id \notin Wallets!Live => w.id \notin Wallets!Live'
  <2>1. CASE w.id \in Wallets!Id
    <3>1. wallet[w.id].state # "none"
      BY <2>1, IdIsNotZero DEF Wallets!RequestsInv, Wallets!Begun
    <3> QED
      BY <2>1, <3>1, RequestTypes DEF Evolves, Wallets!Live, WalletRow
  <2>2. CASE w.id \notin Wallets!Id
    BY <2>2 DEF Wallets!Live
  <2> QED
    BY <2>1, <2>2
<1>4. Answered(w, w.id \in Wallets!Live', late'[q], account', q \in walletFaults', q \in overtaken')
  BY <1>1, <1>3, RequestTypes DEF Evolves, Answered
<1> QED
  BY <1>4, ExplainedNext

\* A request that did not answer yet explains itself.
LEMMA UnansweredExplained ==
  ASSUME NEW r \in WalletRequest, walletRequest'[r].answer = "none"
  PROVE  Wallets!Explained(r)'
  BY ExplainedNext DEF Answered

\* A step keeps the invariant when it keeps what it must of the requests it moves and of the rest.
LEMMA StepKeeps ==
  ASSUME Wallets!RequestsInv, Evolves,
         walletRequest' \in [WalletRequest -> Wallets!Work],
         setting' \in [Wallets!Id -> {"on", "off"}],
         excused' \subseteq SUBSET Wallets!Id, lost' \subseteq WalletRequest,
         \A q \in WalletRequest : \/ walletRequest'[q] = walletRequest[q] /\ Noted(q)
                                  \/ Wallets!Begun(q)' /\ Wallets!Undisturbed(q)' /\ Wallets!Explained(q)',
         \A i \in Wallets!Live' : wallet'[i].enabled # {} /\ wallet'[i].address # Same,
         Wallets!TwinsExplained', Wallets!SettingsKept'
  PROVE  Wallets!RequestsInv'
<1>1. Wallets!TypeOK'
  BY RequestTypes DEF Evolves, Wallets!TypeOK, WalletRow, Wallets!RequestsInv
<1>2. ASSUME NEW q \in WalletRequest PROVE Wallets!Begun(q)' /\ Wallets!Undisturbed(q)' /\ Wallets!Explained(q)'
  BY BegunKept, UndisturbedKept, ExplainedKept
<1> QED
  BY <1>1, <1>2 DEF Wallets!RequestsInv, Wallets!RequestsExplained

\* A step that only moves a request.
LEMMA QuietStep ==
  ASSUME Wallets!RequestsInv, NEW r \in WalletRequest,
         UNCHANGED <<account, wallet, setting, late, excused, overtaken, lost>>,
         walletFaults \subseteq walletFaults', walletFaults' \subseteq WalletRequest,
         walletRequest' \in [WalletRequest -> Wallets!Work],
         \A q \in WalletRequest \ {r} : walletRequest'[q] = walletRequest[q],
         Wallets!Begun(r)', Wallets!Undisturbed(r)', Wallets!Explained(r)'
  PROVE  Wallets!RequestsInv'
<1>1. Evolves
  BY RequestTypes DEF Evolves
<1>2. ASSUME NEW q \in WalletRequest PROVE Noted(q)
  <2>1. Wallets!Live' = Wallets!Live
    BY DEF Wallets!Live
  <2> QED
    BY <2>1 DEF Noted, Newcomer
<1>3. \A i \in Wallets!Live' : wallet'[i].enabled # {} /\ wallet'[i].address # Same
  BY DEF Wallets!RequestsInv, Wallets!Live
<1>4. Wallets!TwinsExplained' /\ Wallets!SettingsKept'
  BY DEF Wallets!RequestsInv, Wallets!RequestsExplained, Wallets!TwinsExplained,
     Wallets!SettingsKept, Wallets!Live
<1> QED
  BY <1>1, <1>2, <1>3, <1>4, RequestTypes, StepKeeps

-----------------------------------------------------------------------------
(* The looks.                                                              *)

\* What a request is when it does not work on a wallet with a commit of its own.
LEMMA NoRequestInWork == Wallets!NoRequest \in Wallets!Work
  BY DEF Wallets!NoRequest, Wallets!Work

LEMMA CreateKeeps ==
  ASSUME Wallets!RequestsInv, Wallets!NamesAssumption, NEW r \in WalletRequest, Wallets!Create(r)
  PROVE  Wallets!RequestsInv'
<1>a. PICK a \in Address, chains \in (SUBSET Chain) \ {{}} : \E c \in chains :
        LET found == Wallets!Found(a, c)
            asks == [Wallets!NoRequest EXCEPT !.kind = "create", !.address = a, !.chains = chains, !.chain = c]
        IN  walletRequest' = [walletRequest EXCEPT ![r] =
              IF found = {} THEN [asks EXCEPT !.pc = "insert"]
              ELSE [asks EXCEPT !.pc = "update", !.id = CHOOSE i \in found : \A j \in found : i <= j]]
  BY DEF Wallets!Create
<1>1. PICK c \in chains :
        LET found == Wallets!Found(a, c)
            asks == [Wallets!NoRequest EXCEPT !.kind = "create", !.address = a, !.chains = chains, !.chain = c]
        IN  walletRequest' = [walletRequest EXCEPT ![r] =
              IF found = {} THEN [asks EXCEPT !.pc = "insert"]
              ELSE [asks EXCEPT !.pc = "update", !.id = CHOOSE i \in found : \A j \in found : i <= j]]
  BY <1>a
<1> DEFINE asks == [Wallets!NoRequest EXCEPT !.kind = "create", !.address = a, !.chains = chains, !.chain = c]
           oldest == CHOOSE i \in Wallets!At(a) : \A j \in Wallets!At(a) : i <= j
           w == IF Wallets!At(a) = {} THEN [asks EXCEPT !.pc = "insert"]
                ELSE [asks EXCEPT !.pc = "update", !.id = oldest]
<1>2. walletRequest' = [walletRequest EXCEPT ![r] = w]
  BY <1>1 DEF Wallets!Found
<1>3. Wallets!At(a) \subseteq Wallets!Id /\ (Wallets!At(a) # {} => oldest \in Wallets!At(a))
  BY OldestExists DEF Wallets!At, Wallets!Live
<1>4. /\ w.kind = "create" /\ w.address = a /\ w.chains = chains /\ w.chain = c
      /\ w.answer = "none" /\ w.seen = Same /\ w.shown = {} /\ w.flag = Same
      /\ Wallets!At(a) = {} => w.pc = "insert" /\ w.id = 0
      /\ Wallets!At(a) # {} => w.pc = "update" /\ w.id = oldest
  BY DEF Wallets!NoRequest
<1>5. w \in Wallets!Work
  BY <1>3 DEF Wallets!NoRequest, Wallets!Work
<1> HIDE DEF w
<1>6. walletRequest'[r] = w /\ (\A q \in WalletRequest \ {r} : walletRequest'[q] = walletRequest[q])
      /\ walletRequest' \in [WalletRequest -> Wallets!Work]
  BY <1>2, <1>5, RequestTypes
<1>7. UNCHANGED <<account, wallet, setting, late, excused, overtaken, lost, walletFaults>>
  BY DEF Wallets!Create
<1>8. a # Same /\ c # Same /\ chains # {}
  BY DEF Wallets!NamesAssumption
<1>9. CASE Wallets!At(a) = {}
  <2>1. walletRequest'[r].pc = "insert" /\ walletRequest'[r].address = a /\ walletRequest'[r].id = 0
        /\ walletRequest'[r].kind = "create" /\ walletRequest'[r].chain = c /\ walletRequest'[r].chains = chains
        /\ walletRequest'[r].answer = "none"
    BY <1>4, <1>6, <1>9
  <2>a. Wallets!At(walletRequest[r].address)' = Wallets!At(a)
    BY <1>7, <2>1 DEF Wallets!At, Wallets!Live
  <2>2. Wallets!Begun(r)' /\ Wallets!Undisturbed(r)'
    BY <1>8, <1>9, <2>1, <2>a DEF Wallets!Begun, Wallets!Undisturbed
  <2> QED
    BY <1>4, <1>6, <1>7, <2>2, UnansweredExplained, QuietStep, RequestTypes
<1>10. CASE Wallets!At(a) # {}
  <2>1. oldest \in Wallets!Live /\ oldest \in Wallets!Id /\ wallet[oldest].address = a /\ wallet[oldest].state = "live"
    BY <1>3, <1>10 DEF Wallets!At, Wallets!Live
  <2>2. \A i \in Wallets!At(a)' \ late'[r] : i = oldest \/ wallet'[i].chain # wallet'[oldest].chain
    BY <1>7, <2>1 DEF Wallets!At, Wallets!Live, Wallets!RequestsInv,
       Wallets!RequestsExplained, Wallets!TwinsExplained
  <2>3. Wallets!Begun(r)'
    BY <1>4, <1>6, <1>7, <1>8, <1>10, <2>1, <2>2 DEF Wallets!Begun
  <2>4. Wallets!Undisturbed(r)'
    BY <1>4, <1>6, <1>10 DEF Wallets!Undisturbed
  <2> QED
    BY <1>4, <1>6, <1>7, <2>3, <2>4, UnansweredExplained, QuietStep, RequestTypes
<1> QED
  BY <1>9, <1>10

\* A look at the wallet a request names: the request begins, or the wallet is gone.
LEMMA LookKeeps ==
  ASSUME Wallets!RequestsInv, NEW r \in WalletRequest, NEW asks \in Wallets!Work,
         NEW step \in {"update", "delete", "settings"},
         UNCHANGED <<account, wallet, setting, late, excused, overtaken, lost, walletFaults>>,
         asks.answer = "none",
         step = "update" => asks.kind = "update",
         step = "settings" => asks.kind = "put",
         Wallets!Look(r, asks, step)
  PROVE  Wallets!RequestsInv'
<1>1. PICK i \in {j \in Wallets!Id : wallet[j].state # "none"} :
        walletRequest' = [walletRequest EXCEPT ![r] =
          IF i \in Wallets!Live THEN [asks EXCEPT !.id = i, !.pc = step]
          ELSE [asks EXCEPT !.id = i, !.pc = "done", !.answer = "missing"]]
  BY DEF Wallets!Look
<1>2. CASE i \in Wallets!Live
  <2> DEFINE w == [asks EXCEPT !.id = i, !.pc = step]
  <2>1. w \in Wallets!Work
    BY DEF Wallets!Work
  <2>2. w.id = i /\ w.pc = step /\ w.kind = asks.kind /\ w.answer = "none"
    BY DEF Wallets!Work
  <2>3. walletRequest' = [walletRequest EXCEPT ![r] = w]
    BY <1>1, <1>2
  <2> HIDE DEF w
  <2>4. walletRequest'[r] = w /\ (\A q \in WalletRequest \ {r} : walletRequest'[q] = walletRequest[q])
        /\ walletRequest' \in [WalletRequest -> Wallets!Work]
    BY <2>1, <2>3, RequestTypes
  <2>5. Wallets!Begun(r)'
    BY <1>2, <2>2, <2>4, LiveIds DEF Wallets!Begun
  <2>6. Wallets!Undisturbed(r)'
    BY <2>2, <2>4 DEF Wallets!Undisturbed
  <2> QED
    BY <2>2, <2>4, <2>5, <2>6, UnansweredExplained, QuietStep, RequestTypes
<1>3. CASE i \notin Wallets!Live
  <2> DEFINE w == [asks EXCEPT !.id = i, !.pc = "done", !.answer = "missing"]
  <2>1. w \in Wallets!Work
    BY DEF Wallets!Work
  <2>2. w.id = i /\ w.pc = "done" /\ w.kind = asks.kind /\ w.answer = "missing"
    BY DEF Wallets!Work
  <2>3. walletRequest' = [walletRequest EXCEPT ![r] = w]
    BY <1>1, <1>3
  <2> HIDE DEF w
  <2>4. walletRequest'[r] = w /\ (\A q \in WalletRequest \ {r} : walletRequest'[q] = walletRequest[q])
        /\ walletRequest' \in [WalletRequest -> Wallets!Work]
    BY <2>1, <2>3, RequestTypes
  <2>5. Wallets!Begun(r)' /\ Wallets!Undisturbed(r)'
    BY <2>2, <2>4 DEF Wallets!Begun, Wallets!Undisturbed
  <2>6. i \notin Wallets!Live'
    BY <1>3 DEF Wallets!Live
  <2>7. Wallets!Explained(r)'
    BY <2>2, <2>4, <2>6, ExplainedNext DEF Answered
  <2> QED
    BY <2>4, <2>5, <2>7, QuietStep, RequestTypes
<1> QED
  BY <1>2, <1>3

LEMMA ChangeKeeps ==
  ASSUME Wallets!RequestsInv, NEW r \in WalletRequest, Wallets!Change(r)
  PROVE  Wallets!RequestsInv'
<1>1. UNCHANGED <<account, wallet, setting, late, excused, overtaken, lost, walletFaults>>
  BY DEF Wallets!Change
<1>2. ASSUME NEW a \in Address \union {Same}, NEW chains \in SUBSET Chain,
             Wallets!Look(r, [Wallets!NoRequest EXCEPT !.kind = "update", !.address = a, !.chains = chains], "update")
      PROVE  Wallets!RequestsInv'
  <2> DEFINE asks == [Wallets!NoRequest EXCEPT !.kind = "update", !.address = a, !.chains = chains]
  <2>1. asks \in Wallets!Work /\ asks.answer = "none" /\ asks.kind = "update"
    BY DEF Wallets!NoRequest, Wallets!Work
  <2>2. Wallets!Look(r, asks, "update")
    BY <1>2
  <2> HIDE DEF asks
  <2> QED
    BY <1>1, <2>1, <2>2, LookKeeps
<1>3. ASSUME Wallets!Look(r, [Wallets!NoRequest EXCEPT !.kind = "remove"], "delete")
      PROVE  Wallets!RequestsInv'
  <2> DEFINE asks == [Wallets!NoRequest EXCEPT !.kind = "remove"]
  <2>1. asks \in Wallets!Work /\ asks.answer = "none"
    BY DEF Wallets!NoRequest, Wallets!Work
  <2>2. Wallets!Look(r, asks, "delete")
    BY <1>3
  <2> HIDE DEF asks
  <2> QED
    BY <1>1, <2>1, <2>2, LookKeeps
<1>4. ASSUME NEW f \in {"on", "off", Same},
             Wallets!Look(r, [Wallets!NoRequest EXCEPT !.kind = "put", !.flag = f], "settings")
      PROVE  Wallets!RequestsInv'
  <2> DEFINE asks == [Wallets!NoRequest EXCEPT !.kind = "put", !.flag = f]
  <2>1. asks \in Wallets!Work /\ asks.answer = "none" /\ asks.kind = "put"
    BY DEF Wallets!NoRequest, Wallets!Work
  <2>2. Wallets!Look(r, asks, "settings")
    BY <1>4
  <2> HIDE DEF asks
  <2> QED
    BY <1>1, <2>1, <2>2, LookKeeps
<1> QED
  BY <1>2, <1>3, <1>4 DEF Wallets!Change

-----------------------------------------------------------------------------
(* The changes.                                                            *)

Answers ==
  {"none", "ok", "empty", "deleted", "unverified", "missing", "conflict", "no user", "error"}

\* The record of a request that is done.
LEMMA DoneInWork ==
  ASSUME NEW w \in Wallets!Work, NEW a \in Answers
  PROVE  LET done == [w EXCEPT !.pc = "done", !.answer = a] IN
         /\ done \in Wallets!Work
         /\ done.pc = "done" /\ done.answer = a
         /\ done.id = w.id /\ done.kind = w.kind
         /\ done.address = w.address /\ done.chains = w.chains
         /\ done.seen = w.seen /\ done.shown = w.shown
         /\ done.flag = w.flag
<1> DEFINE done == [w EXCEPT !.pc = "done", !.answer = a]
<1>1. done \in Wallets!Work
  BY ZenonT(40) DEF Wallets!Work, Answers
<1>2. done.pc = "done" /\ done.answer = a
  BY DEF Wallets!Work
<1>3. done.id = w.id /\ done.kind = w.kind /\ done.address = w.address /\ done.chains = w.chains
  BY DEF Wallets!Work
<1>4. done.seen = w.seen /\ done.shown = w.shown /\ done.flag = w.flag
  BY DEF Wallets!Work
<1> QED
  BY <1>1, <1>2, <1>3, <1>4

\* A request that answers at once, having changed nothing.
LEMMA AnswerMoves ==
  ASSUME Wallets!RequestsInv, NEW r \in WalletRequest, NEW a \in Answers, Wallets!Answer(r, a)
  PROVE  /\ walletRequest' \in [WalletRequest -> Wallets!Work]
         /\ \A q \in WalletRequest \ {r} : walletRequest'[q] = walletRequest[q]
         /\ walletRequest'[r].pc = "done" /\ walletRequest'[r].answer = a
         /\ walletRequest'[r].id = walletRequest[r].id /\ walletRequest'[r].kind = walletRequest[r].kind
         /\ walletRequest'[r].address = walletRequest[r].address /\ walletRequest'[r].chains = walletRequest[r].chains
         /\ walletRequest'[r].seen = walletRequest[r].seen /\ walletRequest'[r].shown = walletRequest[r].shown
         /\ walletRequest'[r].flag = walletRequest[r].flag
<1> DEFINE done == [walletRequest[r] EXCEPT !.pc = "done", !.answer = a]
<1>1. walletRequest[r] \in Wallets!Work /\ walletRequest' = [walletRequest EXCEPT ![r] = done]
  BY RequestTypes DEF Wallets!Answer
<1>2. /\ done \in Wallets!Work /\ done.pc = "done" /\ done.answer = a
      /\ done.id = walletRequest[r].id /\ done.kind = walletRequest[r].kind
      /\ done.address = walletRequest[r].address /\ done.chains = walletRequest[r].chains
      /\ done.seen = walletRequest[r].seen /\ done.shown = walletRequest[r].shown
      /\ done.flag = walletRequest[r].flag
  BY <1>1, DoneInWork
<1> HIDE DEF done
<1> QED
  BY <1>1, <1>2, RequestTypes

LEMMA AnswerIsDone ==
  ASSUME Wallets!RequestsInv, NEW r \in WalletRequest, NEW a \in Answers, Wallets!Answer(r, a),
         Evolves
  PROVE  Wallets!Begun(r)' /\ Wallets!Undisturbed(r)'
<1>1. Wallets!Begun(r) /\ walletRequest[r] \in Wallets!Work
  BY RequestTypes DEF Wallets!RequestsInv
<1>2. walletRequest'[r].pc = "done" /\ walletRequest'[r].id = walletRequest[r].id
  BY AnswerMoves
<1>3. walletRequest'[r].id # 0 => wallet'[walletRequest'[r].id].state # "none"
  BY <1>1, <1>2 DEF Wallets!Begun, Evolves, Wallets!Work
<1> QED
  BY <1>2, <1>3 DEF Wallets!Begun, Wallets!Undisturbed

\* The rest of a step that only answers.
LEMMA QuietAnswer ==
  ASSUME Wallets!RequestsInv, NEW r \in WalletRequest, NEW a \in Answers, Wallets!Answer(r, a),
         UNCHANGED <<account, wallet, setting, late, excused, overtaken, lost, walletFaults>>,
         Answered([walletRequest[r] EXCEPT !.pc = "done", !.answer = a], walletRequest[r].id \in Wallets!Live, late[r],
                  account, r \in walletFaults, r \in overtaken)
  PROVE  Wallets!RequestsInv'
<1>1. Evolves
  BY RequestTypes DEF Evolves
<1>2. Wallets!Live' = Wallets!Live
  BY DEF Wallets!Live
<1>3. walletRequest'[r] = [walletRequest[r] EXCEPT !.pc = "done", !.answer = a]
  BY RequestTypes DEF Wallets!Answer
<1>4. walletRequest'[r].id = walletRequest[r].id
  BY AnswerMoves
<1>5. Wallets!Explained(r)'
  BY <1>2, <1>3, <1>4, ExplainedNext
<1> QED
  BY <1>1, <1>5, AnswerMoves, AnswerIsDone, QuietStep, RequestTypes

LEMMA InsertKeeps ==
  ASSUME Wallets!RequestsInv, NEW r \in WalletRequest, Wallets!Insert(r)
  PROVE  Wallets!RequestsInv'
<1> DEFINE w == walletRequest[r]
<1>0. /\ w \in Wallets!Work /\ w.pc = "insert" /\ w.kind = "create" /\ w.address # Same /\ w.chain # Same
      /\ w.chains # {} /\ Wallets!At(w.address) \subseteq late[r] /\ w.answer = "none"
      /\ UNCHANGED <<account, setting, overtaken, lost, walletFaults>>
  BY RequestTypes DEF Wallets!RequestsInv, Wallets!Begun, Wallets!Insert
<1>1. CASE ~ account /\ Wallets!Answer(r, "no user") /\ UNCHANGED <<wallet, late, excused>>
  <2>1. Answered([w EXCEPT !.pc = "done", !.answer = "no user"], w.id \in Wallets!Live, late[r], account,
                 r \in walletFaults, r \in overtaken)
    BY <1>0, <1>1 DEF Answered, Wallets!Work
  <2> QED
    BY <1>0, <1>1, <2>1, QuietAnswer DEF Answers
<1>2. CASE Wallets!Taken(w.chain, w.address) /\ Wallets!Answer(r, "conflict") /\ UNCHANGED <<wallet, late, excused>>
  <2>1. late[r] # {}
    BY <1>0, <1>2 DEF Wallets!Taken
  <2>2. Answered([w EXCEPT !.pc = "done", !.answer = "conflict"], w.id \in Wallets!Live, late[r], account,
                 r \in walletFaults, r \in overtaken)
    BY <1>0, <2>1 DEF Answered, Wallets!Work
  <2> QED
    BY <1>0, <1>2, <2>2, QuietAnswer DEF Answers
<1>3. ASSUME ~ Wallets!Taken(w.chain, w.address),
             NEW i \in Wallets!Id, wallet[i].state = "none",
             wallet' = [wallet EXCEPT ![i] =
               [state |-> "live", address |-> w.address, chain |-> w.chain, enabled |-> w.chains]],
             walletRequest' = [walletRequest EXCEPT ![r].pc = "row", ![r].id = i],
             Wallets!Arrives(i, w.address),
             excused' = excused \union {{i, j} : j \in late[r] \ {i}}
      PROVE  Wallets!RequestsInv'
  <2> DEFINE row == [state |-> "live", address |-> w.address, chain |-> w.chain, enabled |-> w.chains]
  <2>1. /\ wallet' \in [Wallets!Id -> WalletRow] /\ wallet'[i] = row
        /\ \A j \in Wallets!Id \ {i} : wallet'[j] = wallet[j]
    BY <1>0, <1>3, RequestTypes DEF Wallets!Work, WalletRow
  <2>2. /\ walletRequest' \in [WalletRequest -> Wallets!Work] /\ \A q \in WalletRequest \ {r} : walletRequest'[q] = walletRequest[q]
        /\ walletRequest'[r].pc = "row" /\ walletRequest'[r].id = i /\ walletRequest'[r].kind = "create"
        /\ walletRequest'[r].address = w.address /\ walletRequest'[r].chains = w.chains
        /\ walletRequest'[r].answer = "none"
    BY <1>0, <1>3, RequestTypes DEF Wallets!Work
  <2>3. /\ late' \in [WalletRequest -> SUBSET Wallets!Id]
        /\ \A q \in WalletRequest : late[q] \subseteq late'[q]
        /\ \A q \in WalletRequest : walletRequest[q].pc \in {"insert", "update"} /\ walletRequest[q].kind = "create"
             /\ walletRequest[q].address = w.address => i \in late'[q]
    BY <1>3, RequestTypes DEF Wallets!Arrives
  <2>4. Wallets!Live' = Wallets!Live \union {i} /\ i \notin Wallets!Live
    BY <1>3, <2>1 DEF Wallets!Live
  <2>5. Evolves
    BY <1>0, <1>3, <2>1, <2>3, RequestTypes DEF Evolves
  <2>6. ASSUME NEW q \in WalletRequest \ {r} PROVE walletRequest'[q] = walletRequest[q] /\ Noted(q)
    <3>1. Wallets!Begun(q) /\ walletRequest[q] \in Wallets!Work
      BY RequestTypes DEF Wallets!RequestsInv
    <3>2. walletRequest[q].pc \in {"row", "chains"} =>
            walletRequest[q].id \in Wallets!Id /\ walletRequest[q].id # i
      BY <1>3, <3>1, IdIsNotZero DEF Wallets!Begun
    <3>3. \A j \in Wallets!Id : Newcomer(j) => j = i
      BY <2>1, <2>4 DEF Newcomer
    <3> QED
      BY <1>0, <2>1, <2>2, <2>3, <3>2, <3>3 DEF Noted
  <2>7. Wallets!Begun(r)'
    BY <2>1, <2>2, IdIsNotZero DEF Wallets!Begun
  <2>8. Wallets!Undisturbed(r)'
    BY <2>1, <2>2, <2>4 DEF Wallets!Undisturbed
  <2>9. \A j \in Wallets!Live' : wallet'[j].enabled # {} /\ wallet'[j].address # Same
    BY <1>0, <2>1, <2>4, LiveIds DEF Wallets!RequestsInv
  <2>10. Wallets!TwinsExplained'
    <3>1. ASSUME NEW j \in Wallets!Live, wallet[j].address = w.address
          PROVE  wallet[j].chain # w.chain /\ {i, j} \in excused'
      BY <1>0, <1>3, <2>4, <3>1 DEF Wallets!Taken, Wallets!At
    <3>2. ASSUME NEW j \in Wallets!Live', NEW k \in Wallets!Live', j # k,
                 wallet'[j].address = wallet'[k].address
          PROVE  wallet'[j].chain # wallet'[k].chain /\ {j, k} \in excused'
      <4>1. CASE j = i
        BY <2>1, <2>4, <3>1, <3>2, <4>1, LiveIds
      <4>2. CASE k = i
        <5>1. {j, k} = {i, j}
          BY <4>2
        <5> QED
          BY <2>1, <2>4, <3>1, <3>2, <4>2, <5>1, LiveIds
      <4>3. CASE j # i /\ k # i
        BY <1>3, <2>1, <2>4, <3>2, <4>3, LiveIds DEF Wallets!RequestsInv,
           Wallets!RequestsExplained, Wallets!TwinsExplained
      <4> QED
        BY <4>1, <4>2, <4>3
    <3> QED
      BY <3>2 DEF Wallets!TwinsExplained
  <2>11. Wallets!SettingsKept' /\ excused' \subseteq SUBSET Wallets!Id
    BY <1>0, <1>3, RequestTypes DEF Wallets!RequestsInv, Wallets!RequestsExplained,
       Wallets!SettingsKept
  <2> QED
    BY <1>0, <2>2, <2>5, <2>6, <2>7, <2>8, <2>9, <2>10, <2>11, UnansweredExplained,
       RequestTypes, StepKeeps
<1> QED
  BY <1>1, <1>2, <1>3 DEF Wallets!Insert

LEMMA UpdateKeeps ==
  ASSUME Wallets!RequestsInv, NEW r \in WalletRequest, Wallets!Update(r)
  PROVE  Wallets!RequestsInv'
<1> DEFINE w == walletRequest[r]
           a == IF w.address = Same THEN wallet[w.id].address ELSE w.address
           moves == a # wallet[w.id].address
<1>0. /\ w \in Wallets!Work /\ w.pc = "update" /\ w.kind \in {"create", "update"} /\ w.id \in Wallets!Id
      /\ w.answer = "none"
      /\ w.kind = "create" =>
           /\ w.address # Same
           /\ \A i \in Wallets!At(w.address) \ late[r] : i = w.id \/ wallet[i].chain # wallet[w.id].chain
      /\ UNCHANGED <<account, setting, lost, walletFaults>>
  BY RequestTypes DEF Wallets!RequestsInv, Wallets!Begun, Wallets!Update
<1>1. CASE w.id \notin Wallets!Live /\ Wallets!Answer(r, "missing") /\ UNCHANGED <<wallet, late, excused, overtaken>>
  <2>1. Answered([w EXCEPT !.pc = "done", !.answer = "missing"], w.id \in Wallets!Live, late[r], account,
                 r \in walletFaults, r \in overtaken)
    BY <1>0, <1>1 DEF Answered, Wallets!Work
  <2> QED
    BY <1>0, <1>1, <2>1, QuietAnswer DEF Answers
<1>2. CASE /\ moves /\ Wallets!Taken(wallet[w.id].chain, a)
           /\ Wallets!Answer(r, "error") /\ UNCHANGED <<wallet, late, excused, overtaken>>
  <2>1. w.address # Same /\ a = w.address
    BY <1>2
  <2>2. PICK i \in Wallets!At(a) : wallet[i].chain = wallet[w.id].chain
    BY <1>2 DEF Wallets!Taken
  <2>3. w.kind = "create" => late[r] # {}
    BY <1>0, <1>2, <2>1, <2>2 DEF Wallets!At
  <2>4. Answered([w EXCEPT !.pc = "done", !.answer = "error"], w.id \in Wallets!Live, late[r], account,
                 r \in walletFaults, r \in overtaken)
    BY <1>0, <2>1, <2>3 DEF Answered, Wallets!Work
  <2> QED
    BY <1>0, <1>2, <2>4, QuietAnswer DEF Answers
<1>3. ASSUME w.id \in Wallets!Live, ~ (moves /\ Wallets!Taken(wallet[w.id].chain, a)),
             wallet' = [wallet EXCEPT ![w.id].address = a, ![w.id].enabled = Wallets!Enabled(@, w.chains)],
             Wallets!Goto(r, "row"),
             IF moves
             THEN /\ Wallets!Arrives(w.id, a)
                  /\ excused' = excused \union {{w.id, j} : j \in Wallets!At(a)}
             ELSE UNCHANGED <<late, excused>>,
             Wallets!Overtakes(w.id)
      PROVE  Wallets!RequestsInv'
  <2>a. /\ wallet[w.id] \in WalletRow /\ wallet[w.id].state = "live"
        /\ wallet[w.id].address # Same /\ wallet[w.id].enabled # {}
    BY <1>0, <1>3, RequestTypes DEF Wallets!RequestsInv, Wallets!Live
  <2>b. a \in Address \union {Same} /\ a # Same /\ (w.address = Same \/ w.address = a)
    BY <1>0, <2>a DEF WalletRow, Wallets!Work
  <2>c. Wallets!Enabled(wallet[w.id].enabled, w.chains) \in SUBSET Chain
        /\ Wallets!Enabled(wallet[w.id].enabled, w.chains) # {}
        /\ w.chains \in {{}, Wallets!Enabled(wallet[w.id].enabled, w.chains)}
    BY <1>0, <2>a DEF Wallets!Enabled, WalletRow, Wallets!Work
  <2>1. /\ wallet' \in [Wallets!Id -> WalletRow]
        /\ wallet'[w.id].state = "live" /\ wallet'[w.id].address = a
        /\ wallet'[w.id].chain = wallet[w.id].chain
        /\ wallet'[w.id].enabled = Wallets!Enabled(wallet[w.id].enabled, w.chains)
        /\ \A j \in Wallets!Id \ {w.id} : wallet'[j] = wallet[j]
    <3> DEFINE named == Wallets!Enabled(wallet[w.id].enabled, w.chains)
               row == [wallet[w.id] EXCEPT !.address = a, !.enabled = named]
    <3>1. wallet' = [wallet EXCEPT ![w.id] = row]
      <4> HIDE DEF a
      <4> QED
        BY <1>0, <1>3, <2>a, RequestTypes DEF WalletRow
    <3>2. /\ row \in WalletRow /\ row.state = "live" /\ row.address = a
          /\ row.chain = wallet[w.id].chain /\ row.enabled = named
      <4> HIDE DEF a, named
      <4> QED
        BY <2>a, <2>b, <2>c DEF WalletRow, named
    <3> HIDE DEF row
    <3> QED
      BY <1>0, <3>1, <3>2, RequestTypes
  <2>2. /\ walletRequest' \in [WalletRequest -> Wallets!Work] /\ \A q \in WalletRequest \ {r} : walletRequest'[q] = walletRequest[q]
        /\ walletRequest'[r].pc = "row" /\ walletRequest'[r].id = w.id /\ walletRequest'[r].kind = w.kind
        /\ walletRequest'[r].address = w.address /\ walletRequest'[r].chains = w.chains
        /\ walletRequest'[r].answer = "none"
    BY <1>0, <1>3, RequestTypes DEF Wallets!Work, Wallets!Goto
  <2>3. /\ late' \in [WalletRequest -> SUBSET Wallets!Id]
        /\ \A q \in WalletRequest : late[q] \subseteq late'[q]
        /\ moves => \A q \in WalletRequest : walletRequest[q].pc \in {"insert", "update"}
             /\ walletRequest[q].kind = "create" /\ walletRequest[q].address = a => w.id \in late'[q]
    BY <1>0, <1>3, RequestTypes DEF Wallets!Arrives
  <2>4. Wallets!Live' = Wallets!Live
    BY <1>0, <1>3, <2>1 DEF Wallets!Live
  <2>5. overtaken \subseteq overtaken' /\ overtaken' \subseteq WalletRequest
        /\ \A q \in WalletRequest : walletRequest[q].pc \in {"row", "chains"} /\ walletRequest[q].id = w.id => q \in overtaken'
    BY <1>3, RequestTypes DEF Wallets!Overtakes
  <2>6. Evolves
    BY <1>0, <2>1, <2>3, <2>5, <2>a, RequestTypes DEF Evolves
  <2>7. ASSUME NEW q \in WalletRequest \ {r} PROVE walletRequest'[q] = walletRequest[q] /\ Noted(q)
    <3>1. Wallets!Begun(q) /\ walletRequest[q] \in Wallets!Work
      BY RequestTypes DEF Wallets!RequestsInv
    <3>2. walletRequest[q].pc \in {"row", "chains"} => walletRequest[q].id \in Wallets!Id
      BY <3>1 DEF Wallets!Begun
    <3>3. \A j \in Wallets!Id : Newcomer(j) => j = w.id /\ moves
      BY <1>0, <2>1, <2>4 DEF Newcomer
    <3> QED
      BY <1>0, <2>1, <2>2, <2>3, <2>5, <3>2, <3>3 DEF Noted
  <2>8. Wallets!Begun(r)'
    BY <1>0, <2>1, <2>2 DEF Wallets!Begun
  <2>9. Wallets!Undisturbed(r)'
    BY <1>0, <1>3, <2>1, <2>2, <2>4, <2>b, <2>c DEF Wallets!Undisturbed
  <2>10. \A j \in Wallets!Live' : wallet'[j].enabled # {} /\ wallet'[j].address # Same
    BY <2>1, <2>4, <2>b, <2>c, LiveIds DEF Wallets!RequestsInv
  <2>11. Wallets!TwinsExplained'
    <3>1. ASSUME NEW j \in Wallets!Live, j # w.id, wallet[j].address = a
          PROVE  wallet[j].chain # wallet[w.id].chain /\ {w.id, j} \in excused'
      <4>1. CASE moves
        BY <1>3, <3>1, <4>1 DEF Wallets!Taken, Wallets!At
      <4>2. CASE ~ moves
        BY <1>3, <3>1, <4>2 DEF Wallets!RequestsInv, Wallets!RequestsExplained,
           Wallets!TwinsExplained
      <4> QED
        BY <4>1, <4>2
    <3>2. excused \subseteq excused'
      BY <1>3
    <3>3. ASSUME NEW j \in Wallets!Live', NEW k \in Wallets!Live', j # k,
                 wallet'[j].address = wallet'[k].address
          PROVE  wallet'[j].chain # wallet'[k].chain /\ {j, k} \in excused'
      <4>1. CASE j = w.id
        BY <2>1, <2>4, <3>1, <3>3, <4>1, LiveIds
      <4>2. CASE k = w.id
        <5>1. {j, k} = {w.id, j}
          BY <4>2
        <5> QED
          BY <2>1, <2>4, <3>1, <3>3, <4>2, <5>1, LiveIds
      <4>3. CASE j # w.id /\ k # w.id
        BY <2>1, <2>4, <3>2, <3>3, <4>3, LiveIds DEF Wallets!RequestsInv,
           Wallets!RequestsExplained, Wallets!TwinsExplained
      <4> QED
        BY <4>1, <4>2, <4>3
    <3> QED
      BY <3>3 DEF Wallets!TwinsExplained
  <2>12. excused' \subseteq SUBSET Wallets!Id
    BY <1>0, <1>3, RequestTypes DEF Wallets!At, Wallets!Live
  <2>13. Wallets!SettingsKept'
    BY <1>0, <2>5 DEF Wallets!RequestsInv, Wallets!RequestsExplained, Wallets!SettingsKept
  <2> QED
    BY <1>0, <2>2, <2>6, <2>7, <2>8, <2>9, <2>10, <2>11, <2>12, <2>13, UnansweredExplained,
       RequestTypes, StepKeeps
<1> QED
  BY <1>1, <1>2, <1>3 DEF Wallets!Update

\* A step that takes wallets away, and leaves the rest of them as they are.
LEMMA DropEvolves ==
  ASSUME Wallets!RequestsInv, NEW Dropped \in SUBSET Wallets!Live,
         wallet' = [i \in Wallets!Id |-> IF i \in Dropped THEN [wallet[i] EXCEPT !.state = "gone"] ELSE wallet[i]],
         account' \in BOOLEAN, account' => account, UNCHANGED <<setting, late, excused, lost, walletFaults>>,
         overtaken \subseteq overtaken', overtaken' \subseteq WalletRequest,
         \A q \in WalletRequest : walletRequest[q].pc \in {"row", "chains"} /\ walletRequest[q].id \in Dropped
           => q \in overtaken'
  PROVE  /\ Evolves /\ (\A q \in WalletRequest : Noted(q))
         /\ Wallets!Live' = Wallets!Live \ Dropped
         /\ \A i \in Wallets!Live' : wallet'[i].enabled # {} /\ wallet'[i].address # Same
         /\ Wallets!TwinsExplained' /\ Wallets!SettingsKept'
<1>1. ASSUME NEW i \in Wallets!Id
      PROVE  /\ wallet'[i] \in WalletRow
             /\ i \in Dropped => wallet[i].state = "live" /\ wallet'[i].state = "gone"
             /\ wallet'[i].chain = wallet[i].chain
             /\ i \notin Dropped => wallet'[i] = wallet[i]
  <2>1. wallet[i] \in WalletRow
    BY RequestTypes
  <2>2. CASE i \in Dropped
    BY <2>1, <2>2 DEF WalletRow, Wallets!Live
  <2>3. CASE i \notin Dropped
    BY <2>1, <2>3
  <2> QED
    BY <2>2, <2>3
<1>2. wallet' \in [Wallets!Id -> WalletRow]
  BY <1>1
<1>3. Evolves
  BY <1>1, <1>2, RequestTypes DEF Evolves
<1>4. Wallets!Live' = Wallets!Live \ Dropped
  BY <1>1 DEF Wallets!Live
<1>5. ASSUME NEW q \in WalletRequest PROVE Noted(q)
  <2>1. walletRequest[q].pc \in {"row", "chains"} => walletRequest[q].id \in Wallets!Id
    BY DEF Wallets!RequestsInv, Wallets!Begun
  <2>2. \A i \in Wallets!Id : ~ Newcomer(i)
    BY <1>1, <1>4 DEF Newcomer
  <2> QED
    BY <1>1, <2>1, <2>2 DEF Noted
<1>6. \A i \in Wallets!Live' : wallet'[i].enabled # {} /\ wallet'[i].address # Same
  BY <1>1, <1>4, LiveIds DEF Wallets!RequestsInv
<1>7. Wallets!TwinsExplained'
  BY <1>1, <1>4, LiveIds DEF Wallets!RequestsInv, Wallets!RequestsExplained,
     Wallets!TwinsExplained
<1>8. Wallets!SettingsKept'
  BY DEF Wallets!RequestsInv, Wallets!RequestsExplained, Wallets!SettingsKept
<1> QED
  BY <1>3, <1>4, <1>5, <1>6, <1>7, <1>8

LEMMA DeleteKeeps ==
  ASSUME Wallets!RequestsInv, NEW r \in WalletRequest, Wallets!Delete(r)
  PROVE  Wallets!RequestsInv'
<1> DEFINE w == walletRequest[r]
<1>0. /\ w \in Wallets!Work /\ w.pc = "delete" /\ w.id \in Wallets!Id /\ w.answer = "none"
      /\ UNCHANGED <<account, setting, late, excused, lost, walletFaults>>
  BY RequestTypes DEF Wallets!RequestsInv, Wallets!Begun, Wallets!Delete
<1>1. CASE w.id \notin Wallets!Live
  <2>1. Wallets!Answer(r, "missing") /\ UNCHANGED <<wallet, overtaken>>
    BY <1>1 DEF Wallets!Delete
  <2>2. Answered([w EXCEPT !.pc = "done", !.answer = "missing"], w.id \in Wallets!Live, late[r], account,
                 r \in walletFaults, r \in overtaken)
    BY <1>0, <1>1 DEF Answered, Wallets!Work
  <2> QED
    BY <1>0, <2>1, <2>2, QuietAnswer DEF Answers
<1>2. CASE w.id \in Wallets!Live
  <2>1. wallet' = [wallet EXCEPT ![w.id].state = "gone"] /\ Wallets!Goto(r, "verify") /\ Wallets!Overtakes(w.id)
    BY <1>2 DEF Wallets!Delete
  <2>2. wallet' = [i \in Wallets!Id |-> IF i \in {w.id} THEN [wallet[i] EXCEPT !.state = "gone"] ELSE wallet[i]]
    BY <1>0, <2>1, RequestTypes
  <2>3. /\ walletRequest' \in [WalletRequest -> Wallets!Work] /\ \A q \in WalletRequest \ {r} : walletRequest'[q] = walletRequest[q]
        /\ walletRequest'[r].pc = "verify" /\ walletRequest'[r].id = w.id /\ walletRequest'[r].answer = "none"
    BY <1>0, <2>1, RequestTypes DEF Wallets!Work, Wallets!Goto
  <2>4. overtaken \subseteq overtaken' /\ overtaken' \subseteq WalletRequest
        /\ \A q \in WalletRequest : walletRequest[q].pc \in {"row", "chains"} /\ walletRequest[q].id \in {w.id}
             => q \in overtaken'
    BY <2>1, RequestTypes DEF Wallets!Overtakes
  <2>5. /\ Evolves /\ (\A q \in WalletRequest : Noted(q)) /\ w.id \notin Wallets!Live'
        /\ \A i \in Wallets!Live' : wallet'[i].enabled # {} /\ wallet'[i].address # Same
        /\ Wallets!TwinsExplained' /\ Wallets!SettingsKept'
    <3>1. {w.id} \in SUBSET Wallets!Live /\ account' \in BOOLEAN /\ (account' => account)
      BY <1>0, <1>2, RequestTypes
    <3> QED
      BY <1>0, <2>2, <2>4, <3>1, DropEvolves
  <2>6. Wallets!Begun(r)' /\ Wallets!Undisturbed(r)'
    <3>1. wallet'[w.id].state # "none"
      BY <1>0, <1>2, <2>5, LiveIds DEF Evolves
    <3> QED
      BY <1>0, <2>3, <2>5, <3>1 DEF Wallets!Begun, Wallets!Undisturbed
  <2> QED
    BY <1>0, <2>3, <2>5, <2>6, UnansweredExplained, RequestTypes, StepKeeps
<1> QED
  BY <1>1, <1>2

LEMMA ReadSettingsKeeps ==
  ASSUME Wallets!RequestsInv, NEW r \in WalletRequest, Wallets!ReadSettings(r)
  PROVE  Wallets!RequestsInv'
<1> DEFINE w == walletRequest[r]
<1>0. /\ w \in Wallets!Work /\ w.pc = "settings" /\ w.id \in Wallets!Id /\ w.kind = "put" /\ w.answer = "none"
      /\ wallet[w.id].state # "none"
      /\ setting[w.id] \in {"on", "off"}
      /\ walletRequest' = [walletRequest EXCEPT ![r].pc = "put", ![r].seen = setting[walletRequest[r].id]]
      /\ UNCHANGED <<account, wallet, setting, late, excused, overtaken, lost, walletFaults>>
  BY RequestTypes, IdIsNotZero DEF Wallets!RequestsInv, Wallets!Begun, Wallets!Undisturbed,
     Wallets!ReadSettings
<1>1. /\ walletRequest' \in [WalletRequest -> Wallets!Work] /\ \A q \in WalletRequest \ {r} : walletRequest'[q] = walletRequest[q]
      /\ walletRequest'[r].pc = "put" /\ walletRequest'[r].id = w.id /\ walletRequest'[r].answer = "none"
      /\ walletRequest'[r].kind = "put" /\ walletRequest'[r].seen = setting[w.id]
  <2> DEFINE read == [w EXCEPT !.pc = "put", !.seen = setting[w.id]]
  <2>1. walletRequest' = [walletRequest EXCEPT ![r] = read]
    BY <1>0, RequestTypes
  <2>2. /\ read \in Wallets!Work /\ read.pc = "put" /\ read.id = w.id /\ read.answer = "none"
        /\ read.kind = "put" /\ read.seen = setting[w.id]
    BY <1>0 DEF Wallets!Work
  <2> HIDE DEF read
  <2> QED
    BY <2>1, <2>2, RequestTypes
<1>2. Wallets!Begun(r)' /\ Wallets!Undisturbed(r)'
  BY <1>0, <1>1 DEF Wallets!Begun, Wallets!Undisturbed
<1> QED
  BY <1>0, <1>1, <1>2, UnansweredExplained, QuietStep, RequestTypes

LEMMA PutSettingsKeeps ==
  ASSUME Wallets!RequestsInv, NEW r \in WalletRequest, Wallets!PutSettings(r)
  PROVE  Wallets!RequestsInv'
<1> DEFINE w == walletRequest[r]
<1>0. /\ w \in Wallets!Work /\ w.pc = "put" /\ w.id \in Wallets!Id /\ w.kind = "put" /\ w.answer = "none"
      /\ w.seen \in {"on", "off"}
      /\ r \notin overtaken => w.seen = setting[w.id]
      /\ UNCHANGED <<account, wallet, late, excused, walletFaults>>
  BY RequestTypes DEF Wallets!RequestsInv, Wallets!Begun, Wallets!Undisturbed,
     Wallets!PutSettings
<1>1. CASE w.id \notin Wallets!Live
  <2>1. Wallets!Answer(r, "error") /\ UNCHANGED <<setting, overtaken, lost>>
    BY <1>1 DEF Wallets!PutSettings
  <2>2. Answered([w EXCEPT !.pc = "done", !.answer = "error"], w.id \in Wallets!Live, late[r], account,
                 r \in walletFaults, r \in overtaken)
    BY <1>0, <1>1 DEF Answered, Wallets!Work
  <2> QED
    BY <1>0, <2>1, <2>2, QuietAnswer DEF Answers
<1>2. CASE w.id \in Wallets!Live
  <2>1. /\ setting' = [setting EXCEPT ![w.id] = Wallets!Merged(w)]
        /\ Wallets!Answer(r, "ok")
        /\ overtaken' = overtaken \union
             {q \in WalletRequest \ {r} : walletRequest[q].pc = "put" /\ walletRequest[q].id = w.id}
        /\ lost' = IF w.flag = Same /\ Wallets!Merged(w) # setting[w.id] THEN lost \union {r} ELSE lost
    BY <1>2 DEF Wallets!PutSettings
  <2>2. Wallets!Merged(w) \in {"on", "off"} /\ (w.flag = Same => Wallets!Merged(w) = w.seen)
    <3>1. w.flag \in {"on", "off", Same}
      BY <1>0 DEF Wallets!Work
    <3> QED
      BY <1>0, <3>1 DEF Wallets!Merged
  <2>3. setting' \in [Wallets!Id -> {"on", "off"}] /\ \A i \in Wallets!Id \ {w.id} : setting'[i] = setting[i]
    BY <2>1, <2>2, RequestTypes
  <2>4. Wallets!Live' = Wallets!Live /\ (\A i \in Wallets!Id : ~ Newcomer(i))
    <3>1. Wallets!Live' = Wallets!Live
      BY <1>0 DEF Wallets!Live
    <3> QED
      BY <1>0, <3>1 DEF Newcomer
  <2>5. overtaken \subseteq overtaken' /\ overtaken' \subseteq WalletRequest /\ lost' \subseteq WalletRequest
        /\ lost' \subseteq overtaken'
    BY <1>0, <2>1, <2>2, RequestTypes DEF Wallets!RequestsInv, Wallets!RequestsExplained,
       Wallets!SettingsKept
  <2>6. Evolves
    BY <1>0, <2>5, RequestTypes DEF Evolves
  <2>7. ASSUME NEW q \in WalletRequest \ {r} PROVE walletRequest'[q] = walletRequest[q] /\ Noted(q)
    <3>1. walletRequest[q].pc = "put" /\ q \notin overtaken' => walletRequest[q].id \in Wallets!Id /\ walletRequest[q].id # w.id
      BY <2>1 DEF Wallets!RequestsInv, Wallets!Begun
    <3>2. walletRequest'[q] = walletRequest[q]
      BY <2>1, AnswerMoves DEF Answers
    <3> QED
      BY <1>0, <2>3, <2>4, <3>1, <3>2 DEF Noted
  <2>8. Wallets!Begun(r)' /\ Wallets!Undisturbed(r)'
    BY <2>1, <2>6, AnswerIsDone DEF Answers
  <2>9. walletRequest'[r].answer = "ok" /\ walletRequest'[r].kind = "put" /\ walletRequest' \in [WalletRequest -> Wallets!Work]
    BY <1>0, <2>1, AnswerMoves DEF Answers
  <2>10. Wallets!Explained(r)'
    BY <2>9, ExplainedNext DEF Answered
  <2>11. \A i \in Wallets!Live' : wallet'[i].enabled # {} /\ wallet'[i].address # Same
    BY <1>0, <2>4 DEF Wallets!RequestsInv
  <2>12. Wallets!TwinsExplained' /\ Wallets!SettingsKept' /\ excused' \subseteq SUBSET Wallets!Id
    BY <1>0, <2>4, <2>5, RequestTypes DEF Wallets!RequestsInv, Wallets!RequestsExplained,
       Wallets!TwinsExplained, Wallets!SettingsKept
  <2> QED
    BY <2>3, <2>5, <2>6, <2>7, <2>8, <2>9, <2>10, <2>11, <2>12, StepKeeps
<1> QED
  BY <1>1, <1>2

-----------------------------------------------------------------------------
(* The answers.                                                            *)

LEMMA ReadRowKeeps ==
  ASSUME Wallets!RequestsInv, NEW r \in WalletRequest, Wallets!ReadRow(r)
  PROVE  Wallets!RequestsInv'
<1> DEFINE w == walletRequest[r]
<1>0. /\ w \in Wallets!Work /\ w.pc = "row" /\ w.id \in Wallets!Id /\ w.kind \in {"create", "update"}
      /\ w.answer = "none"
      /\ wallet[w.id].state # "none" /\ wallet[w.id] \in WalletRow
      /\ UNCHANGED <<account, wallet, setting, late, excused, overtaken, lost, walletFaults>>
  BY RequestTypes, IdIsNotZero DEF Wallets!RequestsInv, Wallets!Begun, Wallets!Undisturbed,
     Wallets!ReadRow
<1>1. CASE w.id \in Wallets!Live
  <2> DEFINE read == [w EXCEPT !.pc = "chains", !.seen = wallet[w.id].address]
  <2>1. walletRequest' = [walletRequest EXCEPT ![r] = read]
    BY <1>0, <1>1, RequestTypes DEF Wallets!ReadRow
  <2>2. /\ read \in Wallets!Work /\ read.pc = "chains" /\ read.id = w.id /\ read.answer = "none"
        /\ read.kind = w.kind /\ read.address = w.address /\ read.chains = w.chains
        /\ read.seen = wallet[w.id].address
    BY <1>0 DEF Wallets!Work, WalletRow
  <2> HIDE DEF read
  <2>3. /\ walletRequest' \in [WalletRequest -> Wallets!Work] /\ (\A q \in WalletRequest \ {r} : walletRequest'[q] = walletRequest[q])
        /\ walletRequest'[r] = read
    BY <2>1, <2>2, RequestTypes
  <2>4. Wallets!Begun(r)'
    BY <1>0, <2>2, <2>3 DEF Wallets!Begun
  <2>5. Wallets!Undisturbed(r) /\ Wallets!Live' = Wallets!Live
    BY <1>0 DEF Wallets!RequestsInv, Wallets!Live
  <2>6. Wallets!Undisturbed(r)'
    BY <1>0, <2>2, <2>3, <2>5 DEF Wallets!Undisturbed
  <2> QED
    BY <1>0, <2>2, <2>3, <2>4, <2>6, UnansweredExplained, QuietStep, RequestTypes
<1>2. CASE w.id \notin Wallets!Live
  <2> DEFINE a == IF w.kind = "create" THEN "empty" ELSE "missing"
  <2>1. Wallets!Answer(r, a)
    BY <1>2 DEF Wallets!ReadRow
  <2>2. a \in Answers
    BY DEF Answers
  <2>3. Answered([w EXCEPT !.pc = "done", !.answer = a], w.id \in Wallets!Live, late[r], account,
                 r \in walletFaults, r \in overtaken)
    BY <1>0, <1>2 DEF Answered, Wallets!Work
  <2> HIDE DEF a
  <2> QED
    BY <1>0, <2>1, <2>2, <2>3, QuietAnswer
<1> QED
  BY <1>1, <1>2

LEMMA ReadChainsKeeps ==
  ASSUME Wallets!RequestsInv, NEW r \in WalletRequest, Wallets!ReadChains(r)
  PROVE  Wallets!RequestsInv'
<1> DEFINE w == walletRequest[r]
           shown == IF w.id \in Wallets!Live THEN wallet[w.id].enabled ELSE {}
           read == [w EXCEPT !.pc = "done", !.answer = "ok", !.shown = shown]
<1>0. /\ w \in Wallets!Work /\ w.pc = "chains" /\ w.id \in Wallets!Id /\ w.kind \in {"create", "update"}
      /\ wallet[w.id].state # "none" /\ wallet[w.id] \in WalletRow
      /\ r \notin overtaken =>
           /\ w.id \in Wallets!Live
           /\ w.address \in {Same, wallet[w.id].address}
           /\ w.chains \in {{}, wallet[w.id].enabled}
           /\ w.seen = wallet[w.id].address
      /\ UNCHANGED <<account, wallet, setting, late, excused, overtaken, lost, walletFaults>>
  BY RequestTypes, IdIsNotZero DEF Wallets!RequestsInv, Wallets!Begun, Wallets!Undisturbed,
     Wallets!ReadChains
<1>1. walletRequest' = [walletRequest EXCEPT ![r] = read]
  BY <1>0, RequestTypes DEF Wallets!ReadChains
<1>2. shown \in SUBSET Chain /\ (w.id \in Wallets!Live => shown = wallet[w.id].enabled /\ shown # {})
  BY <1>0 DEF WalletRow, Wallets!RequestsInv
<1> HIDE DEF shown
<1>3. /\ read \in Wallets!Work /\ read.pc = "done" /\ read.id = w.id /\ read.answer = "ok"
      /\ read.kind = w.kind /\ read.address = w.address /\ read.chains = w.chains
      /\ read.seen = w.seen /\ read.shown = shown
  BY <1>0, <1>2 DEF Wallets!Work
<1> HIDE DEF read
<1>4. /\ walletRequest' \in [WalletRequest -> Wallets!Work] /\ (\A q \in WalletRequest \ {r} : walletRequest'[q] = walletRequest[q])
      /\ walletRequest'[r] = read
  BY <1>1, <1>3, RequestTypes
<1>5. Wallets!Begun(r)' /\ Wallets!Undisturbed(r)'
  BY <1>0, <1>3, <1>4 DEF Wallets!Begun, Wallets!Undisturbed
<1>6. r \notin overtaken => read.address \in {Same, read.seen} /\ read.shown # {}
                             /\ read.chains \in {{}, read.shown}
  BY <1>0, <1>2, <1>3
<1>7. Wallets!Explained(r)'
  BY <1>0, <1>3, <1>4, <1>6, ExplainedNext DEF Answered
<1> QED
  BY <1>0, <1>4, <1>5, <1>7, QuietStep, RequestTypes

LEMMA VerifyDeletedKeeps ==
  ASSUME Wallets!RequestsInv, NEW r \in WalletRequest, Wallets!VerifyDeleted(r)
  PROVE  Wallets!RequestsInv'
<1> DEFINE w == walletRequest[r]
<1>0. /\ w \in Wallets!Work /\ w.pc = "verify" /\ w.id \notin Wallets!Live /\ Wallets!Answer(r, "deleted")
      /\ UNCHANGED <<account, wallet, setting, late, excused, overtaken, lost, walletFaults>>
  BY RequestTypes DEF Wallets!RequestsInv, Wallets!Begun, Wallets!VerifyDeleted
<1>1. Answered([w EXCEPT !.pc = "done", !.answer = "deleted"], w.id \in Wallets!Live, late[r], account,
               r \in walletFaults, r \in overtaken)
  BY <1>0 DEF Answered, Wallets!Work
<1> QED
  BY <1>0, <1>1, QuietAnswer DEF Answers

LEMMA StatementFailsKeeps ==
  ASSUME Wallets!RequestsInv, NEW r \in WalletRequest, Wallets!StatementFails(r)
  PROVE  Wallets!RequestsInv'
<1> DEFINE failed == [Wallets!NoRequest EXCEPT !.pc = "done", !.answer = "error"]
<1>1. failed \in Wallets!Work /\ failed.pc = "done" /\ failed.answer = "error" /\ failed.id = 0
  BY DEF Wallets!NoRequest, Wallets!Work
<1>2. /\ walletRequest' = [walletRequest EXCEPT ![r] = failed]
      /\ walletFaults' = walletFaults \union {r}
      /\ UNCHANGED <<account, wallet, setting, late, excused, overtaken, lost>>
  BY DEF Wallets!StatementFails
<1> HIDE DEF failed
<1>3. /\ walletRequest' \in [WalletRequest -> Wallets!Work] /\ (\A q \in WalletRequest \ {r} : walletRequest'[q] = walletRequest[q])
      /\ walletRequest'[r] = failed
  BY <1>1, <1>2, RequestTypes
<1>4. Wallets!Begun(r)' /\ Wallets!Undisturbed(r)'
  BY <1>1, <1>3 DEF Wallets!Begun, Wallets!Undisturbed
<1>5. Wallets!Explained(r)'
  BY <1>1, <1>2, <1>3, ExplainedNext DEF Answered
<1>6. walletFaults \subseteq walletFaults' /\ walletFaults' \subseteq WalletRequest
  BY <1>2, RequestTypes
<1> QED
  BY <1>2, <1>3, <1>4, <1>5, <1>6, QuietStep

LEMMA DeleteAccountKeeps ==
  ASSUME Wallets!RequestsInv, Wallets!DeleteAccount
  PROVE  Wallets!RequestsInv'
<1>0. /\ account' = FALSE
      /\ wallet' = [i \in Wallets!Id |-> IF i \in Wallets!Live THEN [wallet[i] EXCEPT !.state = "gone"] ELSE wallet[i]]
      /\ overtaken' = overtaken \union {q \in WalletRequest : walletRequest[q].pc \in {"row", "chains"}}
      /\ UNCHANGED <<setting, walletRequest, late, excused, lost, walletFaults>>
  BY DEF Wallets!DeleteAccount
<1>1. overtaken \subseteq overtaken' /\ overtaken' \subseteq WalletRequest
      /\ \A q \in WalletRequest : walletRequest[q].pc \in {"row", "chains"} /\ walletRequest[q].id \in Wallets!Live
           => q \in overtaken'
  BY <1>0, RequestTypes
<1>2. /\ Evolves /\ (\A q \in WalletRequest : Noted(q))
      /\ \A i \in Wallets!Live' : wallet'[i].enabled # {} /\ wallet'[i].address # Same
      /\ Wallets!TwinsExplained' /\ Wallets!SettingsKept'
  <2>1. Wallets!Live \in SUBSET Wallets!Live /\ account' \in BOOLEAN /\ (account' => account)
    BY <1>0
  <2> QED
    BY <1>0, <1>1, <2>1, DropEvolves
<1> QED
  BY <1>0, <1>2, RequestTypes, StepKeeps

-----------------------------------------------------------------------------
LEMMA RequestsInit ==
  ASSUME Wallets!Init
  PROVE  Wallets!RequestsInv
<1>1. Wallets!NoWallet \in WalletRow /\ Wallets!NoWallet.state = "none"
  BY DEF Wallets!NoWallet, WalletRow
<1>2. Wallets!NoRequest.pc = "new" /\ Wallets!NoRequest.answer = "none" /\ Wallets!NoRequest.id = 0
  BY DEF Wallets!NoRequest
<1>3. Wallets!TypeOK
  BY <1>1, NoRequestInWork DEF Wallets!Init, Wallets!TypeOK, WalletRow
<1>4. Wallets!Live = {}
  BY <1>1 DEF Wallets!Init, Wallets!Live
<1>5. ASSUME NEW r \in WalletRequest PROVE Wallets!Begun(r) /\ Wallets!Undisturbed(r)
  BY <1>2 DEF Wallets!Init, Wallets!Begun, Wallets!Undisturbed
<1>6. ASSUME NEW r \in WalletRequest PROVE Wallets!Explained(r)
  BY <1>2, ExplainedParts DEF Wallets!Init, Answered
<1>7. Wallets!TwinsExplained /\ Wallets!SettingsKept
  BY <1>4 DEF Wallets!Init, Wallets!TwinsExplained, Wallets!SettingsKept
<1> QED
  BY <1>3, <1>4, <1>5, <1>6, <1>7 DEF Wallets!RequestsInv, Wallets!RequestsExplained

LEMMA RequestsStep ==
  ASSUME Wallets!RequestsInv, Wallets!NamesAssumption, [Wallets!Next]_Wallets!vars
  PROVE  Wallets!RequestsInv'
<1>1. CASE UNCHANGED Wallets!vars
  <2>1. UNCHANGED <<account, wallet, setting, walletRequest, late, excused, overtaken, lost, walletFaults>>
    BY <1>1 DEF Wallets!vars
  <2>2. Wallets!Live' = Wallets!Live
    BY <2>1 DEF Wallets!Live
  <2>3. Evolves
    BY <2>1, RequestTypes DEF Evolves
  <2>4. \A q \in WalletRequest : walletRequest'[q] = walletRequest[q] /\ Noted(q)
    BY <2>1, <2>2 DEF Noted, Newcomer
  <2>5. \A i \in Wallets!Live' : wallet'[i].enabled # {} /\ wallet'[i].address # Same
    BY <2>1, <2>2 DEF Wallets!RequestsInv
  <2>6. Wallets!TwinsExplained' /\ Wallets!SettingsKept'
    BY <2>1, <2>2 DEF Wallets!RequestsInv, Wallets!RequestsExplained,
       Wallets!TwinsExplained, Wallets!SettingsKept
  <2> QED
    BY <2>1, <2>3, <2>4, <2>5, <2>6, RequestTypes, StepKeeps
<1>2. ASSUME NEW r \in WalletRequest,
             \/ Wallets!Create(r) \/ Wallets!Change(r) \/ Wallets!Insert(r) \/ Wallets!Update(r) \/ Wallets!Delete(r)
             \/ Wallets!ReadSettings(r) \/ Wallets!PutSettings(r)
             \/ Wallets!ReadRow(r) \/ Wallets!ReadChains(r) \/ Wallets!VerifyDeleted(r) \/ Wallets!StatementFails(r)
      PROVE  Wallets!RequestsInv'
  BY <1>2, CreateKeeps, ChangeKeeps, InsertKeeps, UpdateKeeps, DeleteKeeps, ReadSettingsKeeps,
     PutSettingsKeeps, ReadRowKeeps, ReadChainsKeeps, VerifyDeletedKeeps, StatementFailsKeeps
<1>3. CASE Wallets!DeleteAccount
  BY <1>3, DeleteAccountKeeps
<1> QED
  BY <1>1, <1>2, <1>3 DEF Wallets!Next

\* The invariant of the wallet requests holds.
THEOREM RequestsInvariant ==
  ASSUME Wallets!NamesAssumption
  PROVE  Wallets!Spec => []Wallets!RequestsInv
<1>1. Wallets!Init => Wallets!RequestsInv
  BY RequestsInit
<1>2. Wallets!RequestsInv /\ [Wallets!Next]_Wallets!vars => Wallets!RequestsInv'
  BY RequestsStep
<1> QED
  BY <1>1, <1>2, PTL DEF Wallets!Spec

-----------------------------------------------------------------------------
(* Token prices (TokenPricing).                                            *)
PriceWork ==
  [pc : {"new", "ask", "wait", "done"}, wants : SUBSET Prices!Token, todo : SUBSET Prices!Token,
   chunk : SUBSET Prices!Token, waits : SUBSET Prices!Token, awaits : PriceRequest \union {Nobody},
   price : [Prices!Token -> {"none", "price", "null"}], reason : SUBSET Prices!Token]

-----------------------------------------------------------------------------
(* The parts of the invariant, and what the operators return.              *)

LEMMA PriceTypes ==
  ASSUME Prices!PricesInv
  PROVE  /\ cache \in [Prices!Token -> {"none", "price", "null"}]
         /\ flight \in [Prices!Token -> PriceRequest \union {Nobody}]
         /\ queue \in Seq(PriceRequest)
         /\ cool \in BOOLEAN
         /\ priceRequest \in [PriceRequest -> PriceWork]
         /\ asked \in [PriceRequest -> SUBSET Prices!Token]
         /\ trouble \in [PriceRequest -> SUBSET Prices!Token]
  BY DEF Prices!PricesInv, Prices!TypeOK, PriceWork

LEMMA FirstWaitIn ==
  ASSUME NEW w, w.waits \subseteq Prices!Token, w.waits # {}
  PROVE  Prices!FirstWait(w) \in w.waits
<1>1. w.waits \in SUBSET Nat
  BY DEF Prices!Token
<1>2. \E t \in w.waits : \A u \in w.waits : t <= u
  BY <1>1, LeastExists
<1> QED
  BY <1>2 DEF Prices!FirstWait

LEMMA FirstChunkIn == \A S : Prices!FirstChunk(S) \subseteq S
  BY DEF Prices!FirstChunk

-----------------------------------------------------------------------------
(* A request that goes on.                                                 *)

\* What a request is when it asks for a chunk, waits for another's call, or has ended.
LEMMA AskingWork ==
  ASSUME NEW w \in PriceWork, NEW chunk \in SUBSET Prices!Token
  PROVE  LET v == [w EXCEPT !.pc = "ask", !.chunk = chunk, !.todo = w.todo \ chunk] IN
         /\ v \in PriceWork
         /\ v.pc = "ask" /\ v.chunk = chunk /\ v.todo = w.todo \ chunk
         /\ v.wants = w.wants /\ v.waits = w.waits /\ v.price = w.price
  BY DEF PriceWork

LEMMA WaitingWork ==
  ASSUME NEW w \in PriceWork, NEW q \in PriceRequest \union {Nobody}
  PROVE  LET v == [w EXCEPT !.pc = "wait", !.chunk = {}, !.awaits = q] IN
         /\ v \in PriceWork
         /\ v.pc = "wait" /\ v.chunk = {} /\ v.awaits = q /\ v.todo = w.todo
         /\ v.wants = w.wants /\ v.waits = w.waits /\ v.price = w.price
  BY DEF PriceWork

LEMMA EndedWork ==
  ASSUME NEW w \in PriceWork
  PROVE  /\ Prices!Ended(w) \in PriceWork
         /\ Prices!Ended(w).pc = "done" /\ Prices!Ended(w).chunk = {} /\ Prices!Ended(w).todo = w.todo
         /\ Prices!Ended(w).wants = w.wants /\ Prices!Ended(w).waits = w.waits /\ Prices!Ended(w).price = w.price
  BY DEF PriceWork, Prices!Ended

\* What the requests that do not move need of a step of r: their trouble grows, and what they
\* wait for stays under way, or has a price, or troubles them.
OthersGoOn(r) ==
  \A q \in PriceRequest \ {r} :
    /\ priceRequest'[q] = priceRequest[q]
    /\ trouble[q] \subseteq trouble'[q]
    /\ asked'[q] = asked[q]
    /\ \A t \in priceRequest[q].waits :
         \/ cache'[t] = "price"
         \/ t \in trouble'[q]
         \/ /\ flight'[t] # Nobody
            /\ priceRequest[q].pc = "wait" /\ t = Prices!FirstWait(priceRequest[q]) =>
                 priceRequest[q].awaits # r /\ Prices!Asking(priceRequest[q].awaits, t)

LEMMA OthersKeep ==
  ASSUME Prices!PricesInv, NEW r \in PriceRequest, OthersGoOn(r), asked[r] \subseteq asked'[r],
         NEW q \in PriceRequest \ {r},
         trouble' \in [PriceRequest -> SUBSET Prices!Token], priceRequest' \in [PriceRequest -> PriceWork],
         \A p \in PriceRequest : asked[p] \subseteq asked'[p]
  PROVE  /\ Prices!Sorted(q)' /\ Prices!Awaited(q)'
         /\ priceRequest'[q].pc = "done" =>
              \A t \in priceRequest'[q].wants :
                \/ priceRequest'[q].price[t] = "price"
                \/ t \in trouble'[q]
                \/ asked'[q] = {} /\ \E p \in PriceRequest \ {q} : t \in asked'[p]
<1>1. /\ Prices!Sorted(q) /\ Prices!Awaited(q) /\ priceRequest[q] \in PriceWork
      /\ priceRequest'[q] = priceRequest[q] /\ trouble[q] \subseteq trouble'[q] /\ asked'[q] = asked[q]
  BY PriceTypes DEF Prices!PricesInv, OthersGoOn
<1>2. Prices!Sorted(q)'
  BY <1>1 DEF Prices!Sorted, Prices!Explained
<1>3. ASSUME NEW p \in PriceRequest, NEW t, Prices!Asking(p, t), p # r PROVE Prices!Asking(p, t)'
  BY <1>3 DEF Prices!Asking, OthersGoOn
<1>4. ASSUME NEW t \in priceRequest[q].waits
      PROVE  \/ cache'[t] = "price"
             \/ t \in trouble'[q]
             \/ /\ flight'[t] # Nobody
                /\ priceRequest[q].pc = "wait" /\ t = Prices!FirstWait(priceRequest[q]) => Prices!Asking(priceRequest[q].awaits, t)'
  <2>1. priceRequest[q].awaits # Nobody => priceRequest[q].awaits \in PriceRequest
    BY <1>1 DEF PriceWork
  <2>2. Prices!Asking(priceRequest[q].awaits, t) => priceRequest[q].awaits # Nobody
    BY DEF Prices!Asking
  <2> QED
    BY <1>3, <1>4, <2>1, <2>2 DEF OthersGoOn
<1>5. Prices!Awaited(q)'
  BY <1>1, <1>4 DEF Prices!Awaited
<1>6. priceRequest'[q].pc = "done" =>
        \A t \in priceRequest'[q].wants :
          \/ priceRequest'[q].price[t] = "price"
          \/ t \in trouble'[q]
          \/ asked'[q] = {} /\ \E p \in PriceRequest \ {q} : t \in asked'[p]
  BY <1>1 DEF Prices!PricesInv, Prices!UnpricedExplained
<1> QED
  BY <1>2, <1>5, <1>6

\* A step of r keeps the invariant when the others go on and r itself stands where it should.
LEMMA PriceStep ==
  ASSUME Prices!PricesInv, NEW r \in PriceRequest, OthersGoOn(r),
         cache' \in [Prices!Token -> {"none", "price", "null"}],
         flight' \in [Prices!Token -> PriceRequest \union {Nobody}],
         queue' \in Seq(PriceRequest), cool' \in BOOLEAN,
         priceRequest' \in [PriceRequest -> PriceWork],
         asked' \in [PriceRequest -> SUBSET Prices!Token], trouble' \in [PriceRequest -> SUBSET Prices!Token],
         asked[r] \subseteq asked'[r],
         \A t \in Prices!Token : flight'[t] # Nobody => Prices!Asking(flight[t], t)',
         Prices!Sorted(r)', Prices!Awaited(r)',
         priceRequest'[r].pc = "done" =>
           \A t \in priceRequest'[r].wants :
             \/ priceRequest'[r].price[t] = "price"
             \/ t \in trouble'[r]
             \/ asked'[r] = {} /\ \E p \in PriceRequest \ {r} : t \in asked'[p]
  PROVE  Prices!PricesInv'
<1>1. Prices!TypeOK'
  BY DEF Prices!TypeOK, PriceWork
<1>2. \A p \in PriceRequest : asked[p] \subseteq asked'[p]
  BY DEF OthersGoOn
<1>3. ASSUME NEW q \in PriceRequest
      PROVE  /\ Prices!Sorted(q)' /\ Prices!Awaited(q)'
             /\ priceRequest'[q].pc = "done" =>
                  \A t \in priceRequest'[q].wants :
                    \/ priceRequest'[q].price[t] = "price"
                    \/ t \in trouble'[q]
                    \/ asked'[q] = {} /\ \E p \in PriceRequest \ {q} : t \in asked'[p]
  BY <1>2, OthersKeep
<1> QED
  BY <1>1, <1>3 DEF Prices!PricesInv, Prices!UnpricedExplained

\* What is to be known of a request that goes on: the calls in flight are not its own; every token
\* it wants is to be asked for, waited for or explained; and what it waits for is under way, has a
\* price or troubles it.
Ready(r, w, inFlight, told) ==
  /\ \A t \in Prices!Token : inFlight[t] # Nobody => inFlight[t] # r /\ Prices!Asking(inFlight[t], t)
  /\ \A t \in w.wants \ (w.todo \union w.waits) : w.price[t] = "price" \/ t \in trouble'[r]
  /\ \A t \in w.waits : told[t] = "price" \/ t \in trouble'[r] \/ inFlight[t] # Nobody
  /\ \A q \in PriceRequest \ {r} :
       /\ trouble[q] \subseteq trouble'[q]
       /\ \A t \in priceRequest[q].waits :
            \/ t \in trouble'[q]
            \/ /\ t \notin Prices!Reported(w)
               /\ \/ told[t] = "price"
                  \/ /\ inFlight[t] # Nobody
                     /\ priceRequest[q].pc = "wait" /\ t = Prices!FirstWait(priceRequest[q]) =>
                          priceRequest[q].awaits # r /\ Prices!Asking(priceRequest[q].awaits, t)

LEMMA AppendTyped ==
  ASSUME NEW s \in Seq(PriceRequest), NEW r \in PriceRequest
  PROVE  Append(s, r) \in Seq(PriceRequest)
  OBVIOUS

LEMMA ProceedKeeps ==
  ASSUME Prices!PricesInv, Prices!NobodyAssumption, NEW r \in PriceRequest, NEW w \in PriceWork,
         NEW inFlight \in [Prices!Token -> PriceRequest \union {Nobody}],
         NEW told \in [Prices!Token -> {"none", "price", "null"}],
         NEW waiting \in Seq(PriceRequest),
         Prices!Proceed(r, w, inFlight, told, waiting), Ready(r, w, inFlight, told),
         trouble' \in [PriceRequest -> SUBSET Prices!Token], cool' \in BOOLEAN
  PROVE  Prices!PricesInv'
<1>1. ASSUME w.todo # {} PROVE Prices!PricesInv'
  <2> DEFINE chunk == Prices!FirstChunk(w.todo)
             v == [w EXCEPT !.pc = "ask", !.chunk = chunk, !.todo = w.todo \ chunk]
  <2>1. /\ priceRequest' = [priceRequest EXCEPT ![r] = v]
        /\ flight' = [t \in Prices!Token |-> IF t \in chunk THEN r ELSE inFlight[t]]
        /\ queue' = Append(waiting, r)
        /\ asked' = [asked EXCEPT ![r] = @ \union chunk]
        /\ cache' = told
    BY <1>1 DEF Prices!Proceed
  <2>2. chunk \subseteq Prices!Token /\ chunk \subseteq w.todo
    BY FirstChunkIn DEF PriceWork
  <2> HIDE DEF chunk
  <2>3. /\ v \in PriceWork
        /\ v.pc = "ask" /\ v.chunk = chunk /\ v.todo = w.todo \ chunk
        /\ v.wants = w.wants /\ v.waits = w.waits /\ v.price = w.price
    BY <2>2, AskingWork
  <2> HIDE DEF v
  <2>4. /\ priceRequest' \in [PriceRequest -> PriceWork] /\ priceRequest'[r] = v
        /\ \A q \in PriceRequest \ {r} : priceRequest'[q] = priceRequest[q]
    BY <2>1, <2>3, PriceTypes
  <2>5. /\ asked' \in [PriceRequest -> SUBSET Prices!Token] /\ asked'[r] = asked[r] \union chunk
        /\ \A q \in PriceRequest \ {r} : asked'[q] = asked[q]
    BY <2>1, <2>2, PriceTypes
  <2>6. /\ flight' \in [Prices!Token -> PriceRequest \union {Nobody}]
        /\ \A t \in Prices!Token : flight'[t] = IF t \in chunk THEN r ELSE inFlight[t]
    BY <2>1
  <2>7. \A t \in Prices!Token : inFlight[t] # Nobody => flight'[t] # Nobody
    BY <2>6 DEF Prices!NobodyAssumption
  <2>8. OthersGoOn(r)
    <3>1. \A q \in PriceRequest : priceRequest[q].waits \subseteq Prices!Token
      BY PriceTypes DEF PriceWork
    <3> QED
      BY <2>1, <2>4, <2>5, <2>7, <3>1 DEF OthersGoOn, Ready
  <2>9. ASSUME NEW t \in Prices!Token, flight'[t] # Nobody PROVE Prices!Asking(flight[t], t)'
    <3>1. CASE t \in chunk
      BY <2>3, <2>4, <2>6, <3>1 DEF Prices!Asking, Prices!NobodyAssumption
    <3>2. CASE t \notin chunk
      <4>1. inFlight[t] \in PriceRequest \ {r} /\ Prices!Asking(inFlight[t], t) /\ flight'[t] = inFlight[t]
        BY <2>6, <2>9, <3>2 DEF Ready
      <4> QED
        BY <2>4, <4>1 DEF Prices!Asking
    <3> QED
      BY <3>1, <3>2
  <2>10. Prices!Sorted(r)'
    BY <2>2, <2>3, <2>4, <2>5 DEF Prices!Sorted, Prices!Explained, Ready
  <2>11. Prices!Awaited(r)'
    <3>1. w.waits \subseteq Prices!Token
      BY DEF PriceWork
    <3> QED
      BY <2>1, <2>3, <2>4, <2>7, <3>1 DEF Prices!Awaited, Ready
  <2>12. queue' \in Seq(PriceRequest)
    BY <2>1, AppendTyped
  <2> QED
    BY <2>1, <2>3, <2>4, <2>5, <2>6, <2>8, <2>9, <2>10, <2>11, <2>12, PriceStep
<1>2. ASSUME w.todo = {}, w.waits # {} PROVE Prices!PricesInv'
  <2> DEFINE v == [w EXCEPT !.pc = "wait", !.chunk = {}, !.awaits = inFlight[Prices!FirstWait(w)]]
  <2>writes. /\ priceRequest' = [priceRequest EXCEPT ![r] = v]
             /\ cache' = told /\ flight' = inFlight /\ queue' = waiting /\ asked' = asked
    BY <1>2 DEF Prices!Proceed
  <2>first. Prices!FirstWait(w) \in w.waits /\ w.waits \subseteq Prices!Token
    BY <1>2, FirstWaitIn DEF PriceWork
  <2>work. /\ v \in PriceWork
           /\ v.pc = "wait" /\ v.chunk = {} /\ v.awaits = inFlight[Prices!FirstWait(w)] /\ v.todo = {}
           /\ v.wants = w.wants /\ v.waits = w.waits /\ v.price = w.price
    BY <1>2, <2>first, WaitingWork, ZenonT(40)
  <2> HIDE DEF v
  <2>4. /\ priceRequest' \in [PriceRequest -> PriceWork] /\ priceRequest'[r] = v
        /\ \A q \in PriceRequest \ {r} : priceRequest'[q] = priceRequest[q]
    BY <2>writes, <2>work, PriceTypes
  <2>waits. Prices!FirstWait(v) = Prices!FirstWait(w)
    BY <2>work DEF Prices!FirstWait
  <2>6. OthersGoOn(r)
    BY <2>writes, <2>4 DEF OthersGoOn, Ready
  <2>7. ASSUME NEW t \in Prices!Token, inFlight[t] # Nobody PROVE Prices!Asking(inFlight[t], t)'
    <3>1. inFlight[t] \in PriceRequest \ {r} /\ Prices!Asking(inFlight[t], t)
      BY <2>7 DEF Ready
    <3> QED
      BY <2>4, <3>1 DEF Prices!Asking
  <2>8. Prices!Sorted(r)'
    BY <1>2, <2>work, <2>4 DEF Prices!Sorted, Prices!Explained, Ready
  <2>9. Prices!Awaited(r)'
    BY <2>writes, <2>first, <2>work, <2>4, <2>waits, <2>7 DEF Prices!Awaited, Ready
  <2> QED
    BY <2>writes, <2>work, <2>4, <2>6, <2>7, <2>8, <2>9, PriceTypes, PriceStep
<1>3. ASSUME w.todo = {}, w.waits = {} PROVE Prices!PricesInv'
  <2> DEFINE v == Prices!Ended(w)
  <2>1. /\ priceRequest' = [priceRequest EXCEPT ![r] = v]
        /\ cache' = [t \in Prices!Token |-> IF t \in Prices!Unanswered(w) THEN "null" ELSE told[t]]
        /\ flight' = inFlight /\ queue' = waiting /\ asked' = asked
    BY <1>3 DEF Prices!Proceed
  <2>2. /\ v \in PriceWork
        /\ v.pc = "done" /\ v.chunk = {} /\ v.todo = {}
        /\ v.wants = w.wants /\ v.waits = {} /\ v.price = w.price
    BY <1>3, EndedWork
  <2> HIDE DEF v
  <2>3. /\ priceRequest' \in [PriceRequest -> PriceWork] /\ priceRequest'[r] = v
        /\ \A q \in PriceRequest \ {r} : priceRequest'[q] = priceRequest[q]
    BY <2>1, <2>2, PriceTypes
  <2>4. /\ cache' \in [Prices!Token -> {"none", "price", "null"}]
        /\ \A t \in Prices!Token : t \notin Prices!Reported(w) => cache'[t] = told[t]
    BY <1>3, <2>1 DEF Prices!Reported
  <2>5. OthersGoOn(r)
    <3>1. \A q \in PriceRequest : priceRequest[q].waits \subseteq Prices!Token
      BY PriceTypes DEF PriceWork
    <3> QED
      BY <2>1, <2>3, <2>4, <3>1 DEF OthersGoOn, Ready
  <2>6. ASSUME NEW t \in Prices!Token, inFlight[t] # Nobody PROVE Prices!Asking(inFlight[t], t)'
    <3>1. inFlight[t] \in PriceRequest \ {r} /\ Prices!Asking(inFlight[t], t)
      BY <2>6 DEF Ready
    <3> QED
      BY <2>3, <3>1 DEF Prices!Asking
  <2>7. Prices!Sorted(r)' /\ Prices!Awaited(r)'
    BY <2>2, <2>3 DEF Prices!Sorted, Prices!Awaited
  <2>8. \A t \in priceRequest'[r].wants : priceRequest'[r].price[t] = "price" \/ t \in trouble'[r]
    BY <1>3, <2>2, <2>3 DEF Ready
  <2> QED
    BY <2>1, <2>3, <2>4, <2>5, <2>6, <2>7, <2>8, PriceTypes, PriceStep
<1> QED
  BY <1>1, <1>2, <1>3

-----------------------------------------------------------------------------
(* The steps.                                                              *)

LEMMA ClassifyKeeps ==
  ASSUME Prices!PricesInv, Prices!NobodyAssumption, NEW r \in PriceRequest, Prices!Classify(r)
  PROVE  Prices!PricesInv'
<1>1. PICK tokens \in (SUBSET Prices!Token) \ {{}} :
        LET found   == {t \in tokens : cache[t] # "none"}
            limited == IF cool THEN tokens \ found ELSE {}
            shared  == {t \in tokens \ (found \union limited) : flight[t] # Nobody}
        IN  /\ Prices!StartAsking(r, [Prices!Fresh EXCEPT
                 !.wants = tokens,
                 !.todo = tokens \ (found \union limited \union shared),
                 !.waits = shared,
                 !.price = [t \in Prices!Token |-> CASE t \in found -> cache[t]
                                                     [] t \in limited -> "null"
                                                     [] OTHER -> "none"],
                 !.reason = found \union limited])
            /\ trouble' = [trouble EXCEPT ![r] = {t \in found : cache[t] = "null"} \union limited]
  BY DEF Prices!Classify
<1> DEFINE found   == {t \in tokens : cache[t] # "none"}
           limited == IF cool THEN tokens \ found ELSE {}
           shared  == {t \in tokens \ (found \union limited) : flight[t] # Nobody}
           told   == {t \in found : cache[t] = "null"} \union limited
           price   == [t \in Prices!Token |-> CASE t \in found -> cache[t]
                                                [] t \in limited -> "null"
                                                [] OTHER -> "none"]
           w == [Prices!Fresh EXCEPT
                   !.wants = tokens,
                   !.todo = tokens \ (found \union limited \union shared),
                   !.waits = shared,
                   !.price = price,
                   !.reason = found \union limited]
<1>2. Prices!StartAsking(r, w) /\ trouble' = [trouble EXCEPT ![r] = told] /\ cool' = cool
  BY <1>1 DEF Prices!Classify
<1>3. found \subseteq Prices!Token /\ limited \subseteq Prices!Token /\ shared \subseteq Prices!Token /\ told \subseteq Prices!Token
  OBVIOUS
<1>4. price \in [Prices!Token -> {"none", "price", "null"}]
      /\ \A t \in found \union limited : price[t] = "price" \/ t \in told
  <2>1. ASSUME NEW t \in Prices!Token
        PROVE  /\ price[t] \in {"none", "price", "null"}
               /\ t \in found => price[t] = cache[t]
               /\ t \in limited => t \in told
    <3>1. cache[t] \in {"none", "price", "null"}
      BY PriceTypes
    <3>2. CASE t \in found
      BY <3>1, <3>2
    <3>3. CASE t \notin found /\ t \in limited
      BY <3>3
    <3>4. CASE t \notin found /\ t \notin limited
      BY <3>4
    <3> QED
      BY <3>2, <3>3, <3>4
  <2>2. \A t \in found : cache[t] = "price" \/ t \in told
    BY PriceTypes
  <2> HIDE DEF found, limited, told
  <2> QED
    BY <1>3, <2>1, <2>2
<1>5. \A t \in shared : flight[t] # Nobody
  OBVIOUS
<1> HIDE DEF found, limited, shared, told, price
<1>6. /\ w \in PriceWork
      /\ w.pc = "new" /\ w.chunk = {} /\ w.wants = tokens /\ w.waits = shared /\ w.price = price
      /\ w.todo = tokens \ (found \union limited \union shared)
  BY <1>3, <1>4 DEF Prices!Fresh, PriceWork
<1> HIDE DEF w
<1>7. trouble' \in [PriceRequest -> SUBSET Prices!Token] /\ trouble'[r] = told
      /\ \A q \in PriceRequest \ {r} : trouble'[q] = trouble[q]
  BY <1>2, <1>3, PriceTypes
<1>8. priceRequest[r].pc = "new" /\ asked[r] = {}
  BY DEF Prices!Classify, Prices!PricesInv, Prices!Sorted
<1>9. \A q \in PriceRequest, t \in Prices!Token : Prices!Asking(q, t) => q # r
  BY <1>8 DEF Prices!Asking
<1>10. \A t \in Prices!Token : flight[t] # Nobody => flight[t] \in PriceRequest \ {r} /\ Prices!Asking(flight[t], t)
  <2>1. \A t \in Prices!Token : flight[t] # Nobody => flight[t] \in PriceRequest /\ Prices!Asking(flight[t], t)
    BY PriceTypes DEF Prices!PricesInv
  <2> QED
    BY <1>9, <2>1
<1>11. ASSUME NEW q \in PriceRequest \ {r}, NEW t \in priceRequest[q].waits
       PROVE  \/ cache[t] = "price"
              \/ t \in trouble'[q]
              \/ /\ flight[t] # Nobody
                 /\ priceRequest[q].pc = "wait" /\ t = Prices!FirstWait(priceRequest[q]) =>
                      priceRequest[q].awaits # r /\ Prices!Asking(priceRequest[q].awaits, t)
  <2>1. Prices!Awaited(q) /\ priceRequest[q] \in PriceWork
    BY PriceTypes DEF Prices!PricesInv
  <2>2. t \in Prices!Token /\ priceRequest[q].awaits \in PriceRequest \union {Nobody}
    BY <1>11, <2>1 DEF PriceWork
  <2>3. ~ Prices!Asking(r, t)
    BY <1>8 DEF Prices!Asking
  <2> QED
    BY <1>7, <1>11, <2>1, <2>3 DEF Prices!Awaited
<1>12. CASE w.todo # {}
  <2>1. Prices!Proceed(r, w, flight, cache, queue)
    BY <1>2, <1>12 DEF Prices!StartAsking
  <2>2. Prices!Reported(w) = {}
    BY <1>12 DEF Prices!Reported
  <2>3. Ready(r, w, flight, cache)
    BY <1>4, <1>5, <1>6, <1>7, <1>10, <1>11, <2>2 DEF Ready
  <2> QED
    BY <1>2, <1>6, <1>7, <2>1, <2>3, PriceTypes, ProceedKeeps
<1>13. CASE w.todo = {}
  <2> DEFINE v == [w EXCEPT !.pc = "done", !.waits = {}]
  <2>writes. priceRequest' = [priceRequest EXCEPT ![r] = v] /\ UNCHANGED <<cache, flight, queue, asked>>
    BY <1>2, <1>13 DEF Prices!StartAsking
  <2>work. /\ v \in PriceWork /\ v.pc = "done" /\ v.chunk = {} /\ v.wants = tokens /\ v.waits = {}
           /\ v.price = price
    BY <1>6 DEF PriceWork
  <2> HIDE DEF v
  <2>requests. /\ priceRequest' \in [PriceRequest -> PriceWork] /\ priceRequest'[r] = v
               /\ \A q \in PriceRequest \ {r} : priceRequest'[q] = priceRequest[q]
    BY <2>writes, <2>work, PriceTypes
  <2>4. OthersGoOn(r)
    BY <1>7, <1>11, <2>writes, <2>requests DEF OthersGoOn
  <2>5. ASSUME NEW t \in Prices!Token, flight'[t] # Nobody PROVE Prices!Asking(flight[t], t)'
    BY <1>10, <2>writes, <2>requests, <2>5 DEF Prices!Asking
  <2>6. Prices!Sorted(r)' /\ Prices!Awaited(r)'
    BY <2>work, <2>requests DEF Prices!Sorted, Prices!Awaited
  <2>7. ASSUME NEW t \in tokens
        PROVE  \/ price[t] = "price"
               \/ t \in trouble'[r]
               \/ asked'[r] = {} /\ \E p \in PriceRequest \ {r} : t \in asked'[p]
    <3>1. CASE t \in found \union limited
      BY <1>4, <1>7, <3>1
    <3>2. CASE t \in shared
      <4>1. flight[t] \in PriceRequest \ {r} /\ Prices!Asking(flight[t], t)
        BY <1>5, <1>10, <3>2
      <4>2. t \in asked[flight[t]]
        BY <4>1 DEF Prices!PricesInv, Prices!Sorted, Prices!Asking
      <4> QED
        BY <1>8, <2>writes, <4>1, <4>2
    <3> QED
      BY <1>6, <1>13, <3>1, <3>2
  <2> QED
    BY <1>2, <1>7, <2>writes, <2>work, <2>requests, <2>4, <2>5, <2>6, <2>7, PriceTypes, PriceStep
<1> QED
  BY <1>12, <1>13

\* A call for the chunk of r ends, with a price for some of its tokens: the record of r and the
\* cache say so and nothing else, and the rest of the chunk troubles whoever is not done.
Lands(r, priced, w, told) ==
  /\ priceRequest[r].pc = "ask"
  /\ priced \subseteq priceRequest[r].chunk
  /\ w.wants = priceRequest[r].wants /\ w.todo = priceRequest[r].todo /\ w.waits = priceRequest[r].waits
  /\ \A t \in priced : w.price[t] = "price" /\ told[t] = "price"
  /\ \A t \in Prices!Token \ priceRequest[r].chunk : w.price[t] = priceRequest[r].price[t] /\ told[t] = cache[t]
  /\ Prices!Troubled((priceRequest[r].chunk \ priced) \union Prices!Reported(w))

LEMMA LandingReady ==
  ASSUME Prices!PricesInv, NEW r \in PriceRequest, NEW priced, NEW w \in PriceWork,
         NEW told \in [Prices!Token -> {"none", "price", "null"}],
         Lands(r, priced, w, told)
  PROVE  Ready(r, w, Prices!Landed(priceRequest[r].chunk), told) /\ trouble' \in [PriceRequest -> SUBSET Prices!Token]
<1> DEFINE chunk == priceRequest[r].chunk
           landed == Prices!Landed(chunk)
<1>0. /\ priceRequest[r].pc = "ask" /\ priced \subseteq priceRequest[r].chunk
      /\ w.wants = priceRequest[r].wants /\ w.todo = priceRequest[r].todo /\ w.waits = priceRequest[r].waits
      /\ \A t \in priced : w.price[t] = "price" /\ told[t] = "price"
      /\ \A t \in Prices!Token \ priceRequest[r].chunk : w.price[t] = priceRequest[r].price[t] /\ told[t] = cache[t]
      /\ Prices!Troubled((priceRequest[r].chunk \ priced) \union Prices!Reported(w))
  BY DEF Lands
<1>1. Prices!Sorted(r) /\ Prices!Awaited(r) /\ priceRequest[r] \in PriceWork
  BY PriceTypes DEF Prices!PricesInv
<1>2. chunk \subseteq Prices!Token /\ Prices!Reported(w) \subseteq Prices!Token /\ w.wants \subseteq Prices!Token
      /\ w.waits \subseteq Prices!Token
  BY <1>0, <1>1 DEF PriceWork, Prices!Reported, Prices!Unanswered
<1>3. /\ trouble' \in [PriceRequest -> SUBSET Prices!Token]
      /\ \A q \in PriceRequest : trouble[q] \subseteq trouble'[q]
      /\ \A q \in PriceRequest : priceRequest[q].pc \in {"ask", "wait"} =>
           chunk \ priced \subseteq trouble'[q] /\ Prices!Reported(w) \subseteq trouble'[q]
  BY <1>0, <1>2, PriceTypes DEF Prices!Troubled
<1>4. \A t \in Prices!Token : /\ t \in chunk => landed[t] = Nobody
                              /\ t \notin chunk => landed[t] = flight[t]
  BY DEF Prices!Landed
<1> HIDE DEF landed
<1>5. ASSUME NEW t \in Prices!Token, landed[t] # Nobody
      PROVE  landed[t] # r /\ Prices!Asking(landed[t], t)
  <2>1. t \notin chunk /\ landed[t] = flight[t] /\ Prices!Asking(flight[t], t)
    BY <1>4, <1>5 DEF Prices!PricesInv
  <2> QED
    BY <2>1 DEF Prices!Asking
<1>6. ASSUME NEW t \in w.wants \ (w.todo \union w.waits)
      PROVE  w.price[t] = "price" \/ t \in trouble'[r]
  BY <1>0, <1>1, <1>2, <1>3, <1>6 DEF Prices!Sorted, Prices!Explained
<1>7. ASSUME NEW t \in w.waits
      PROVE  told[t] = "price" \/ t \in trouble'[r] \/ landed[t] # Nobody
  BY <1>0, <1>1, <1>2, <1>3, <1>4, <1>7 DEF Prices!Awaited
<1>8. ASSUME NEW q \in PriceRequest \ {r}, NEW t \in priceRequest[q].waits
      PROVE  \/ t \in trouble'[q]
             \/ /\ t \notin Prices!Reported(w)
                /\ \/ told[t] = "price"
                   \/ /\ landed[t] # Nobody
                      /\ priceRequest[q].pc = "wait" /\ t = Prices!FirstWait(priceRequest[q]) =>
                           priceRequest[q].awaits # r /\ Prices!Asking(priceRequest[q].awaits, t)
  <2>1. Prices!Sorted(q) /\ Prices!Awaited(q) /\ priceRequest[q] \in PriceWork
    BY PriceTypes DEF Prices!PricesInv
  <2>2. priceRequest[q].pc \in {"ask", "wait"} /\ t \in Prices!Token
    BY <1>8, <2>1 DEF Prices!Sorted, PriceWork
  <2>3. t \notin chunk => ~ Prices!Asking(r, t)
    BY DEF Prices!Asking
  <2> QED
    BY <1>0, <1>3, <1>4, <1>8, <2>1, <2>2, <2>3 DEF Prices!Awaited
<1> QED
  BY <1>3, <1>5, <1>6, <1>7, <1>8 DEF Ready, landed

LEMMA LandedTyped ==
  ASSUME Prices!PricesInv, NEW r \in PriceRequest
  PROVE  Prices!Landed(priceRequest[r].chunk) \in [Prices!Token -> PriceRequest \union {Nobody}]
  BY PriceTypes DEF Prices!Landed

LEMMA TailTyped ==
  ASSUME Prices!PricesInv, queue # <<>>
  PROVE  Tail(queue) \in Seq(PriceRequest)
<1>1. queue \in Seq(PriceRequest)
  BY PriceTypes
<1> QED
  BY <1>1

LEMMA ProviderAnswersKeeps ==
  ASSUME Prices!PricesInv, Prices!NobodyAssumption, NEW r \in PriceRequest,
         Prices!ProviderAnswers(r)
  PROVE  Prices!PricesInv'
<1> DEFINE chunk == priceRequest[r].chunk
<1>1. PICK priced \in SUBSET priceRequest[r].chunk, unpriced \in SUBSET priceRequest[r].chunk :
        /\ priced \intersect unpriced = {}
        /\ LET w == [priceRequest[r] EXCEPT
                       !.price = [t \in Prices!Token |-> CASE t \in priced -> "price"
                                                           [] t \in unpriced -> "null"
                                                           [] OTHER -> @[t]],
                       !.reason = @ \union priced \union unpriced]
               told == [t \in Prices!Token |-> CASE t \in priced -> "price"
                                                  [] t \in unpriced -> "null"
                                                  [] OTHER -> cache[t]]
           IN  /\ Prices!Proceed(r, w, Prices!Landed(priceRequest[r].chunk), told, Tail(queue))
               /\ Prices!Troubled((priceRequest[r].chunk \ priced) \union Prices!Reported(w))
  BY DEF Prices!ProviderAnswers
<1> DEFINE price == [t \in Prices!Token |-> CASE t \in priced -> "price"
                                              [] t \in unpriced -> "null"
                                              [] OTHER -> priceRequest[r].price[t]]
           told == [t \in Prices!Token |-> CASE t \in priced -> "price"
                                              [] t \in unpriced -> "null"
                                              [] OTHER -> cache[t]]
           w == [priceRequest[r] EXCEPT !.price = price, !.reason = @ \union priced \union unpriced]
<1>2. /\ Prices!Proceed(r, w, Prices!Landed(chunk), told, Tail(queue))
      /\ Prices!Troubled((chunk \ priced) \union Prices!Reported(w))
  BY <1>1
<1>3. priceRequest[r].pc = "ask" /\ queue # <<>> /\ cool' = cool
  BY DEF Prices!ProviderAnswers, Prices!UnderWay
<1>4. priceRequest[r] \in PriceWork /\ chunk \subseteq Prices!Token
  BY PriceTypes DEF PriceWork
<1>5. ASSUME NEW t \in Prices!Token
      PROVE  /\ price[t] \in {"none", "price", "null"} /\ told[t] \in {"none", "price", "null"}
             /\ t \in priced => price[t] = "price" /\ told[t] = "price"
             /\ t \notin chunk => price[t] = priceRequest[r].price[t] /\ told[t] = cache[t]
  <2>1. cache[t] \in {"none", "price", "null"} /\ priceRequest[r].price[t] \in {"none", "price", "null"}
    BY <1>4, PriceTypes DEF PriceWork
  <2>2. CASE t \in priced
    BY <1>1, <1>4, <2>2
  <2>3. CASE t \in unpriced
    BY <1>1, <1>4, <2>3
  <2>4. CASE t \notin priced /\ t \notin unpriced
    BY <2>1, <2>4
  <2> QED
    BY <2>2, <2>3, <2>4
<1>6. price \in [Prices!Token -> {"none", "price", "null"}] /\ told \in [Prices!Token -> {"none", "price", "null"}]
  BY <1>5
<1> HIDE DEF price, told
<1>7. /\ w \in PriceWork /\ w.wants = priceRequest[r].wants /\ w.todo = priceRequest[r].todo
      /\ w.waits = priceRequest[r].waits /\ w.price = price
  BY <1>4, <1>6 DEF PriceWork
<1> HIDE DEF w
<1>8. Ready(r, w, Prices!Landed(chunk), told) /\ trouble' \in [PriceRequest -> SUBSET Prices!Token]
  <2>1. \A t \in priced : w.price[t] = "price" /\ told[t] = "price"
    BY <1>4, <1>5, <1>7
  <2>2. \A t \in Prices!Token \ priceRequest[r].chunk :
          w.price[t] = priceRequest[r].price[t] /\ told[t] = cache[t]
    BY <1>5, <1>7
  <2>3. Lands(r, priced, w, told)
    BY <1>2, <1>3, <1>7, <2>1, <2>2 DEF Lands
  <2> QED
    BY <1>6, <1>7, <2>3, LandingReady
<1> QED
  BY <1>2, <1>3, <1>6, <1>7, <1>8, PriceTypes, LandedTyped, TailTyped, ProceedKeeps

LEMMA ProviderFailsKeeps ==
  ASSUME Prices!PricesInv, Prices!NobodyAssumption, NEW r \in PriceRequest,
         Prices!ProviderFails(r)
  PROVE  Prices!PricesInv'
<1> DEFINE chunk == priceRequest[r].chunk
           price == [t \in Prices!Token |-> IF t \in chunk THEN "null" ELSE priceRequest[r].price[t]]
           told == [t \in Prices!Token |-> IF t \in chunk THEN "null" ELSE cache[t]]
           w == [priceRequest[r] EXCEPT !.price = price, !.reason = @ \union chunk]
<1>1. /\ Prices!Proceed(r, w, Prices!Landed(chunk), told, Tail(queue))
      /\ Prices!Troubled(chunk \union Prices!Reported(w))
  BY DEF Prices!ProviderFails
<1>2. priceRequest[r].pc = "ask" /\ queue # <<>> /\ cool' \in BOOLEAN
  BY PriceTypes DEF Prices!ProviderFails, Prices!UnderWay
<1>3. priceRequest[r] \in PriceWork /\ chunk \subseteq Prices!Token
  BY PriceTypes DEF PriceWork
<1>4. price \in [Prices!Token -> {"none", "price", "null"}] /\ told \in [Prices!Token -> {"none", "price", "null"}]
      /\ \A t \in Prices!Token \ chunk : price[t] = priceRequest[r].price[t] /\ told[t] = cache[t]
  BY <1>3, PriceTypes DEF PriceWork
<1> HIDE DEF price, told
<1>5. /\ w \in PriceWork /\ w.wants = priceRequest[r].wants /\ w.todo = priceRequest[r].todo
      /\ w.waits = priceRequest[r].waits /\ w.price = price
  BY <1>3, <1>4 DEF PriceWork
<1> HIDE DEF w
<1>6. Prices!Troubled((chunk \ {}) \union Prices!Reported(w))
  <2>1. chunk \ {} = chunk
    OBVIOUS
  <2> QED
    BY <1>1, <2>1
<1>7. Ready(r, w, Prices!Landed(chunk), told) /\ trouble' \in [PriceRequest -> SUBSET Prices!Token]
  <2>1. \A t \in Prices!Token \ priceRequest[r].chunk :
          w.price[t] = priceRequest[r].price[t] /\ told[t] = cache[t]
    BY <1>4, <1>5
  <2>2. {} \in SUBSET priceRequest[r].chunk
    OBVIOUS
  <2>3. \A t \in {} : w.price[t] = "price" /\ told[t] = "price"
    OBVIOUS
  <2>4. Lands(r, {}, w, told)
    BY <1>2, <1>5, <1>6, <2>1, <2>2, <2>3 DEF Lands
  <2> QED
    BY <1>4, <1>5, <2>4, LandingReady
<1> QED
  BY <1>1, <1>2, <1>4, <1>5, <1>7, PriceTypes, LandedTyped, TailTyped, ProceedKeeps

LEMMA AwaitedEndsKeeps ==
  ASSUME Prices!PricesInv, Prices!NobodyAssumption, NEW r \in PriceRequest, Prices!AwaitedEnds(r)
  PROVE  Prices!PricesInv'
<1> DEFINE t == Prices!FirstWait(priceRequest[r])
           q == priceRequest[r].awaits
           answer == IF cache[t] = "price" THEN "price" ELSE "null"
           w == [priceRequest[r] EXCEPT !.waits = @ \ {t}, !.price[t] = answer, !.reason = @ \union {t}]
<1>1. /\ Prices!CallEnded(q, t) /\ Prices!Proceed(r, w, flight, cache, queue) /\ Prices!Troubled(Prices!Reported(w))
      /\ priceRequest[r].pc = "wait" /\ cool' = cool
  BY DEF Prices!AwaitedEnds
<1>2. Prices!Sorted(r) /\ Prices!Awaited(r) /\ priceRequest[r] \in PriceWork
  BY PriceTypes DEF Prices!PricesInv
<1>3. t \in priceRequest[r].waits /\ t \in Prices!Token
  BY <1>1, <1>2, FirstWaitIn DEF Prices!Sorted, PriceWork
<1>4. cache[t] = "price" \/ t \in trouble[r]
  BY <1>1, <1>2, <1>3 DEF Prices!Awaited, Prices!CallEnded, Prices!Asking
<1>5. answer \in {"price", "null"} /\ (answer = "price" \/ t \in trouble[r])
  BY <1>4
<1> HIDE DEF t, answer
<1>6. /\ w \in PriceWork /\ w.wants = priceRequest[r].wants /\ w.todo = priceRequest[r].todo
      /\ w.waits = priceRequest[r].waits \ {t} /\ w.price[t] = answer
      /\ \A u \in Prices!Token \ {t} : w.price[u] = priceRequest[r].price[u]
  <2> DEFINE price == [priceRequest[r].price EXCEPT ![t] = answer]
  <2>1. /\ price \in [Prices!Token -> {"none", "price", "null"}] /\ price[t] = answer
        /\ \A u \in Prices!Token \ {t} : price[u] = priceRequest[r].price[u]
    BY <1>2, <1>3, <1>5 DEF PriceWork
  <2>2. w = [priceRequest[r] EXCEPT !.waits = @ \ {t}, !.price = price, !.reason = @ \union {t}]
    BY <1>2 DEF PriceWork
  <2> HIDE DEF price, w
  <2> QED
    BY <1>2, <1>3, <2>1, <2>2 DEF PriceWork
<1> HIDE DEF w
<1>7. Prices!Reported(w) \subseteq Prices!Token /\ w.wants \subseteq Prices!Token /\ w.waits \subseteq Prices!Token
  BY <1>6 DEF PriceWork, Prices!Reported, Prices!Unanswered
<1>8. /\ trouble' \in [PriceRequest -> SUBSET Prices!Token]
      /\ \A p \in PriceRequest : trouble[p] \subseteq trouble'[p]
      /\ \A p \in PriceRequest : priceRequest[p].pc \in {"ask", "wait"} => Prices!Reported(w) \subseteq trouble'[p]
  BY <1>1, <1>7, PriceTypes DEF Prices!Troubled
<1>9. \A u \in Prices!Token : flight[u] # Nobody => flight[u] # r /\ Prices!Asking(flight[u], u)
  BY <1>1 DEF Prices!PricesInv, Prices!Asking
<1>10. ASSUME NEW u \in w.wants \ (w.todo \union w.waits)
       PROVE  w.price[u] = "price" \/ u \in trouble'[r]
  <2>1. CASE u = t
    BY <1>5, <1>6, <1>8, <2>1
  <2>2. CASE u # t
    BY <1>1, <1>2, <1>6, <1>7, <1>8, <1>10, <2>2 DEF Prices!Sorted, Prices!Explained
  <2> QED
    BY <2>1, <2>2
<1>11. ASSUME NEW u \in w.waits
       PROVE  cache[u] = "price" \/ u \in trouble'[r] \/ flight[u] # Nobody
  BY <1>2, <1>6, <1>8, <1>11 DEF Prices!Awaited
<1>12. ASSUME NEW p \in PriceRequest \ {r}, NEW u \in priceRequest[p].waits
       PROVE  \/ u \in trouble'[p]
              \/ /\ u \notin Prices!Reported(w)
                 /\ \/ cache[u] = "price"
                    \/ /\ flight[u] # Nobody
                       /\ priceRequest[p].pc = "wait" /\ u = Prices!FirstWait(priceRequest[p]) =>
                            priceRequest[p].awaits # r /\ Prices!Asking(priceRequest[p].awaits, u)
  <2>1. Prices!Sorted(p) /\ Prices!Awaited(p) /\ priceRequest[p] \in PriceWork
    BY PriceTypes DEF Prices!PricesInv
  <2>2. priceRequest[p].pc \in {"ask", "wait"} /\ u \in Prices!Token
    BY <1>12, <2>1 DEF Prices!Sorted, PriceWork
  <2>3. ~ Prices!Asking(r, u)
    BY <1>1 DEF Prices!Asking
  <2> QED
    BY <1>8, <1>12, <2>1, <2>2, <2>3 DEF Prices!Awaited
<1>13. Ready(r, w, flight, cache)
  BY <1>8, <1>9, <1>10, <1>11, <1>12 DEF Ready
<1> QED
  BY <1>1, <1>6, <1>8, <1>13, PriceTypes, ProceedKeeps

\* A step that moves no request and takes away no price that one waits for.
LEMMA StillKeeps ==
  ASSUME Prices!PricesInv, UNCHANGED <<flight, queue, priceRequest, asked, trouble>>,
         cool' \in BOOLEAN,
         cache' \in [Prices!Token -> {"none", "price", "null"}],
         \A r \in PriceRequest : \A t \in priceRequest[r].waits : cache'[t] = cache[t]
  PROVE  Prices!PricesInv'
<1>1. Prices!TypeOK'
  BY PriceTypes DEF Prices!TypeOK, PriceWork
<1>2. \A p, t : Prices!Asking(p, t)' <=> Prices!Asking(p, t)
  BY DEF Prices!Asking
<1>3. \A t \in Prices!Token : flight'[t] # Nobody => Prices!Asking(flight[t], t)'
  BY DEF Prices!PricesInv, Prices!Asking
<1>4. ASSUME NEW r \in PriceRequest PROVE Prices!Sorted(r)' /\ Prices!Awaited(r)'
  <2>1. Prices!Sorted(r) /\ Prices!Awaited(r)
    BY DEF Prices!PricesInv
  <2> QED
    BY <2>1 DEF Prices!Sorted, Prices!Awaited, Prices!Explained, Prices!Asking
<1> QED
  BY <1>1, <1>3, <1>4 DEF Prices!PricesInv, Prices!UnpricedExplained

LEMMA PricesInit ==
  ASSUME Prices!Init
  PROVE  Prices!PricesInv
<1>1. Prices!Fresh \in PriceWork /\ Prices!Fresh.pc = "new" /\ Prices!Fresh.waits = {} /\ Prices!Fresh.chunk = {}
  BY DEF Prices!Fresh, PriceWork
<1>2. queue \in Seq(PriceRequest)
  BY DEF Prices!Init
<1>3. cool \in BOOLEAN
  BY DEF Prices!Init
<1>4. priceRequest \in [PriceRequest -> PriceWork]
  BY <1>1 DEF Prices!Init
<1>5. Prices!TypeOK
  BY <1>2, <1>3, <1>4 DEF Prices!Init, Prices!TypeOK, PriceWork
<1> QED
  BY <1>1, <1>5 DEF Prices!Init, Prices!PricesInv, Prices!Sorted, Prices!Awaited,
     Prices!UnpricedExplained

LEMMA PricesNext ==
  ASSUME Prices!PricesInv, Prices!NobodyAssumption, [Prices!Next]_Prices!vars
  PROVE  Prices!PricesInv'
<1>1. CASE UNCHANGED Prices!vars
  BY <1>1, StillKeeps, PriceTypes DEF Prices!vars
<1>2. ASSUME NEW t \in Prices!Token, Prices!EntryExpires(t) PROVE Prices!PricesInv'
  <2>1. cache' \in [Prices!Token -> {"none", "price", "null"}] /\ \A u \in Prices!Token \ {t} : cache'[u] = cache[u]
    BY <1>2, PriceTypes DEF Prices!EntryExpires
  <2>2. \A r \in PriceRequest : priceRequest[r].waits \subseteq Prices!Token \ {t}
    BY <1>2, PriceTypes DEF Prices!EntryExpires, PriceWork
  <2> QED
    BY <1>2, <2>1, <2>2, StillKeeps, PriceTypes DEF Prices!EntryExpires
<1>3. CASE Prices!CoolDownEnds
  BY <1>3, StillKeeps, PriceTypes DEF Prices!CoolDownEnds
<1> QED
  BY <1>1, <1>2, <1>3, ClassifyKeeps, ProviderAnswersKeeps, ProviderFailsKeeps, AwaitedEndsKeeps
     DEF Prices!Next

\* The invariant of the token prices holds.
THEOREM PricesInvariant ==
  ASSUME Prices!NobodyAssumption
  PROVE  Prices!Spec => []Prices!PricesInv
<1>1. Prices!Init => Prices!PricesInv
  BY PricesInit
<1>2. Prices!PricesInv /\ [Prices!Next]_Prices!vars => Prices!PricesInv'
  BY PricesNext
<1> QED
  BY <1>1, <1>2, PTL DEF Prices!Spec

-----------------------------------------------------------------------------
(* All parts.                                                              *)

\* Whatever requests about wallets come in whatever order: two wallets of one address come from
\* requests that overlapped and have different chains, every refusal and error has a reason the
\* user can see, an answer shows what was asked for unless another request came after, and a flag
\* left out is changed only when another PUT came between (wallets.service.js).
THEOREM RequestsAreExplained == Wallets!Spec => []RequestsExplained
<1>1. Wallets!RequestsInv => RequestsExplained
  BY DEF Wallets!RequestsInv, RequestsExplained
<1>2. Wallets!Spec => []Wallets!RequestsInv
  BY RequestsInvariant, ServicesAssumption
<1> QED
  BY <1>1, <1>2, PTL

\* However the calls to the provider overlap, a request that is done priced each token, or the
\* token had trouble since it started, or the request had nothing of its own to ask for
\* (holdings.provider.js).
THEOREM UnpricedTokensAreExplained == Prices!Spec => []UnpricedExplained
<1>1. Prices!PricesInv => UnpricedExplained
  BY DEF Prices!PricesInv, UnpricedExplained
<1>2. Prices!Spec => []Prices!PricesInv
  BY PricesInvariant, ServicesAssumption
<1> QED
  BY <1>1, <1>2, PTL

\* The variables of every part keep their types, in every behaviour of all parts together.
THEOREM ServiceTypesHold == ServicesSpec => []TypesOK
<1>1. MigrationsInv /\ Wallets!RequestsInv /\ Prices!PricesInv => TypesOK
  BY DEF MigrationsInv, Wallets!RequestsInv, Prices!PricesInv, TypesOK
<1>2. Wallets!Spec => []Wallets!RequestsInv
  BY RequestsInvariant, ServicesAssumption
<1>3. Prices!Spec => []Prices!PricesInv
  BY PricesInvariant, ServicesAssumption
<1> QED
  BY <1>1, <1>2, <1>3, InductiveInvariant, PTL DEF ServicesSpec
=============================================================================
