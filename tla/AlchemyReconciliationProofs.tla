---------------------- MODULE AlchemyReconciliationProofs ----------------------
(***************************************************************************)
(* Theorems about AlchemyReconciliation, for every number of chains,       *)
(* addresses, accounts, wallets and workers, and every set of failures.    *)
(***************************************************************************)
EXTENDS AlchemyReconciliation, TLAPS

-----------------------------------------------------------------------------
(* Types.                                                                  *)

\* The upsert makes a marker row of a marker row, and no other row changes.
LEMMA MarkAllType ==
  ASSUME NEW pairs, marker \in [Pair -> MarkerRow],
         \A p \in Pair : (marker[p].token = Nobody) <=> (marker[p].lease = "none"),
         disturbed \subseteq Pair, MarkAll(pairs)
  PROVE  /\ marker' \in [Pair -> MarkerRow]
         /\ \A p \in Pair : (marker'[p].token = Nobody) <=> (marker'[p].lease = "none")
         /\ disturbed' \subseteq Pair
  BY DEF MarkAll, Marked, MarkerRow, Lease

\* Releasing or postponing a row removes its claim and nothing else of it.
LEMMA UnclaimedType ==
  ASSUME NEW m \in MarkerRow, NEW due \in BOOLEAN
  PROVE  Unclaimed(m, due) \in MarkerRow
  BY DEF Unclaimed, MarkerRow, Lease

\* Releasing the locks of one owner keeps the lock table a lock table.
LEMMA ReleaseAllType ==
  ASSUME NEW o, pairLock \in [Pair -> User \union Worker \union {Nobody}], ReleaseAll(o)
  PROVE  pairLock' \in [Pair -> User \union Worker \union {Nobody}]
  BY DEF ReleaseAll

\* The initial values have their types.
LEMMA TypeOKInit == Init => TypeOK
<1> SUFFICES ASSUME Init PROVE TypeOK
  OBVIOUS
<1>1. NoTxn \in TxnState
  BY DEF NoTxn, TxnState, NoWallet
<1>2. NoClaim \in ClaimState
  BY DEF NoClaim, ClaimState, Locked, Reconciling, NoPair
<1>3. NoMarker \in MarkerRow
  BY DEF NoMarker, MarkerRow, Lease
<1>4. NoSweep \in SweepState
  BY ConstantsAssumption DEF NoSweep, SweepState
<1> QED
  BY <1>1, <1>2, <1>3, <1>4 DEF Init, TypeOK, NoMarker, NoWallet

\* A wallet transaction keeps every variable in its type.
LEMMA TypeOKWallet ==
  ASSUME TypeOK, NEW u \in User, WalletStep(u)
  PROVE  TypeOK'
<1> USE ConstantsAssumption
<1>1. ASSUME NEW targets \in SUBSET Wallet, NEW next \in WalletRow \union {NoWallet},
             NEW locks \in SUBSET Pair, NEW marks \in SUBSET Pair,
             OpenTxn(u, targets, next, locks, marks)
      PROVE  TypeOK'
  BY <1>1 DEF OpenTxn, TypeOK, TxnState
<1>2. \A row : WalletPairs(row) \in SUBSET Pair
  BY DEF WalletPairs
<1>3. CASE BeginCreateWallet(u)
  BY <1>1, <1>2, <1>3 DEF BeginCreateWallet
<1>4. CASE BeginUpdateWallet(u)
  BY <1>1, <1>2, <1>4 DEF BeginUpdateWallet, UpdateLocks, UpdateMarks
<1>5. CASE BeginDeleteWallet(u)
  BY <1>1, <1>2, <1>5 DEF BeginDeleteWallet
<1>6. CASE BeginDeleteAccount(u)
  BY <1>1, <1>6 DEF BeginDeleteAccount
<1>7. CASE LockNextPair(u)
  BY <1>7 DEF LockNextPair, TypeOK
<1>8. NoTxn \in TxnState
  BY DEF NoTxn, TxnState, NoWallet
<1>9. CASE CommitTxn(u)
  <2>1. wallet' \in [Wallet -> WalletRow \union {NoWallet}]
    BY <1>9 DEF CommitTxn, TypeOK, TxnState
  <2>2. txn' \in [User -> TxnState]
    BY <1>8, <1>9 DEF CommitTxn, TypeOK
  <2> QED
    BY <1>9, <2>1, <2>2, MarkAllType, ReleaseAllType DEF CommitTxn, TypeOK
<1>10. CASE AbortTxn(u)
  BY <1>8, <1>10, ReleaseAllType DEF AbortTxn, TypeOK
<1> QED
  BY <1>3, <1>4, <1>5, <1>6, <1>7, <1>9, <1>10 DEF WalletStep

\* Every step of a worker, failures included, keeps every variable in its type.
LEMMA TypeOKWorker ==
  ASSUME TypeOK, ClaimsHavePairs, NEW k \in Worker, WorkerStep(k)
  PROVE  TypeOK'
<1> USE ConstantsAssumption
<1> DEFINE q == worker[k].pair
<1>1. NoClaim \in ClaimState
  BY DEF NoClaim, ClaimState, Locked, Reconciling, NoPair
<1>2. NoMarker \in MarkerRow /\ NoMarker.token = Nobody /\ NoMarker.lease = "none"
  BY DEF NoMarker, MarkerRow, Lease
<1>3. worker[k].pc # "idle" => q \in Pair
  BY DEF ClaimsHavePairs
<1>4. ASSUME worker[k].pc # "idle" PROVE Patched(k) \subseteq Pair
  BY <1>3, <1>4 DEF Patched, TypeOK
<1>13. worker \in [Worker -> ClaimState] /\ worker[k] \in ClaimState
  BY DEF TypeOK
<1>14. marker \in [Pair -> MarkerRow]
  BY DEF TypeOK
<1>5. ASSUME NEW pc \in Locked \union {"idle", "claimed", "retry"}, Goto(k, pc)
      PROVE  worker' \in [Worker -> ClaimState]
  BY <1>5 DEF Goto, TypeOK, ClaimState
<1>6. Forget(k) => worker' \in [Worker -> ClaimState]
  BY <1>1 DEF Forget, TypeOK
<1>7. Fail(k) => worker' \in [Worker -> ClaimState]
  <2>1. [worker[k] EXCEPT !.pc = "unlock", !.failed = TRUE] \in ClaimState
    BY <1>13 DEF ClaimState, Locked
  <2>2. Fail(k) => worker' = [worker EXCEPT ![k] = [worker[k] EXCEPT !.pc = "unlock",
                                                                     !.failed = TRUE]]
    BY <1>13 DEF Fail, ClaimState
  <2> QED
    BY <1>13, <2>1, <2>2
<1>8. CASE \E p \in Pair : ClaimRow(k, p)
  <2> PICK p \in Pair : ClaimRow(k, p)
    BY <1>8
  <2>1. marker[p].generation \in Nat
    BY DEF TypeOK, MarkerRow
  <2>2. [NoClaim EXCEPT !.pc = "claimed", !.pair = p,
                        !.generation = marker[p].generation] \in ClaimState
    BY <2>1 DEF NoClaim, ClaimState
  <2>3. worker' \in [Worker -> ClaimState]
    BY <2>2 DEF ClaimRow, TypeOK
  <2>4. marker' \in [Pair -> MarkerRow]
    BY <1>14 DEF ClaimRow, MarkerRow, Lease
  <2>5. \A r \in Pair : (marker'[r].token = Nobody) <=> (marker'[r].lease = "none")
    BY DEF ClaimRow, TypeOK, MarkerRow
  <2> QED
    BY <2>3, <2>4, <2>5 DEF ClaimRow, TypeOK
<1>9. CASE AcquirePairLock(k)
  <2>1. worker' \in [Worker -> ClaimState]
    BY <1>5, <1>9 DEF AcquirePairLock, Locked, Reconciling
  <2> QED
    BY <1>9, <2>1 DEF AcquirePairLock, TypeOK
<1>10. CASE ReconcileStep(k)
  <2>check. CASE CheckClaim(k)
    BY <1>5, <2>check DEF CheckClaim, TypeOK, Locked, Reconciling
  <2>read. CASE ReadDesired(k)
    <3>1. worker' \in [Worker -> ClaimState]
      BY <1>13, <2>read DEF ReadDesired, Desired, ClaimState, Locked, Reconciling
    <3> QED
      BY <2>read, <3>1 DEF ReadDesired, TypeOK
  <2>list. CASE ListWatched(k)
    <3>1. worker' \in [Worker -> ClaimState]
      <4> DEFINE next(pc) == [worker[k] EXCEPT !.pc = pc, !.observed = Watching(k)]
      <4>3. Watching(k) \in BOOLEAN
        BY DEF Watching
      <4>1. next("recheck") \in ClaimState /\ next("patch") \in ClaimState
        BY <1>13, <4>3 DEF ClaimState, Locked, Reconciling
      <4>2. \/ worker' = [worker EXCEPT ![k] = next("recheck")]
            \/ worker' = [worker EXCEPT ![k] = next("patch")]
        BY <1>13, <2>list DEF ListWatched, ClaimState
      <4> QED
        BY <1>13, <4>1, <4>2
    <3> QED
      BY <2>list, <3>1 DEF ListWatched, TypeOK
  <2>patch. CASE PatchWatch(k)
    BY <1>4, <1>5, <2>patch DEF PatchWatch, TypeOK, Locked, Reconciling
  <2>relist. CASE RelistWatched(k)
    <3>1. worker' \in [Worker -> ClaimState]
      <4> DEFINE next(pc, failed) ==
            [worker[k] EXCEPT !.pc = pc, !.failed = failed, !.observed = Watching(k)]
      <4>3. Watching(k) \in BOOLEAN
        BY DEF Watching
      <4>1. next("recheck", FALSE) \in ClaimState /\ next("unlock", TRUE) \in ClaimState
        BY <1>13, <4>3 DEF ClaimState, Locked, Reconciling
      <4>2. \/ worker' = [worker EXCEPT ![k] = next("recheck", FALSE)]
            \/ worker' = [worker EXCEPT ![k] = next("unlock", TRUE)]
        BY <1>13, <2>relist DEF RelistWatched, ClaimState
      <4> QED
        BY <1>13, <4>1, <4>2
    <3> QED
      BY <2>relist, <3>1 DEF RelistWatched, TypeOK
  <2>recheck. CASE RecheckDesired(k)
    BY <1>5, <2>recheck DEF RecheckDesired, TypeOK, Locked, Reconciling
  <2>complete. CASE CompleteClaim(k)
    BY <1>2, <1>5, <2>complete DEF CompleteClaim, TypeOK, Locked, Reconciling
  <2>release. CASE ReleaseClaim(k)
    <3>1. marker' \in [Pair -> MarkerRow]
      BY <1>3, <1>14, <2>release, UnclaimedType DEF ReleaseClaim, Unclaimed
    <3>2. \A r \in Pair : (marker'[r].token = Nobody) <=> (marker'[r].lease = "none")
      BY <1>3, <1>14, <2>release, UnclaimedType DEF ReleaseClaim, Unclaimed, TypeOK
    <3> QED
      BY <1>5, <2>release, <3>1, <3>2 DEF ReleaseClaim, TypeOK, Locked
  <2>unlock. CASE UnlockPair(k)
    BY <1>5, <1>6, <2>unlock DEF UnlockPair, Unlock, TypeOK
  <2> QED
    BY <1>10, <2>check, <2>read, <2>list, <2>patch, <2>relist, <2>recheck, <2>complete,
       <2>release, <2>unlock DEF ReconcileStep
<1>11. CASE RetryClaim(k)
  <2>1. marker' \in [Pair -> MarkerRow]
    BY <1>3, <1>14, <1>11, UnclaimedType DEF RetryClaim, Unclaimed
  <2>2. \A r \in Pair : (marker'[r].token = Nobody) <=> (marker'[r].lease = "none")
    BY <1>3, <1>14, <1>11, UnclaimedType DEF RetryClaim, Unclaimed, TypeOK
  <2> QED
    BY <1>6, <1>11, <2>1, <2>2 DEF RetryClaim, TypeOK
<1>12. CASE WorkerFault(k)
  <2>provider. CASE ProviderFails(k)
    BY <1>4, <1>5, <1>7, <2>provider DEF ProviderFails, TypeOK, Locked, Reconciling
  <2>statement. CASE StatementFails(k)
    BY <1>7, <2>statement DEF StatementFails, TypeOK
  <2>ack. CASE CompleteAckLost(k)
    BY <1>2, <1>7, <2>ack DEF CompleteAckLost, TypeOK
  <2>acquire. CASE AcquireFails(k)
    <3>1. worker' \in [Worker -> ClaimState]
      BY <1>13, <2>acquire DEF AcquireFails, ClaimState
    <3> QED
      BY <2>acquire, <3>1 DEF AcquireFails, TypeOK
  <2>unlock. CASE UnlockFails(k)
    <3>1. worker' \in [Worker -> ClaimState]
      BY <1>13, <2>unlock DEF UnlockFails, ClaimState
    <3> QED
      BY <2>unlock, <3>1 DEF UnlockFails, Unlock, TypeOK
  <2>retry. CASE RetryFails(k)
    BY <1>6, <2>retry DEF RetryFails, TypeOK
  <2>crash. CASE Crash(k)
    BY <1>4, <1>6, <2>crash, ReleaseAllType DEF Crash, TypeOK
  <2> QED
    BY <1>12, <2>provider, <2>statement, <2>ack, <2>acquire, <2>unlock, <2>retry, <2>crash DEF WorkerFault
<1> QED
  BY <1>8, <1>9, <1>10, <1>11, <1>12 DEF WorkerStep

\* So do the sweep and the passing of time.
LEMMA TypeOKSweep == TypeOK /\ SweepStep => TypeOK'
<1> SUFFICES ASSUME TypeOK, SweepStep PROVE TypeOK'
  OBVIOUS
<1> USE ConstantsAssumption
<1>1. NextChainSweep \in SweepState
  BY DEF NextChainSweep, SweepOf, NoSweep, SweepState, TypeOK
<1>2. CASE StartSweep
  BY <1>2 DEF StartSweep, SweepOf, SweepState, TypeOK
<1>3. CASE SweepReadDatabase
  BY <1>3 DEF SweepReadDatabase, SweepState, TypeOK
<1>4. CASE SweepListWatched
  BY <1>1, <1>4 DEF SweepListWatched, SweepState, TypeOK
<1>5. CASE SweepEnqueue
  BY <1>1, <1>5, MarkAllType DEF SweepEnqueue, TypeOK
<1>6. CASE SweepChainFails
  BY <1>1, <1>6 DEF SweepChainFails, TypeOK
<1> QED
  BY <1>2, <1>3, <1>4, <1>5, <1>6 DEF SweepStep

\* The passing of time keeps every variable in its type.
LEMMA TypeOKTime ==
  ASSUME TypeOK, NEW p \in Pair, TimeStep(p)
  PROVE  TypeOK'
<1>1. CASE LeaseExpires(p)
  BY <1>1 DEF LeaseExpires, TypeOK, MarkerRow, Lease
<1>2. CASE BackoffElapses(p)
  BY <1>2 DEF BackoffElapses, TypeOK, MarkerRow
<1>3. CASE WatchDrifts(p)
  BY <1>3 DEF WatchDrifts, TypeOK
<1> QED
  BY <1>1, <1>2, <1>3 DEF TimeStep

-----------------------------------------------------------------------------
(* What one step changes.                                                  *)

\* A step of one worker is invisible in the others' claims.
LEMMA OthersStay ==
  ASSUME TypeOK, NEW k \in Worker, WorkerStep(k), NEW j \in Worker \ {k}
  PROVE  worker'[j] = worker[j]
<1> USE DEF TypeOK, Goto, Fail, Forget
<1>1. CASE \E p \in Pair : ClaimRow(k, p)
  BY <1>1 DEF ClaimRow
<1>2. CASE AcquirePairLock(k) \/ RetryClaim(k)
  BY <1>2 DEF AcquirePairLock, RetryClaim
<1>3. CASE ReconcileStep(k)
  BY <1>3 DEF ReconcileStep, CheckClaim, ReadDesired, ListWatched, PatchWatch,
       RelistWatched, RecheckDesired, CompleteClaim, ReleaseClaim, UnlockPair
<1>4. CASE WorkerFault(k)
  BY <1>4 DEF WorkerFault, ProviderFails, StatementFails, CompleteAckLost, AcquireFails,
       UnlockFails, RetryFails, Crash
<1> QED
  BY <1>1, <1>2, <1>3, <1>4 DEF WorkerStep

\* The shorthands for a worker's move change its own record only where they say.
LEMMA GotoMoves ==
  ASSUME TypeOK, NEW k \in Worker, NEW pc, Goto(k, pc)
  PROVE  /\ worker'[k] = [worker[k] EXCEPT !.pc = pc]
         /\ worker'[k].pc = pc
         /\ worker'[k].pair = worker[k].pair
         /\ worker'[k].generation = worker[k].generation
         /\ worker'[k].desired = worker[k].desired
         /\ worker'[k].observed = worker[k].observed
<1>1. worker'[k] = [worker[k] EXCEPT !.pc = pc]
  BY DEF TypeOK, Goto
<1>2. worker[k] \in ClaimState
  BY DEF TypeOK
<1> QED
  BY <1>1, <1>2 DEF ClaimState

\* A failed step sends its worker to the unlock.
LEMMA FailMoves ==
  ASSUME TypeOK, NEW k \in Worker, Fail(k)
  PROVE  /\ worker'[k].pc = "unlock"
         /\ worker'[k].pair = worker[k].pair
         /\ worker'[k].generation = worker[k].generation
<1>1. worker'[k] = [worker[k] EXCEPT !.pc = "unlock", !.failed = TRUE]
  BY DEF TypeOK, Fail, ClaimState
<1>2. worker[k] \in ClaimState
  BY DEF TypeOK
<1> QED
  BY <1>1, <1>2 DEF ClaimState

\* A worker that ends its claim is idle.
LEMMA ForgetMoves ==
  ASSUME TypeOK, NEW k \in Worker, Forget(k)
  PROVE  worker'[k] = NoClaim
  BY DEF TypeOK, Forget

\* Within one claim a worker keeps its pair and its generation.
LEMMA ClaimKept ==
  ASSUME TypeOK, NEW k \in Worker, WorkerStep(k), worker[k].pc # "idle"
  PROVE  \/ worker'[k] = NoClaim
         \/ worker'[k].pair = worker[k].pair /\ worker'[k].generation = worker[k].generation
<1>1. worker \in [Worker -> ClaimState] /\ worker[k] \in ClaimState
  BY DEF TypeOK
<1>2. ASSUME NEW pc, Goto(k, pc)
      PROVE  worker'[k].pair = worker[k].pair /\ worker'[k].generation = worker[k].generation
  BY <1>2, GotoMoves
<1>3. Fail(k) =>
        worker'[k].pair = worker[k].pair /\ worker'[k].generation = worker[k].generation
  BY FailMoves
<1>4. Forget(k) => worker'[k] = NoClaim
  BY ForgetMoves
<1>5. \A p \in Pair : ~ClaimRow(k, p)
  BY DEF ClaimRow
<1>6. CASE AcquirePairLock(k) \/ RetryClaim(k)
  BY <1>2, <1>4, <1>6 DEF AcquirePairLock, RetryClaim
<1>7. CASE CheckClaim(k) \/ PatchWatch(k) \/ RecheckDesired(k) \/ CompleteClaim(k)
           \/ ReleaseClaim(k)
  BY <1>2, <1>7 DEF CheckClaim, PatchWatch, RecheckDesired, CompleteClaim, ReleaseClaim
<1>8. CASE ReadDesired(k) \/ ListWatched(k) \/ RelistWatched(k)
  BY <1>1, <1>8 DEF ReadDesired, ListWatched, RelistWatched, ClaimState
<1>9. CASE UnlockPair(k)
  BY <1>2, <1>4, <1>9 DEF UnlockPair
<1>10. CASE ProviderFails(k) \/ StatementFails(k) \/ CompleteAckLost(k)
  BY <1>2, <1>3, <1>10 DEF ProviderFails, StatementFails, CompleteAckLost
<1>11. CASE AcquireFails(k) \/ UnlockFails(k)
  BY <1>1, <1>11 DEF AcquireFails, UnlockFails, ClaimState
<1>12. CASE RetryFails(k) \/ Crash(k)
  BY <1>4, <1>12 DEF RetryFails, Crash
<1> QED
  BY <1>5, <1>6, <1>7, <1>8, <1>9, <1>10, <1>11, <1>12
     DEF WorkerStep, ReconcileStep, WorkerFault

\* Nobody else moves a worker.
LEMMA WorkersStay ==
  ASSUME (\E u \in User : WalletStep(u)) \/ SweepStep \/ (\E p \in Pair : TimeStep(p))
  PROVE  worker' = worker
<1>1. (\E u \in User : WalletStep(u)) => worker' = worker
  BY DEF WalletStep, BeginCreateWallet, BeginUpdateWallet, BeginDeleteWallet,
         BeginDeleteAccount, OpenTxn, LockNextPair, CommitTxn, AbortTxn
<1>2. SweepStep => worker' = worker
  BY DEF SweepStep, StartSweep, SweepReadDatabase, SweepListWatched, SweepEnqueue,
         SweepChainFails
<1>3. (\E p \in Pair : TimeStep(p)) => worker' = worker
  BY DEF TimeStep, LeaseExpires, BackoffElapses, WatchDrifts
<1> QED
  BY <1>1, <1>2, <1>3

\* So a busy worker always has a pair.
LEMMA ClaimsHavePairsNext ==
  ASSUME TypeOK, ClaimsHavePairs, [Next]_vars
  PROVE  ClaimsHavePairs'
<1>1. CASE worker' = worker
  BY <1>1 DEF ClaimsHavePairs
<1>2. ASSUME NEW k \in Worker, WorkerStep(k), NEW j \in Worker, worker'[j].pc # "idle"
      PROVE  worker'[j].pair \in Pair
  <2>1. CASE j # k
    BY <1>2, <2>1, OthersStay DEF ClaimsHavePairs
  <2>2. CASE j = k /\ worker[k].pc # "idle"
    BY <1>2, <2>2, ClaimKept DEF ClaimsHavePairs, NoClaim
  <2>3. CASE j = k /\ worker[k].pc = "idle"
    <3>1. PICK p \in Pair : ClaimRow(k, p)
      BY <1>2, <2>3 DEF WorkerStep, AcquirePairLock, ReconcileStep, CheckClaim, ReadDesired,
           ListWatched, PatchWatch, RelistWatched, RecheckDesired, CompleteClaim,
           ReleaseClaim, UnlockPair, RetryClaim, WorkerFault, ProviderFails,
           StatementFails, CompleteAckLost, AcquireFails, UnlockFails, RetryFails, Crash
    <3> QED
      BY <2>3, <3>1 DEF ClaimRow, NoClaim, TypeOK
  <2> QED
    BY <2>1, <2>2, <2>3
<1> QED
  BY <1>1, <1>2, WorkersStay DEF Next, vars, ClaimsHavePairs

\* Every reachable state is well typed, and a marker row has a claim token
\* exactly when it has a lease.
THEOREM TypeCorrect == Spec => [](TypeOK /\ ClaimsHavePairs)
<1>1. Init => TypeOK /\ ClaimsHavePairs
  BY TypeOKInit DEF Init, ClaimsHavePairs, NoClaim
<1>2. TypeOK /\ ClaimsHavePairs /\ [Next]_vars => (TypeOK /\ ClaimsHavePairs)'
  <2> SUFFICES ASSUME TypeOK, ClaimsHavePairs, [Next]_vars PROVE TypeOK'
    BY ClaimsHavePairsNext
  <2>1. CASE UNCHANGED vars
    BY <2>1 DEF vars, TypeOK
  <2> QED
    BY <2>1, TypeOKWallet, TypeOKWorker, TypeOKSweep, TypeOKTime DEF Next
<1> QED
  BY <1>1, <1>2, PTL DEF Spec

-----------------------------------------------------------------------------
(* Locks.                                                                  *)

\* A wallet transaction gives up all its locks when it ends, and takes only
\* those it asked for.
LEMMA LocksHeldWallet ==
  ASSUME TypeOK, LocksHeld, NEW u \in User, WalletStep(u)
  PROVE  LocksHeld'
<1> USE ConstantsAssumption DEF LocksHeld, TypeOK
<1>1. worker' = worker
  BY WorkersStay
<1>2. ASSUME NEW targets, NEW next, NEW locks, NEW marks, OpenTxn(u, targets, next, locks, marks)
      PROVE  LocksHeld'
  BY <1>2 DEF OpenTxn
<1>3. CASE BeginCreateWallet(u)
  BY <1>2, <1>3 DEF BeginCreateWallet
<1>8. CASE BeginUpdateWallet(u)
  BY <1>2, <1>8 DEF BeginUpdateWallet
<1>7. CASE BeginDeleteWallet(u) \/ BeginDeleteAccount(u)
  BY <1>2, <1>7 DEF BeginDeleteWallet, BeginDeleteAccount
<1>4. CASE LockNextPair(u)
  BY <1>4 DEF LockNextPair, NextLock
<1>5. CASE CommitTxn(u)
  BY <1>1, <1>5 DEF CommitTxn, ReleaseAll
<1>6. CASE AbortTxn(u)
  BY <1>1, <1>6 DEF AbortTxn, ReleaseAll
<1> QED
  BY <1>3, <1>4, <1>5, <1>6, <1>7, <1>8 DEF WalletStep

\* A worker step that neither takes nor gives back the lock stays on its side of it.
LEMMA LocksHeldInside ==
  ASSUME TypeOK, LocksHeld, NEW k \in Worker, WorkerStep(k),
         UNCHANGED <<txn, pairLock>>,
         worker[k].pc \in Locked <=> worker'[k].pc \in Locked,
         worker[k].pc \in Locked => worker'[k].pair = worker[k].pair
  PROVE  LocksHeld'
  BY OthersStay DEF LocksHeld

\* Every step of a worker keeps the lock table in agreement with where the workers are.
LEMMA LocksHeldWorker ==
  ASSUME TypeOK, ClaimsHavePairs, LocksHeld, NEW k \in Worker, WorkerStep(k)
  PROVE  LocksHeld'
<1> USE ConstantsAssumption
<1>1. worker \in [Worker -> ClaimState] /\ worker[k] \in ClaimState
  BY DEF TypeOK
<1>2. ASSUME NEW pc \in Locked, Goto(k, pc), worker[k].pc \in Locked, UNCHANGED <<txn, pairLock>>
      PROVE  LocksHeld'
  <2>1. worker'[k].pc = pc /\ worker'[k].pair = worker[k].pair
    BY <1>2, GotoMoves
  <2> QED
    BY <1>2, <2>1, LocksHeldInside
<1>3. ASSUME Fail(k), worker[k].pc \in Locked, UNCHANGED <<txn, pairLock>> PROVE LocksHeld'
  <2>1. worker'[k].pc \in Locked /\ worker'[k].pair = worker[k].pair
    BY <1>3, FailMoves DEF Locked
  <2> QED
    BY <1>3, <2>1, LocksHeldInside
<1>4. ASSUME worker[k].pc \notin Locked, worker'[k].pc \notin Locked, UNCHANGED <<txn, pairLock>>
      PROVE  LocksHeld'
  BY <1>4, LocksHeldInside
<1>5. NoClaim.pc \notin Locked
  BY DEF NoClaim, Locked, Reconciling
<1>6. ASSUME worker[k].pc \in Locked, worker'[k].pc \notin Locked, txn' = txn,
             \A p \in Pair : pairLock'[p] = IF pairLock[p] = k THEN Nobody ELSE pairLock[p]
      PROVE  LocksHeld'
  BY <1>6, OthersStay DEF LocksHeld
<1>7. CASE \E p \in Pair : ClaimRow(k, p)
  BY <1>1, <1>4, <1>7 DEF ClaimRow, NoClaim, Locked, Reconciling
<1>8. CASE AcquirePairLock(k)
  <2> DEFINE q == worker[k].pair
  <2>1. worker[k].pc \notin Locked /\ q \in Pair
    BY <1>8 DEF AcquirePairLock, Locked, Reconciling, ClaimsHavePairs
  <2>2. worker'[k].pc \in Locked /\ worker'[k].pair = q
    <3>1. worker'[k].pc = "check" /\ worker'[k].pair = q
      BY <1>8, GotoMoves DEF AcquirePairLock
    <3> QED
      BY <3>1 DEF Locked, Reconciling
  <2>3. \A p \in Pair : pairLock'[p] = IF p = q THEN k ELSE pairLock[p]
    BY <1>8, <2>1 DEF AcquirePairLock, TypeOK
  <2>4. pairLock[q] = Nobody /\ txn' = txn
    BY <1>8 DEF AcquirePairLock
  <2> QED
    BY <2>1, <2>2, <2>3, <2>4, OthersStay DEF LocksHeld
<1>9. CASE CheckClaim(k) \/ PatchWatch(k) \/ RecheckDesired(k) \/ CompleteClaim(k)
           \/ ReleaseClaim(k)
  BY <1>2, <1>9 DEF CheckClaim, PatchWatch, RecheckDesired, CompleteClaim, ReleaseClaim,
                    Locked, Reconciling
<1>10. CASE ReadDesired(k) \/ ListWatched(k) \/ RelistWatched(k)
  <2>1. worker[k].pc \in Locked /\ worker'[k].pc \in Locked /\ worker'[k].pair = worker[k].pair
    BY <1>1, <1>10 DEF ReadDesired, ListWatched, RelistWatched, ClaimState, Locked, Reconciling
  <2> QED
    BY <1>10, <2>1, LocksHeldInside DEF ReadDesired, ListWatched, RelistWatched
<1>11. CASE UnlockPair(k) \/ UnlockFails(k)
  <2>1. worker[k].pc \in Locked /\ worker[k].pair \in Pair
    BY <1>11 DEF UnlockPair, UnlockFails, Locked, ClaimsHavePairs
  <2>2. worker'[k].pc \notin Locked
    BY <1>1, <1>5, <1>11, GotoMoves, ForgetMoves
       DEF UnlockPair, UnlockFails, ClaimState, Locked, Reconciling
  <2>3. \A p \in Pair : pairLock'[p] = IF pairLock[p] = k THEN Nobody ELSE pairLock[p]
    BY <1>11, <2>1 DEF UnlockPair, UnlockFails, Unlock, LocksHeld, TypeOK
  <2> QED
    BY <1>6, <1>11, <2>1, <2>2, <2>3 DEF UnlockPair, UnlockFails
<1>12. CASE RetryClaim(k) \/ RetryFails(k)
  BY <1>4, <1>5, <1>12, ForgetMoves DEF RetryClaim, RetryFails, Locked, Reconciling
<1>13. CASE ProviderFails(k) \/ StatementFails(k) \/ CompleteAckLost(k)
  BY <1>2, <1>3, <1>13 DEF ProviderFails, StatementFails, CompleteAckLost, Locked, Reconciling
<1>14. CASE AcquireFails(k)
  BY <1>1, <1>4, <1>14 DEF AcquireFails, ClaimState, Locked, Reconciling
<1>15. CASE Crash(k)
  <2>1. worker'[k].pc \notin Locked
    BY <1>5, <1>15, ForgetMoves DEF Crash
  <2>2. txn' = txn /\ \A p \in Pair : pairLock'[p] = IF pairLock[p] = k THEN Nobody ELSE pairLock[p]
    BY <1>15 DEF Crash, ReleaseAll
  <2> QED
    BY <2>1, <2>2, OthersStay DEF LocksHeld
<1> QED
  BY <1>7, <1>8, <1>9, <1>10, <1>11, <1>12, <1>13, <1>14, <1>15
     DEF WorkerStep, ReconcileStep, WorkerFault

-----------------------------------------------------------------------------
(* The effects of a step on the rows, the markers and the watch.           *)

\* Only commits change wallets.
LEMMA WalletsStay ==
  ASSUME \/ \E k \in Worker : WorkerStep(k)
         \/ SweepStep
         \/ \E p \in Pair : TimeStep(p)
         \/ \E u \in User : WalletStep(u) /\ ~CommitTxn(u)
  PROVE  wallet' = wallet
<1>1. ASSUME NEW k \in Worker, WorkerStep(k) PROVE wallet' = wallet
  BY <1>1 DEF WorkerStep, ClaimRow, AcquirePairLock, ReconcileStep, CheckClaim, ReadDesired,
     ListWatched, PatchWatch, RelistWatched, RecheckDesired, CompleteClaim, ReleaseClaim,
     UnlockPair, RetryClaim, WorkerFault, ProviderFails, StatementFails, CompleteAckLost,
     AcquireFails, UnlockFails, RetryFails, Crash
<1>2. SweepStep => wallet' = wallet
  BY DEF SweepStep, StartSweep, SweepReadDatabase, SweepListWatched, SweepEnqueue,
         SweepChainFails
<1>3. (\E p \in Pair : TimeStep(p)) => wallet' = wallet
  BY DEF TimeStep, LeaseExpires, BackoffElapses, WatchDrifts
<1>4. ASSUME NEW u \in User, WalletStep(u), ~CommitTxn(u) PROVE wallet' = wallet
  BY <1>4 DEF WalletStep, BeginCreateWallet, BeginUpdateWallet, BeginDeleteWallet,
         BeginDeleteAccount, OpenTxn, LockNextPair, AbortTxn
<1> QED
  BY <1>1, <1>2, <1>3, <1>4

\* While no wallet changes, neither does what is wanted.
LEMMA DesiredStays ==
  ASSUME wallet' = wallet, NEW p \in Pair
  PROVE  Desired(p)' = Desired(p)
  BY DEF Desired, WalletPairs

\* A commit changes what is wanted only for the pairs it marks.
LEMMA CommitChangesMarked ==
  ASSUME TypeOK, TxnsCoverChanges, NEW u \in User, CommitTxn(u),
         NEW p \in Pair \ txn[u].marks
  PROVE  Desired(p)' = Desired(p)
<1>1. txn[u].open /\ wallet \in [Wallet -> WalletRow \union {NoWallet}]
  BY DEF CommitTxn, TypeOK
<1>2. \A w \in Wallet : wallet'[w] = IF w \in txn[u].targets THEN txn[u].next ELSE wallet[w]
  BY DEF CommitTxn
<1>3. \A w \in txn[u].targets :
        p \in WalletPairs(wallet[w]) <=> p \in WalletPairs(txn[u].next)
  BY <1>1 DEF TxnsCoverChanges
<1>4. \A w \in Wallet : p \in WalletPairs(wallet'[w]) <=> p \in WalletPairs(wallet[w])
  BY <1>2, <1>3
<1> QED
  BY <1>4 DEF Desired, WalletPairs

\* No commit marks a pair while a worker holds its lock.
LEMMA CommitAvoidsWorkers ==
  ASSUME LocksHeld, TxnsCoverChanges, ClaimsHavePairs, NEW u \in User, CommitTxn(u),
         NEW k \in Worker, worker[k].pc \in Locked
  PROVE  worker[k].pair \notin txn[u].marks
<1>1. worker[k].pair \in Pair /\ pairLock[worker[k].pair] = k
  BY DEF LocksHeld, ClaimsHavePairs, Locked, Reconciling
<1>2. \A p \in txn[u].marks : pairLock[p] = u
  BY DEF CommitTxn, TxnsCoverChanges
<1> QED
  BY <1>1, <1>2, ConstantsAssumption

\* Two workers never hold the same pair.
LEMMA LockExcludes ==
  ASSUME LocksHeld, ClaimsHavePairs, NEW j \in Worker, NEW k \in Worker,
         worker[j].pc \in Locked, worker[k].pc \in Locked, worker[j].pair = worker[k].pair
  PROVE  j = k
<1>1. worker[k].pair \in Pair
  BY DEF ClaimsHavePairs, Locked, Reconciling
<1> QED
  BY <1>1 DEF LocksHeld

\* What a worker does to the outside: nothing but to its own claims' leases, or one
\* of a PATCH, a look at Alchemy and the deletion of the marker of its pair.
QuietStep ==
  watched' = watched /\ disturbed' = disturbed /\ \A p \in Pair : Present(p)' = Present(p)
PatchStep(k) ==
  /\ worker[k].pc = "patch"
  /\ watched' = Patched(k) /\ disturbed' = disturbed /\ marker' = marker
LookStep(k) ==
  /\ worker[k].pc \in {"list", "relist"}
  /\ watched' = watched /\ disturbed' = disturbed \ {worker[k].pair} /\ marker' = marker
SettleStep(k) ==
  /\ worker[k].pc = "complete"
  /\ Completable(k)
  /\ watched' = watched /\ disturbed' = disturbed
  /\ marker' = [marker EXCEPT ![worker[k].pair] = NoMarker]

\* Every worker step is quiet, or patches, or looks, or settles its pair.
LEMMA WorkerEffect ==
  ASSUME TypeOK, ClaimsHavePairs, NEW k \in Worker, WorkerStep(k)
  PROVE  QuietStep \/ PatchStep(k) \/ LookStep(k) \/ SettleStep(k)
<1>1. marker \in [Pair -> MarkerRow]
  BY DEF TypeOK
<1>2. marker' = marker /\ watched' = watched /\ disturbed' = disturbed => QuietStep
  BY DEF QuietStep, Present
<1>3. worker[k].pc # "idle" => worker[k].pair \in Pair
  BY DEF ClaimsHavePairs
<1>4. CASE \E p \in Pair : ClaimRow(k, p)
  BY <1>1, <1>4 DEF ClaimRow, QuietStep, Present, MarkerRow
<1>5. CASE AcquirePairLock(k) \/ CheckClaim(k) \/ ReadDesired(k) \/ RecheckDesired(k)
           \/ UnlockPair(k) \/ StatementFails(k) \/ AcquireFails(k) \/ UnlockFails(k)
           \/ RetryFails(k)
  BY <1>2, <1>5 DEF AcquirePairLock, CheckClaim, ReadDesired, RecheckDesired, UnlockPair,
     StatementFails, AcquireFails, UnlockFails, RetryFails
<1>6. CASE ListWatched(k) \/ RelistWatched(k)
  BY <1>6 DEF ListWatched, RelistWatched, LookStep
<1>7. CASE PatchWatch(k) \/ ProviderFails(k) \/ Crash(k)
  BY <1>2, <1>7 DEF PatchWatch, ProviderFails, Crash, PatchStep
<1>8. CASE CompleteClaim(k) \/ CompleteAckLost(k)
  BY <1>2, <1>8 DEF CompleteClaim, CompleteAckLost, SettleStep
<1>9. CASE ReleaseClaim(k) \/ RetryClaim(k)
  <2>1. worker[k].pair \in Pair
    BY <1>3, <1>9 DEF ReleaseClaim, RetryClaim
  <2>2. \A p \in Pair : marker'[p].generation = marker[p].generation
    BY <1>1, <1>9, <2>1 DEF ReleaseClaim, RetryClaim, Unclaimed
  <2> QED
    BY <1>9, <2>2 DEF QuietStep, Present, ReleaseClaim, RetryClaim
<1> QED
  BY <1>4, <1>5, <1>6, <1>7, <1>8, <1>9 DEF WorkerStep, ReconcileStep, WorkerFault

\* A claim on a row is there because it was there before, on the same generation,
\* or because the worker has just claimed the row.
LEMMA ClaimsComeFromClaiming ==
  ASSUME TypeOK, ClaimsHavePairs, Next, NEW j \in Worker, NEW p \in Pair,
         marker'[p].token = j
  PROVE  \/ marker[p].token = j /\ marker'[p].generation = marker[p].generation
         \/ ClaimRow(j, p)
<1> USE ConstantsAssumption
<1>1. marker \in [Pair -> MarkerRow] /\ marker[p] \in MarkerRow
  BY DEF TypeOK
<1>2. CASE marker' = marker
  BY <1>2
<1>3. ASSUME NEW pairs, MarkAll(pairs) PROVE marker'[p] = marker[p]
  BY <1>3 DEF MarkAll, Marked
<1>4. ASSUME NEW k \in Worker, WorkerStep(k)
      PROVE  \/ marker[p].token = j /\ marker'[p].generation = marker[p].generation
             \/ ClaimRow(j, p)
  <2>1. CASE \E q \in Pair : ClaimRow(k, q)
    <3> PICK q \in Pair : ClaimRow(k, q)
      BY <2>1
    <3>1. marker' = [marker EXCEPT ![q].token = k, ![q].lease = "live"]
      BY DEF ClaimRow
    <3>2. CASE p = q
      BY <1>1, <3>1, <3>2 DEF MarkerRow
    <3>3. CASE p # q
      BY <1>1, <3>1, <3>3
    <3> QED
      BY <3>2, <3>3
  <2>2. CASE ReleaseClaim(k) \/ RetryClaim(k)
    BY <1>1, <2>2 DEF ReleaseClaim, RetryClaim, Unclaimed, ClaimsHavePairs
  <2>3. CASE CompleteClaim(k) \/ CompleteAckLost(k)
    BY <1>1, <2>3 DEF CompleteClaim, CompleteAckLost, NoMarker, ClaimsHavePairs
  <2>4. CASE marker' = marker
    BY <2>4
  <2> QED
    BY <1>4, <2>1, <2>2, <2>3, <2>4
       DEF WorkerStep, ReconcileStep, WorkerFault, AcquirePairLock, CheckClaim, ReadDesired,
           ListWatched, PatchWatch, RelistWatched, RecheckDesired, UnlockPair,
           ProviderFails, StatementFails, AcquireFails, UnlockFails, RetryFails, Crash
<1>5. ASSUME NEW u \in User, WalletStep(u) PROVE marker'[p] = marker[p]
  BY <1>3, <1>5 DEF WalletStep, BeginCreateWallet, BeginUpdateWallet, BeginDeleteWallet,
     BeginDeleteAccount, OpenTxn, LockNextPair, CommitTxn, AbortTxn
<1>6. SweepStep => marker'[p] = marker[p]
  BY <1>3 DEF SweepStep, StartSweep, SweepReadDatabase, SweepListWatched, SweepEnqueue,
     SweepChainFails
<1>7. ASSUME NEW q \in Pair, TimeStep(q)
      PROVE  marker[p].token = j /\ marker'[p].generation = marker[p].generation
  BY <1>1, <1>7 DEF TimeStep, LeaseExpires, BackoffElapses, WatchDrifts, MarkerRow
<1> QED
  BY <1>4, <1>5, <1>6, <1>7 DEF Next

-----------------------------------------------------------------------------
(* How a worker comes to where the invariant says something about it.      *)

Checked == {"desire", "list", "patch", "relist", "recheck", "complete"}
Decided == {"list", "patch", "relist", "recheck", "complete"}
Observed == {"recheck", "complete"}

\* A worker passes the check with a current claim, and then leaves the markers
\* alone until it completes.
LEMMA CheckedFlow ==
  ASSUME TypeOK, NEW k \in Worker, WorkerStep(k), worker'[k].pc \in Checked
  PROVE  /\ marker' = marker
         /\ worker'[k].pair = worker[k].pair
         /\ worker'[k].generation = worker[k].generation
         /\ worker[k].pc \in Locked
         /\ worker[k].pc \in Checked \/ ClaimCurrent(k)
<1> USE DEF Checked
<1>1. worker \in [Worker -> ClaimState] /\ worker[k] \in ClaimState
  BY DEF TypeOK
<1>2. NoClaim.pc \notin Checked
  BY DEF NoClaim
<1>3. /\ ~Forget(k) /\ ~Fail(k)
      /\ ~Goto(k, "check") /\ ~Goto(k, "release") /\ ~Goto(k, "unlock") /\ ~Goto(k, "retry")
  <2>1. ~Forget(k) /\ ~Fail(k)
    BY <1>2, ForgetMoves, FailMoves
  <2> QED
    BY <1>1, <2>1 DEF Goto, ClaimState
<1>4. CASE \E p \in Pair : ClaimRow(k, p)
  BY <1>1, <1>4 DEF ClaimRow, NoClaim
<1>5. CASE AcquirePairLock(k) \/ ReleaseClaim(k)
  BY <1>3, <1>5 DEF AcquirePairLock, ReleaseClaim
<1>13. CASE UnlockPair(k) \/ RetryClaim(k)
  BY <1>3, <1>13 DEF UnlockPair, RetryClaim
<1>6. CASE CheckClaim(k)
  <2>1. ClaimCurrent(k) /\ Goto(k, "desire")
    BY <1>3, <1>6 DEF CheckClaim
  <2> QED
    BY <1>6, <2>1, GotoMoves DEF CheckClaim, Locked, Reconciling
<1>7. CASE ReadDesired(k) \/ ListWatched(k) \/ RelistWatched(k)
  BY <1>1, <1>7 DEF ReadDesired, ListWatched, RelistWatched, ClaimState, Locked, Reconciling
<1>8. CASE PatchWatch(k) \/ RecheckDesired(k)
  BY <1>8, GotoMoves DEF PatchWatch, RecheckDesired, Locked, Reconciling
<1>9. CASE CompleteClaim(k)
  BY <1>3, <1>9 DEF CompleteClaim
<1>10. CASE ProviderFails(k)
  BY <1>3, <1>10, GotoMoves DEF ProviderFails, Locked, Reconciling
<1>11. CASE StatementFails(k) \/ CompleteAckLost(k) \/ RetryFails(k) \/ Crash(k)
  BY <1>3, <1>11 DEF StatementFails, CompleteAckLost, RetryFails, Crash
<1>12. CASE AcquireFails(k) \/ UnlockFails(k)
  BY <1>1, <1>12 DEF AcquireFails, UnlockFails, ClaimState
<1> QED
  BY <1>4, <1>5, <1>6, <1>7, <1>8, <1>9, <1>10, <1>11, <1>12, <1>13
     DEF WorkerStep, ReconcileStep, WorkerFault

\* It then acts on the one decision it read under the lock.
LEMMA DecidedFlow ==
  ASSUME TypeOK, NEW k \in Worker, WorkerStep(k), worker'[k].pc \in Decided
  PROVE  \/ worker'[k].desired = Desired(worker[k].pair)
         \/ worker[k].pc \in Decided /\ worker'[k].desired = worker[k].desired
<1> USE DEF Decided
<1>1. worker \in [Worker -> ClaimState] /\ worker[k] \in ClaimState
  BY DEF TypeOK
<1>2. NoClaim.pc \notin Decided
  BY DEF NoClaim
<1>3. /\ ~Forget(k) /\ ~Fail(k)
      /\ ~Goto(k, "check") /\ ~Goto(k, "release") /\ ~Goto(k, "unlock") /\ ~Goto(k, "retry")
      /\ ~Goto(k, "desire")
  <2>1. ~Forget(k) /\ ~Fail(k)
    BY <1>2, ForgetMoves, FailMoves
  <2> QED
    BY <1>1, <2>1 DEF Goto, ClaimState
<1>4. CASE \E p \in Pair : ClaimRow(k, p)
  BY <1>1, <1>4 DEF ClaimRow, NoClaim
<1>5. CASE AcquirePairLock(k) \/ CheckClaim(k) \/ ReleaseClaim(k)
  BY <1>3, <1>5 DEF AcquirePairLock, CheckClaim, ReleaseClaim
<1>13. CASE UnlockPair(k) \/ RetryClaim(k)
  BY <1>3, <1>13 DEF UnlockPair, RetryClaim
<1>6. CASE ReadDesired(k)
  BY <1>1, <1>6 DEF ReadDesired, ClaimState
<1>7. CASE ListWatched(k) \/ RelistWatched(k)
  BY <1>1, <1>7 DEF ListWatched, RelistWatched, ClaimState
<1>8. CASE PatchWatch(k) \/ RecheckDesired(k)
  BY <1>8, GotoMoves DEF PatchWatch, RecheckDesired
<1>9. CASE CompleteClaim(k)
  BY <1>3, <1>9 DEF CompleteClaim
<1>10. CASE ProviderFails(k)
  BY <1>3, <1>10, GotoMoves DEF ProviderFails
<1>11. CASE StatementFails(k) \/ CompleteAckLost(k) \/ RetryFails(k) \/ Crash(k)
  BY <1>3, <1>11 DEF StatementFails, CompleteAckLost, RetryFails, Crash
<1>12. CASE AcquireFails(k) \/ UnlockFails(k)
  BY <1>1, <1>12 DEF AcquireFails, UnlockFails, ClaimState
<1> QED
  BY <1>4, <1>5, <1>6, <1>7, <1>8, <1>9, <1>10, <1>11, <1>12, <1>13
     DEF WorkerStep, ReconcileStep, WorkerFault

\* It concludes from a list of Alchemy's addresses that agrees with the decision.
LEMMA ObservedFlow ==
  ASSUME TypeOK, NEW k \in Worker, WorkerStep(k), worker'[k].pc \in Observed
  PROVE  /\ watched' = watched
         /\ \/ worker'[k].observed = worker'[k].desired /\ worker'[k].observed = Watching(k)
            \/ /\ worker[k].pc \in Observed
               /\ worker'[k].desired = worker[k].desired
               /\ worker'[k].observed = worker[k].observed
               /\ disturbed' = disturbed
<1> USE DEF Observed
<1>1. worker \in [Worker -> ClaimState] /\ worker[k] \in ClaimState
  BY DEF TypeOK
<1>2. NoClaim.pc \notin Observed
  BY DEF NoClaim
<1>3. /\ ~Forget(k) /\ ~Fail(k)
      /\ ~Goto(k, "check") /\ ~Goto(k, "release") /\ ~Goto(k, "unlock") /\ ~Goto(k, "retry")
      /\ ~Goto(k, "desire") /\ ~Goto(k, "relist")
  <2>1. ~Forget(k) /\ ~Fail(k)
    BY <1>2, ForgetMoves, FailMoves
  <2> QED
    BY <1>1, <2>1 DEF Goto, ClaimState
<1>4. CASE \E p \in Pair : ClaimRow(k, p)
  BY <1>1, <1>4 DEF ClaimRow, NoClaim
<1>5. CASE AcquirePairLock(k) \/ CheckClaim(k) \/ ReleaseClaim(k) \/ PatchWatch(k)
  BY <1>3, <1>5 DEF AcquirePairLock, CheckClaim, ReleaseClaim, PatchWatch
<1>13. CASE UnlockPair(k) \/ RetryClaim(k)
  BY <1>3, <1>13 DEF UnlockPair, RetryClaim
<1>6. CASE ReadDesired(k)
  BY <1>1, <1>6 DEF ReadDesired, ClaimState
<1>7. CASE ListWatched(k) \/ RelistWatched(k)
  BY <1>1, <1>7 DEF ListWatched, RelistWatched, ClaimState
<1>8. CASE RecheckDesired(k)
  BY <1>8, GotoMoves DEF RecheckDesired
<1>9. CASE CompleteClaim(k)
  BY <1>3, <1>9 DEF CompleteClaim
<1>10. CASE ProviderFails(k)
  BY <1>3, <1>10 DEF ProviderFails
<1>11. CASE StatementFails(k) \/ CompleteAckLost(k) \/ RetryFails(k) \/ Crash(k)
  BY <1>3, <1>11 DEF StatementFails, CompleteAckLost, RetryFails, Crash
<1>12. CASE AcquireFails(k) \/ UnlockFails(k)
  BY <1>1, <1>12 DEF AcquireFails, UnlockFails, ClaimState
<1> QED
  BY <1>4, <1>5, <1>6, <1>7, <1>8, <1>9, <1>10, <1>11, <1>12, <1>13
     DEF WorkerStep, ReconcileStep, WorkerFault

-----------------------------------------------------------------------------
(* Preservation of the invariant, conjunct by conjunct.                    *)

\* A transaction's plan stays valid: only the account's own commits, of which there
\* is one at a time, change its wallets.
LEMMA TxnsCoverChangesNext ==
  ASSUME TypeOK, TxnsCoverChanges, Next
  PROVE  TxnsCoverChanges'
<1> USE ConstantsAssumption
<1>1. ASSUME txn' = txn, wallet' = wallet PROVE TxnsCoverChanges'
  BY <1>1 DEF TxnsCoverChanges, WalletPairs
<1>2. ASSUME NEW u \in User, NEW targets, NEW next, NEW locks, NEW marks,
             OpenTxn(u, targets, next, locks, marks),
             \A w \in targets : Owner[w] = u,
             \A w \in targets, p \in Pair :
               (p \in WalletPairs(wallet[w])) # (p \in WalletPairs(next)) => p \in marks,
             marks \subseteq locks
      PROVE  TxnsCoverChanges'
  <2>1. wallet' = wallet
    BY <1>2 DEF OpenTxn
  <2>2. \A v \in User : txn'[v] =
          IF v = u THEN [open |-> TRUE, targets |-> targets, next |-> next,
                         locks |-> locks, marks |-> marks]
          ELSE txn[v]
    BY <1>2 DEF OpenTxn, TypeOK
  <2> QED
    BY <1>2, <2>1, <2>2 DEF TxnsCoverChanges, WalletPairs
<1>3. \A p \in Pair : p \notin WalletPairs(NoWallet)
  BY DEF WalletPairs, NoWallet
<1>4. ASSUME NEW u \in User, BeginCreateWallet(u) PROVE TxnsCoverChanges'
  BY <1>2, <1>3, <1>4 DEF BeginCreateWallet
<1>5. ASSUME NEW u \in User, BeginUpdateWallet(u) PROVE TxnsCoverChanges'
  <2>1. PICK w \in Wallet, row \in WalletRow :
          /\ Owner[w] = u
          /\ OpenTxn(u, {w}, row, UpdateLocks(WalletPairs(wallet[w]), WalletPairs(row)),
                                  UpdateMarks(WalletPairs(wallet[w]), WalletPairs(row)))
    BY <1>5 DEF BeginUpdateWallet
  <2> DEFINE prev == WalletPairs(wallet[w])
             next == WalletPairs(row)
  <2>2. UpdateMarks(prev, next) \subseteq UpdateLocks(prev, next)
    BY DEF UpdateMarks, UpdateLocks
  <2>3. \A p \in Pair : (p \in prev) # (p \in next) => p \in UpdateMarks(prev, next)
    BY DEF UpdateMarks
  <2> QED
    BY <1>2, <2>1, <2>2, <2>3
<1>6. ASSUME NEW u \in User, BeginDeleteWallet(u) PROVE TxnsCoverChanges'
  BY <1>2, <1>3, <1>6 DEF BeginDeleteWallet
<1>7. ASSUME NEW u \in User, BeginDeleteAccount(u) PROVE TxnsCoverChanges'
  BY <1>2, <1>3, <1>7 DEF BeginDeleteAccount
<1>8. ASSUME NEW u \in User, CommitTxn(u) PROVE TxnsCoverChanges'
  <2>1. txn' = [txn EXCEPT ![u] = NoTxn] /\ txn[u].open
    BY <1>8 DEF CommitTxn
  <2>2. \A w \in Wallet : Owner[w] # u => wallet'[w] = wallet[w]
    BY <1>8, <2>1 DEF CommitTxn, TxnsCoverChanges
  <2>3. ASSUME NEW v \in User, txn'[v].open
        PROVE  /\ txn'[v] = txn[v]
               /\ \A w \in txn[v].targets : Owner[w] = v /\ wallet'[w] = wallet[w]
    BY <2>1, <2>2, <2>3 DEF TxnsCoverChanges, TypeOK, TxnState, NoTxn
  <2> QED
    BY <2>3 DEF TxnsCoverChanges, WalletPairs
<1>9. ASSUME NEW u \in User, AbortTxn(u) PROVE TxnsCoverChanges'
  <2>1. ASSUME NEW v \in User, txn'[v].open PROVE txn'[v] = txn[v]
    BY <1>9, <2>1 DEF AbortTxn, NoTxn, TypeOK
  <2> QED
    BY <1>9, <2>1 DEF AbortTxn, TxnsCoverChanges, WalletPairs
<1>10. ASSUME NEW u \in User, LockNextPair(u) PROVE TxnsCoverChanges'
  BY <1>1, <1>10 DEF LockNextPair
<1>11. ASSUME NEW k \in Worker, WorkerStep(k) PROVE txn' = txn
  BY <1>11 DEF WorkerStep, ClaimRow, AcquirePairLock, ReconcileStep, CheckClaim,
     ReadDesired, ListWatched, PatchWatch, RelistWatched, RecheckDesired, CompleteClaim,
     ReleaseClaim, UnlockPair, RetryClaim, WorkerFault, ProviderFails, StatementFails,
     CompleteAckLost, AcquireFails, UnlockFails, RetryFails, Crash
<1>12. SweepStep => txn' = txn
  BY DEF SweepStep, StartSweep, SweepReadDatabase, SweepListWatched, SweepEnqueue,
         SweepChainFails
<1>13. (\E p \in Pair : TimeStep(p)) => txn' = txn
  BY DEF TimeStep, LeaseExpires, BackoffElapses, WatchDrifts
<1> QED
  BY <1>1, <1>4, <1>5, <1>6, <1>7, <1>8, <1>9, <1>10, <1>11, <1>12, <1>13, WalletsStay
     DEF Next, WalletStep

\* A claim appears on an existing row, and goes when the row goes.
LEMMA ClaimsOnRowsNext ==
  ASSUME TypeOK, ClaimsHavePairs, ClaimsOnRows, Next
  PROVE  ClaimsOnRows'
<1> SUFFICES ASSUME NEW p \in Pair, marker'[p].token # Nobody PROVE marker'[p].generation > 0
  BY DEF ClaimsOnRows, Present
<1>1. marker \in [Pair -> MarkerRow] /\ marker' \in [Pair -> MarkerRow]
  BY TypeOKWallet, TypeOKWorker, TypeOKSweep, TypeOKTime DEF TypeOK, Next
<1>2. PICK j \in Worker : marker'[p].token = j
  BY <1>1 DEF MarkerRow
<1>3. CASE marker[p].token = j /\ marker'[p].generation = marker[p].generation
  BY <1>3, ConstantsAssumption DEF ClaimsOnRows, Present
<1>4. CASE ClaimRow(j, p)
  BY <1>1, <1>4 DEF ClaimRow, Claimable, Present, MarkerRow
<1> QED
  BY <1>2, <1>3, <1>4, ClaimsComeFromClaiming

\* Marking keeps and adds rows, and forgets disturbances of marked pairs only.
LEMMA MarkAllPresent ==
  ASSUME TypeOK, NEW pairs, MarkAll(pairs), NEW p \in Pair
  PROVE  /\ Present(p)' <=> Present(p) \/ p \in pairs
         /\ p \in disturbed' <=> p \in disturbed /\ p \notin pairs
  BY DEF MarkAll, Marked, Present, TypeOK, MarkerRow

\* What the steps of accounts, of the sweep and of time do to markers and watch.
LEMMA OutsideEffect ==
  ASSUME TypeOK, Next, ~\E k \in Worker : WorkerStep(k)
  PROVE  \/ \E u \in User : CommitTxn(u)
         \/ SweepEnqueue
         \/ QuietStep
         \/ \E p \in Pair : WatchDrifts(p)
<1>1. marker' = marker /\ watched' = watched /\ disturbed' = disturbed => QuietStep
  BY DEF QuietStep, Present
<1>2. ASSUME NEW u \in User, WalletStep(u), ~CommitTxn(u) PROVE QuietStep
  BY <1>1, <1>2 DEF WalletStep, BeginCreateWallet, BeginUpdateWallet, BeginDeleteWallet,
     BeginDeleteAccount, OpenTxn, LockNextPair, AbortTxn
<1>3. ASSUME SweepStep, ~SweepEnqueue PROVE QuietStep
  BY <1>1, <1>3 DEF SweepStep, StartSweep, SweepReadDatabase, SweepListWatched,
     SweepChainFails
<1>4. ASSUME NEW p \in Pair, LeaseExpires(p) \/ BackoffElapses(p) PROVE QuietStep
  <2>1. marker \in [Pair -> MarkerRow]
    BY DEF TypeOK
  <2>2. \A q \in Pair : marker'[q].generation = marker[q].generation
    BY <1>4, <2>1 DEF LeaseExpires, BackoffElapses, MarkerRow
  <2> QED
    BY <1>4, <2>2 DEF LeaseExpires, BackoffElapses, QuietStep, Present
<1> QED
  BY <1>2, <1>3, <1>4 DEF Next, TimeStep

\* Only a worker that completes deletes a marker.
LEMMA MarkersStay ==
  ASSUME TypeOK, ClaimsHavePairs, Next, NEW p \in Pair, Present(p), ~Present(p)'
  PROVE  \E k \in Worker : WorkerStep(k) /\ SettleStep(k) /\ p = worker[k].pair
<1>1. ASSUME NEW k \in Worker, WorkerStep(k) PROVE SettleStep(k) /\ p = worker[k].pair
  BY <1>1, WorkerEffect
     DEF QuietStep, PatchStep, LookStep, SettleStep, Present, TypeOK
<1>2. CASE ~\E k \in Worker : WorkerStep(k)
  <2>1. ASSUME NEW u \in User, CommitTxn(u) PROVE FALSE
    BY <2>1, MarkAllPresent DEF CommitTxn
  <2>2. ~SweepEnqueue
    BY MarkAllPresent DEF SweepEnqueue
  <2>3. ~QuietStep
    BY DEF QuietStep
  <2>4. ASSUME NEW q \in Pair, WatchDrifts(q) PROVE FALSE
    BY <2>4 DEF WatchDrifts, Present
  <2> QED
    BY <1>2, <2>1, <2>2, <2>3, <2>4, OutsideEffect
<1> QED
  BY <1>1, <1>2

\* The marker a checked worker relies on survives every step.
LEMMA MarkersOutliveChecksNext ==
  ASSUME TypeOK, ClaimsHavePairs, LocksHeld, ClaimsOnRows, MarkersOutliveChecks, Next
  PROVE  MarkersOutliveChecks'
<1> SUFFICES ASSUME NEW k \in Worker, worker'[k].pc \in Checked
             PROVE  marker'[worker'[k].pair].generation > 0
  BY DEF MarkersOutliveChecks, Present, Checked
<1>1. worker'[k].pair = worker[k].pair /\ worker[k].pc \in Locked /\ Present(worker[k].pair)
  <2>1. CASE WorkerStep(k)
    <3>1. CASE worker[k].pc \in Checked
      BY <2>1, <3>1, CheckedFlow DEF MarkersOutliveChecks, Checked
    <3>2. CASE ClaimCurrent(k)
      <4>1. worker'[k].pair = worker[k].pair /\ worker[k].pc \in Locked
        BY <2>1, CheckedFlow
      <4>2. worker[k].pair \in Pair
        BY <4>1 DEF ClaimsHavePairs, Locked, Reconciling
      <4>3. marker[worker[k].pair].token # Nobody
        BY <3>2, ConstantsAssumption DEF ClaimCurrent, ClaimOwned
      <4> QED
        BY <4>1, <4>2, <4>3 DEF ClaimsOnRows
    <3> QED
      BY <2>1, <3>1, <3>2, CheckedFlow
  <2>2. CASE ~WorkerStep(k)
    <3>1. worker'[k] = worker[k]
      BY <2>2, WorkersStay, OthersStay DEF Next
    <3> QED
      BY <3>1 DEF MarkersOutliveChecks, Checked, Locked, Reconciling
  <2> QED
    BY <2>1, <2>2
<1>2. worker[k].pair \in Pair
  BY <1>1 DEF ClaimsHavePairs, Locked, Reconciling
<1>3. ASSUME NEW j \in Worker, WorkerStep(j), SettleStep(j), worker[j].pair = worker[k].pair
      PROVE  FALSE
  <2>1. j = k
    BY <1>1, <1>3, LockExcludes DEF SettleStep, Locked, Reconciling
  <2>2. marker' = marker
    BY <1>3, <2>1, CheckedFlow
  <2> QED
    BY <1>1, <1>2, <1>3, <2>1, <2>2 DEF SettleStep, TypeOK, Present, NoMarker, MarkerRow
<1> QED
  BY <1>1, <1>2, <1>3, MarkersStay DEF Present

\* What a checked worker read of the database survives every step.
LEMMA DesiredStableNext ==
  ASSUME TypeOK, ClaimsHavePairs, LocksHeld, TxnsCoverChanges, DesiredStableUnderLock, Next
  PROVE  DesiredStableUnderLock'
<1> SUFFICES ASSUME NEW k \in Worker, worker'[k].pc \in Decided
             PROVE  (worker[k].desired = Desired(worker[k].pair))'
  BY DEF DesiredStableUnderLock, Decided
<1> PICK p : p = worker'[k].pair
  OBVIOUS
<1> SUFFICES worker'[k].desired = Desired(p)'
  BY DEF Desired, WalletPairs
<1>1. CASE WorkerStep(k)
  <2>1. p = worker[k].pair
    BY <1>1, CheckedFlow DEF Checked, Decided
  <2>2. worker'[k].desired = Desired(p)
    BY <1>1, <2>1, DecidedFlow DEF DesiredStableUnderLock, Decided
  <2> QED
    BY <1>1, <2>2, WalletsStay DEF Desired, WalletPairs
<1>2. CASE ~WorkerStep(k)
  <2>1. worker'[k] = worker[k]
    BY <1>2, WorkersStay, OthersStay DEF Next
  <2>2. worker[k].pc \in Locked /\ p \in Pair
    BY <2>1 DEF ClaimsHavePairs, Locked, Reconciling, Decided
  <2>3. Desired(p)' = Desired(p)
    <3>1. ASSUME NEW u \in User, CommitTxn(u) PROVE Desired(p)' = Desired(p)
      BY <2>1, <2>2, <3>1, CommitAvoidsWorkers, CommitChangesMarked
    <3>2. CASE wallet' = wallet
      BY <3>2 DEF Desired, WalletPairs
    <3> QED
      BY <3>1, <3>2, WalletsStay DEF Next
  <2> QED
    BY <2>1, <2>3 DEF DesiredStableUnderLock, Decided
<1> QED
  BY <1>1, <1>2

\* What a worker saw stays so: no other worker touches the pair it holds, a mark
\* voids its claim, and a change from outside is a disturbance.
LEMMA ObservationsHoldNext ==
  ASSUME TypeOK, ClaimsHavePairs, LocksHeld, ObservationsHold, Next
  PROVE  ObservationsHold'
<1> SUFFICES ASSUME NEW k \in Worker, NEW p, worker'[k].pc \in Observed, p = worker'[k].pair
             PROVE  /\ worker'[k].observed = worker'[k].desired
                    /\ \/ (p \in watched') = worker'[k].observed
                       \/ p \in disturbed'
                       \/ ~(marker'[p].generation = worker'[k].generation /\ marker'[p].token = k)
  BY DEF ObservationsHold, Observed, Watching, ClaimOwned
<1>1. CASE WorkerStep(k)
  <2>1. p = worker[k].pair /\ worker'[k].generation = worker[k].generation /\ marker' = marker
    BY <1>1, CheckedFlow DEF Checked, Observed
  <2> QED
    BY <1>1, <2>1, ObservedFlow DEF ObservationsHold, Observed, Watching, ClaimOwned
<1>2. CASE ~WorkerStep(k)
  <2>1. worker'[k] = worker[k]
    BY <1>2, WorkersStay, OthersStay DEF Next
  <2>2. worker[k].pc \in Locked /\ worker[k].pc # "idle" /\ p = worker[k].pair /\ p \in Pair
    BY <2>1 DEF ClaimsHavePairs, Locked, Reconciling, Observed
  <2>3. CASE (p \in watched') = (p \in watched) /\ (p \in disturbed => p \in disturbed')
    <3>1. ~ClaimRow(k, p)
      BY <2>2 DEF ClaimRow
    <3>2. marker'[p].generation = worker[k].generation /\ marker'[p].token = k => ClaimOwned(k)
      BY <2>2, <3>1, ClaimsComeFromClaiming DEF ClaimOwned
    <3> QED
      BY <2>1, <2>2, <2>3, <3>2 DEF ObservationsHold, Observed, Watching
  <2>4. ASSUME NEW j \in Worker, WorkerStep(j)
        PROVE  (p \in watched') = (p \in watched) /\ (p \in disturbed => p \in disturbed')
    <3>1. worker[j].pc \in Locked => worker[j].pair # p
      BY <1>2, <2>2, <2>4, LockExcludes
    <3> QED
      BY <2>4, <3>1, WorkerEffect
         DEF QuietStep, PatchStep, LookStep, SettleStep, Patched, Locked, Reconciling
  <2>5. ASSUME NEW pairs, MarkAll(pairs), watched' = watched, ~(p \in disturbed => p \in disturbed')
        PROVE  marker'[p].token # k
    <3>1. p \in pairs
      BY <2>5 DEF MarkAll
    <3>2. marker'[p].token = Nobody
      BY <2>2, <2>5, <3>1 DEF MarkAll, Marked
    <3> QED
      BY <3>2, ConstantsAssumption
  <2>6. CASE marker'[p].token # k
    BY <2>1, <2>2, <2>6 DEF ObservationsHold, Observed
  <2>7. ASSUME NEW q \in Pair, WatchDrifts(q)
        PROVE  \/ p \in disturbed'
               \/ (p \in watched') = (p \in watched) /\ (p \in disturbed => p \in disturbed')
    BY <2>2, <2>7 DEF WatchDrifts
  <2>8. CASE p \in disturbed'
    BY <2>1, <2>2, <2>8 DEF ObservationsHold, Observed
  <2>9. ASSUME NEW u \in User, CommitTxn(u)
        PROVE  watched' = watched /\ \E pairs : MarkAll(pairs)
    BY <2>9 DEF CommitTxn
  <2>10. SweepEnqueue => watched' = watched /\ \E pairs : MarkAll(pairs)
    BY DEF SweepEnqueue
  <2>11. QuietStep => (p \in watched') = (p \in watched) /\ (p \in disturbed => p \in disturbed')
    BY DEF QuietStep
  <2> QED
    BY <2>3, <2>4, <2>5, <2>6, <2>7, <2>8, <2>9, <2>10, <2>11, OutsideEffect
<1> QED
  BY <1>1, <1>2

\* No step lets a pair diverge unmarked: commits and sweeps mark what they change,
\* a worker patches and looks at marked pairs, and completes only what agrees.
LEMMA DivergenceIsMarkedNext ==
  ASSUME TypeOK, ClaimsHavePairs, TxnsCoverChanges, MarkersOutliveChecks,
         DesiredStableUnderLock, ObservationsHold, DivergenceIsMarked, Next
  PROVE  DivergenceIsMarked'
<1> SUFFICES ASSUME NEW p \in Pair, (p \in watched') # Desired(p)',
                    ~Present(p)', p \notin disturbed'
             PROVE  FALSE
  BY DEF DivergenceIsMarked
<1>1. ASSUME NEW k \in Worker, WorkerStep(k) PROVE FALSE
  <2>same. Desired(p)' = Desired(p)
    BY <1>1, WalletsStay, DesiredStays
  <2>quiet. CASE QuietStep
    BY <2>same, <2>quiet DEF QuietStep, DivergenceIsMarked
  <2>patch. CASE PatchStep(k)
    <3>1. Present(worker[k].pair)
      BY <2>patch DEF PatchStep, MarkersOutliveChecks
    <3> QED
      BY <2>same, <2>patch, <3>1 DEF PatchStep, Patched, Present, DivergenceIsMarked
  <2>look. CASE LookStep(k)
    <3>1. Present(worker[k].pair)
      BY <2>look DEF LookStep, MarkersOutliveChecks
    <3> QED
      BY <2>same, <2>look, <3>1 DEF LookStep, Present, DivergenceIsMarked
  <2>settle. CASE SettleStep(k)
    <3>1. CASE p = worker[k].pair
      <4>1. Watching(k) = worker[k].observed \/ p \in disturbed
        BY <2>settle, <3>1 DEF SettleStep, ObservationsHold, Completable, ClaimCurrent
      <4>2. worker[k].observed = Desired(p)
        BY <2>settle, <3>1 DEF SettleStep, Completable
      <4> QED
        BY <2>same, <2>settle, <3>1, <4>1, <4>2 DEF SettleStep, Watching
    <3>2. CASE p # worker[k].pair
      BY <2>same, <2>settle, <3>2 DEF SettleStep, Present, DivergenceIsMarked, TypeOK
    <3> QED
      BY <3>1, <3>2
  <2> QED
    BY <1>1, <2>quiet, <2>patch, <2>look, <2>settle, WorkerEffect
<1>2. ASSUME NEW u \in User, CommitTxn(u) PROVE FALSE
  <2>1. MarkAll(txn[u].marks) /\ watched' = watched
    BY <1>2 DEF CommitTxn
  <2> QED
    BY <1>2, <2>1, MarkAllPresent, CommitChangesMarked DEF DivergenceIsMarked
<1>3. CASE SweepEnqueue
  <2>1. wallet' = wallet /\ watched' = watched
    BY <1>3 DEF SweepEnqueue
  <2> QED
    BY <1>3, <2>1, DesiredStays, MarkAllPresent DEF SweepEnqueue, DivergenceIsMarked
<1>4. CASE QuietStep /\ ~\E u \in User : CommitTxn(u)
  <2>1. Desired(p)' = Desired(p)
    BY <1>4, WalletsStay, DesiredStays DEF Next
  <2> QED
    BY <1>4, <2>1 DEF QuietStep, DivergenceIsMarked
<1>5. ASSUME NEW q \in Pair, WatchDrifts(q) PROVE FALSE
  <2>1. Desired(p)' = Desired(p)
    BY <1>5, DesiredStays DEF WatchDrifts
  <2> QED
    BY <1>5, <2>1 DEF WatchDrifts, Present, DivergenceIsMarked
<1> QED
  BY <1>1, <1>2, <1>3, <1>4, <1>5, OutsideEffect

-----------------------------------------------------------------------------
(* The theorems.                                                           *)

\* The inductive invariant holds initially.
LEMMA IInvInit == Init => IInv
<1> SUFFICES ASSUME Init PROVE IInv
  OBVIOUS
<1> USE ConstantsAssumption DEF Init, NoClaim, NoTxn, NoMarker
<1>1. TypeOK
  BY TypeOKInit
<1>2. LocksHeld /\ ClaimsHavePairs /\ TxnsCoverChanges
  BY DEF LocksHeld, ClaimsHavePairs, TxnsCoverChanges, Locked, Reconciling
<1>3. ClaimsOnRows
  BY DEF ClaimsOnRows
<1>4. MarkersOutliveChecks /\ DesiredStableUnderLock /\ ObservationsHold
  BY DEF MarkersOutliveChecks, DesiredStableUnderLock, ObservationsHold
<1>5. DivergenceIsMarked
  <2>1. \A p \in Pair : Desired(p) = FALSE
    BY DEF Desired, WalletPairs, NoWallet
  <2> SUFFICES ASSUME NEW p \in Pair PROVE (p \in watched) = Desired(p)
    BY DEF DivergenceIsMarked
  <2>2. (p \in watched) = FALSE
    OBVIOUS
  <2> QED
    BY <2>1, <2>2
<1> QED
  BY <1>1, <1>2, <1>3, <1>4, <1>5 DEF IInv

\* Every step keeps the inductive invariant.
LEMMA IInvNext == IInv /\ [Next]_vars => IInv'
<1> SUFFICES ASSUME IInv, [Next]_vars PROVE IInv'
  OBVIOUS
<1> USE DEF IInv
<1>1. CASE UNCHANGED vars
  <2> USE <1>1 DEF vars, Present
  <2>claims. TypeOK' /\ LocksHeld' /\ ClaimsHavePairs' /\ ClaimsOnRows'
    BY DEF TypeOK, LocksHeld, ClaimsHavePairs, ClaimsOnRows
  <2>marks. TxnsCoverChanges' /\ MarkersOutliveChecks'
    BY DEF TxnsCoverChanges, WalletPairs, MarkersOutliveChecks
  <2>desired. DesiredStableUnderLock'
    BY DEF DesiredStableUnderLock, Desired, WalletPairs
  <2>observed. ObservationsHold'
    BY DEF ObservationsHold, Watching, ClaimOwned
  <2>diverging. DivergenceIsMarked'
    <3>1. \A p \in Pair : Desired(p)' = Desired(p)
      BY DesiredStays
    <3> QED
      BY <3>1 DEF DivergenceIsMarked
  <2> QED
    BY <2>claims, <2>marks, <2>desired, <2>observed, <2>diverging
<1>2. CASE Next
  <2>1. TypeOK'
    BY <1>2, TypeOKWallet, TypeOKWorker, TypeOKSweep, TypeOKTime DEF Next
  <2>2. LocksHeld'
    <3>1. SweepStep \/ (\E p \in Pair : TimeStep(p)) => UNCHANGED <<txn, pairLock, worker>>
      BY DEF SweepStep, StartSweep, SweepReadDatabase, SweepListWatched, SweepEnqueue,
             SweepChainFails, TimeStep, LeaseExpires, BackoffElapses, WatchDrifts
    <3> QED
      BY <1>2, <3>1, LocksHeldWallet, LocksHeldWorker DEF Next, LocksHeld
  <2> QED
    BY <1>2, <2>1, <2>2, ClaimsHavePairsNext, TxnsCoverChangesNext, ClaimsOnRowsNext,
       MarkersOutliveChecksNext, DesiredStableNext, ObservationsHoldNext,
       DivergenceIsMarkedNext
<1> QED
  BY <1>1, <1>2

\* The inductive invariant holds in every reachable state.
THEOREM InductiveInvariant == Spec => []IInv
  BY IInvInit, IInvNext, PTL DEF Spec

\* Whatever the accounts do, however many workers run, and whatever crashes, times
\* out or fails, a pair that Alchemy watches wrongly has a marker row, unless its
\* watch was changed from outside unseen.
THEOREM DivergenceAlwaysMarked == Spec => []DivergenceIsMarked
<1>1. IInv => DivergenceIsMarked
  BY DEF IInv
<1> QED
  BY <1>1, InductiveInvariant, PTL

\* No wallet transaction ever commits under a worker that has read what the pair
\* wants and still holds the pair's lock.
THEOREM DesiredStable == Spec => []DesiredStableUnderLock
<1>1. IInv => DesiredStableUnderLock
  BY DEF IInv
<1> QED
  BY <1>1, InductiveInvariant, PTL

-----------------------------------------------------------------------------
(* Refinement of AddressWatch.                                             *)

\* The initial states are initial states of AddressWatch.
LEMMA WatchInitRefined == Init => Watch!WatchInit
<1> SUFFICES ASSUME Init PROVE Watch!WatchInit
  OBVIOUS
<1>1. \A p \in Pair : ~Desired(p)
  BY DEF Init, Desired, WalletPairs, NoWallet
<1>2. \A p \in Pair : ~Present(p)
  BY DEF Init, Present, NoMarker
<1> QED
  BY <1>1, <1>2 DEF Init, Watch!WatchInit

\* Every step is a step of AddressWatch or changes nothing it can see.
LEMMA WatchNextRefined == IInv /\ [Next]_vars => [Watch!WatchNext]_(Watch!watchVars)
<1> SUFFICES ASSUME IInv, [Next]_vars PROVE [Watch!WatchNext]_(Watch!watchVars)
  OBVIOUS
<1> DEFINE wanted == {p \in Pair : Desired(p)}
           dirty  == {p \in Pair : Present(p)}
<1> USE DEF IInv
<1>1. ASSUME wallet' = wallet, QuietStep PROVE UNCHANGED Watch!watchVars
  BY <1>1, DesiredStays DEF QuietStep, Watch!watchVars
<1>2. ASSUME wallet' = wallet PROVE wanted' = wanted
  BY <1>2, DesiredStays
<1>3. ASSUME marker' = marker PROVE dirty' = dirty
  BY <1>3 DEF Present
<1>4. ASSUME NEW k \in Worker, WorkerStep(k) PROVE [Watch!WatchNext]_(Watch!watchVars)
  <2> DEFINE q == worker[k].pair
  <2>1. wallet' = wallet
    BY <1>4, WalletsStay
  <2>2. CASE PatchStep(k)
    <3>1. q \in Pair /\ Present(q) /\ worker[k].desired = Desired(q)
      BY <2>2 DEF PatchStep, ClaimsHavePairs, MarkersOutliveChecks, DesiredStableUnderLock
    <3>2. Watch!Apply(q)
      BY <1>2, <1>3, <2>1, <2>2, <3>1 DEF PatchStep, Patched, Watch!Apply
    <3> QED
      BY <3>1, <3>2 DEF Watch!WatchNext
  <2>3. CASE LookStep(k)
    <3>1. q \in Pair /\ Present(q)
      BY <2>3 DEF LookStep, ClaimsHavePairs, MarkersOutliveChecks
    <3>2. Watch!Inspect(q)
      BY <1>2, <1>3, <2>1, <2>3, <3>1 DEF LookStep, Watch!Inspect
    <3> QED
      BY <3>1, <3>2 DEF Watch!WatchNext
  <2>4. CASE SettleStep(k)
    <3>1. q \in Pair /\ Present(q)
      BY <2>4 DEF SettleStep, ClaimsHavePairs, MarkersOutliveChecks
    <3>2. Watching(k) = Desired(q) \/ q \in disturbed
      BY <2>4 DEF SettleStep, Completable, ClaimCurrent, ObservationsHold
    <3>3. \A p \in Pair : Present(p)' <=> Present(p) /\ p # q
      BY <2>4, <3>1 DEF SettleStep, Present, NoMarker, TypeOK
    <3>5. (q \in watched) = (q \in wanted) \/ q \in disturbed
      <4>1. q \in wanted <=> Desired(q)
        BY <3>1
      <4>2. Desired(q) \in BOOLEAN
        BY DEF Desired
      <4>3. (q \in watched) = Desired(q) \/ q \in disturbed
        BY <3>2 DEF Watching
      <4> QED
        BY <4>1, <4>2, <4>3
    <3>6. dirty' = dirty \ {q}
      BY <3>3
    <3>4. Watch!Settle(q)
      BY <1>2, <2>1, <2>4, <3>1, <3>5, <3>6 DEF SettleStep, Watch!Settle
    <3> QED
      BY <3>1, <3>4 DEF Watch!WatchNext
  <2> QED
    BY <1>1, <1>4, <2>1, <2>2, <2>3, <2>4, WorkerEffect
<1>5. ASSUME NEW pairs \in SUBSET Pair, MarkAll(pairs), watched' = watched,
             \A p \in Pair \ pairs : Desired(p)' = Desired(p)
      PROVE  Watch!WatchNext
  <2>1. dirty' = dirty \union pairs
    BY <1>5, MarkAllPresent
  <2>2. disturbed' = disturbed \ pairs
    BY <1>5 DEF MarkAll
  <2>3. PICK next \in SUBSET Pair : next = wanted'
    OBVIOUS
  <2>4. \A p \in Pair \ pairs : (p \in next) = (p \in wanted)
    BY <1>5, <2>3
  <2>5. Watch!Change(pairs, next)
    BY <1>5, <2>1, <2>2, <2>3, <2>4 DEF Watch!Change
  <2> QED
    BY <2>5 DEF Watch!WatchNext
<1>6. ASSUME NEW u \in User, CommitTxn(u) PROVE Watch!WatchNext
  <2>1. MarkAll(txn[u].marks) /\ watched' = watched /\ txn[u].marks \in SUBSET Pair
    BY <1>6 DEF CommitTxn, TypeOK, TxnState
  <2> QED
    BY <1>5, <1>6, <2>1, CommitChangesMarked
<1>7. CASE SweepEnqueue
  <2>1. MarkAll(sweep.drift) /\ watched' = watched /\ wallet' = wallet
        /\ sweep.drift \in SUBSET Pair
    BY <1>7 DEF SweepEnqueue, TypeOK, SweepState
  <2> QED
    BY <1>5, <2>1, DesiredStays
<1>8. ASSUME NEW p \in Pair, WatchDrifts(p) PROVE Watch!WatchNext
  <2>1. Watch!Drift(p)
    BY <1>2, <1>3, <1>8 DEF WatchDrifts, Watch!Drift
  <2> QED
    BY <2>1 DEF Watch!WatchNext
<1>9. CASE UNCHANGED vars
  BY <1>1, <1>9 DEF vars, QuietStep, Present
<1>10. CASE Next /\ QuietStep /\ ~\E u \in User : CommitTxn(u)
  BY <1>1, <1>10, WalletsStay DEF Next
<1> QED
  BY <1>4, <1>6, <1>7, <1>8, <1>9, <1>10, OutsideEffect

\* The transactions, workers and sweeps implement the abstract reconciliation.
THEOREM ImplementsAddressWatch == Spec => RefinesAddressWatch
  BY WatchInitRefined, WatchNextRefined, InductiveInvariant, PTL
     DEF Spec, RefinesAddressWatch, Watch!WatchSpec

-----------------------------------------------------------------------------
(* What no step may do to a marker.                                        *)

\* How a marker row may change: by a mark, by claiming it, by its holder giving it
\* back, postponing it or deleting it, or by time.
LEMMA MarkerEffect ==
  ASSUME TypeOK, ClaimsHavePairs, Next, NEW p \in Pair, marker'[p] # marker[p]
  PROVE  \/ marker'[p] = Marked(marker[p])
         \/ \E k \in Worker : ClaimRow(k, p)
         \/ \E k \in Worker :
              /\ worker[k].pair = p /\ ClaimOwned(k) /\ worker'[k] # worker[k]
              /\ marker'[p].due = TRUE \/ worker[k].pc = "retry" \/ marker'[p] = NoMarker
         \/ /\ marker'[p].token = marker[p].token
            /\ marker[p].due => marker'[p].due
<1>1. marker \in [Pair -> MarkerRow] /\ marker[p] \in MarkerRow
  BY DEF TypeOK
<1>8. worker \in [Worker -> ClaimState]
  BY DEF TypeOK
<1>2. ASSUME NEW pairs, MarkAll(pairs) PROVE marker'[p] = Marked(marker[p])
  BY <1>2 DEF MarkAll
<1>3. ASSUME NEW k \in Worker, WorkerStep(k), ~\E q \in Pair : ClaimRow(k, q)
      PROVE  /\ worker[k].pair = p /\ ClaimOwned(k) /\ worker'[k] # worker[k]
             /\ marker'[p].due = TRUE \/ worker[k].pc = "retry" \/ marker'[p] = NoMarker
  <2>1. CASE ReleaseClaim(k)
    <3>1. worker'[k].pc # worker[k].pc
      BY <1>8, <2>1 DEF ReleaseClaim, Goto, ClaimState
    <3> QED
      BY <1>1, <2>1, <3>1 DEF ReleaseClaim, Unclaimed
  <2>2. CASE RetryClaim(k)
    <3>1. worker'[k].pc # worker[k].pc
      BY <2>2, ForgetMoves DEF RetryClaim, NoClaim
    <3> QED
      BY <1>1, <2>2, <3>1 DEF RetryClaim, Retryable
  <2>3. CASE CompleteClaim(k) \/ CompleteAckLost(k)
    <3>1. worker'[k].pc # worker[k].pc
      BY <1>8, <2>3 DEF CompleteClaim, CompleteAckLost, Goto, Fail, ClaimState
    <3> QED
      BY <1>1, <2>3, <3>1 DEF CompleteClaim, CompleteAckLost, Completable, ClaimCurrent
  <2>4. CASE marker' = marker
    BY <2>4
  <2> QED
    BY <1>3, <2>1, <2>2, <2>3, <2>4
       DEF WorkerStep, ReconcileStep, WorkerFault, AcquirePairLock, CheckClaim, ReadDesired,
           ListWatched, PatchWatch, RelistWatched, RecheckDesired, UnlockPair,
           ProviderFails, StatementFails, AcquireFails, UnlockFails, RetryFails, Crash
<1>4. ASSUME NEW k \in Worker, NEW q \in Pair, ClaimRow(k, q) PROVE p = q
  BY <1>1, <1>4 DEF ClaimRow
<1>5. ASSUME NEW u \in User, WalletStep(u) PROVE marker'[p] = Marked(marker[p])
  BY <1>2, <1>5 DEF WalletStep, BeginCreateWallet, BeginUpdateWallet, BeginDeleteWallet,
     BeginDeleteAccount, OpenTxn, LockNextPair, CommitTxn, AbortTxn
<1>6. SweepStep => marker'[p] = Marked(marker[p])
  BY <1>2 DEF SweepStep, StartSweep, SweepReadDatabase, SweepListWatched, SweepEnqueue,
     SweepChainFails
<1>7. ASSUME NEW q \in Pair, TimeStep(q)
      PROVE  marker'[p].token = marker[p].token /\ (marker[p].due => marker'[p].due)
  BY <1>1, <1>7 DEF TimeStep, LeaseExpires, BackoffElapses, WatchDrifts, MarkerRow
<1> QED
  BY <1>3, <1>4, <1>5, <1>6, <1>7 DEF Next

\* A live claim is ended only by its holder or by a newer mark.
THEOREM ClaimsEndProperly == Spec => ClaimEndedByHolderOrMark
<1>1. IInv /\ [Next]_vars =>
        \A p \in Pair, k \in Worker :
          marker[p].token = k /\ marker[p].lease = "live" /\ marker'[p].token # k =>
            \/ marker'[p].generation > marker[p].generation
            \/ worker[k].pair = p /\ worker[k] # worker'[k]
  <2> SUFFICES ASSUME IInv, [Next]_vars, NEW p \in Pair, NEW k \in Worker,
                      marker[p].token = k, marker[p].lease = "live", marker'[p].token # k
               PROVE  \/ marker'[p].generation > marker[p].generation
                      \/ worker[k].pair = p /\ worker[k] # worker'[k]
    OBVIOUS
  <2>1. marker' # marker /\ marker'[p] # marker[p] /\ Next
    BY DEF vars
  <2>2. marker[p] \in MarkerRow
    BY DEF IInv, TypeOK
  <2>3. marker'[p] = Marked(marker[p]) => marker'[p].generation > marker[p].generation
    BY <2>2 DEF Marked, MarkerRow
  <2>4. ASSUME NEW j \in Worker PROVE ~ClaimRow(j, p)
    BY DEF ClaimRow, Claimable
  <2>5. ASSUME NEW j \in Worker, worker[j].pair = p, ClaimOwned(j), worker'[j] # worker[j]
        PROVE  worker[k].pair = p /\ worker[k] # worker'[k]
    BY <2>5 DEF ClaimOwned
  <2> QED
    BY <2>1, <2>3, <2>4, <2>5, MarkerEffect DEF IInv
<1> QED
  BY <1>1, InductiveInvariant, PTL DEF Spec, ClaimEndedByHolderOrMark

\* A due marker that nobody has claimed is not postponed.
THEOREM FreshMarksStayDue == Spec => FreshMarkStaysDue
<1>1. IInv /\ [Next]_vars =>
        \A p \in Pair :
          Present(p) /\ marker[p].due /\ marker[p].token = Nobody => marker'[p].due
  <2> SUFFICES ASSUME IInv, [Next]_vars, NEW p \in Pair,
                      Present(p), marker[p].due, marker[p].token = Nobody
               PROVE  marker'[p].due
    OBVIOUS
  <2>1. CASE marker'[p] = marker[p]
    BY <2>1
  <2>2. ASSUME NEW j \in Worker, ClaimRow(j, p) PROVE marker'[p].due
    BY <2>2 DEF ClaimRow, IInv, TypeOK, MarkerRow
  <2>3. ASSUME NEW j \in Worker, worker[j].pair = p PROVE ~ClaimOwned(j)
    BY <2>3, ConstantsAssumption DEF ClaimOwned
  <2>4. CASE marker'[p] = Marked(marker[p])
    BY <2>4 DEF Marked
  <2> QED
    BY <2>1, <2>2, <2>3, <2>4, MarkerEffect DEF IInv, vars
<1> QED
  BY <1>1, InductiveInvariant, PTL DEF Spec, FreshMarkStaysDue

\* The abstract reconciliation never leaves a pair on which provider and database
\* differ unmarked, unless it was disturbed: with ImplementsAddressWatch, this is
\* DivergenceAlwaysMarked read off the specification that promises it.
THEOREM WatchCovers == Watch!WatchSpec => []Watch!Covered
<1>1. Watch!WatchInit => Watch!Covered
  BY DEF Watch!WatchInit, Watch!Covered
<1>2. Watch!Covered /\ [Watch!WatchNext]_(Watch!watchVars) => Watch!Covered'
  <2> SUFFICES ASSUME Watch!Covered, [Watch!WatchNext]_(Watch!watchVars)
               PROVE  Watch!Covered'
    OBVIOUS
  <2>still. CASE UNCHANGED Watch!watchVars
    BY <2>still DEF Watch!watchVars, Watch!Covered
  <2>change. ASSUME NEW pairs \in SUBSET Pair, NEW wanted \in SUBSET Pair,
                    Watch!Change(pairs, wanted)
             PROVE  Watch!Covered'
    BY <2>change DEF Watch!Change, Watch!Covered
  <2>apply. ASSUME NEW p \in Pair, Watch!Apply(p) PROVE Watch!Covered'
    BY <2>apply DEF Watch!Apply, Watch!Covered
  <2>inspect. ASSUME NEW p \in Pair, Watch!Inspect(p) PROVE Watch!Covered'
    BY <2>inspect DEF Watch!Inspect, Watch!Covered
  <2>settle. ASSUME NEW p \in Pair, Watch!Settle(p) PROVE Watch!Covered'
    BY <2>settle DEF Watch!Settle, Watch!Covered
  <2>drift. ASSUME NEW p \in Pair, Watch!Drift(p) PROVE Watch!Covered'
    BY <2>drift DEF Watch!Drift, Watch!Covered
  <2> QED
    BY <2>still, <2>change, <2>apply, <2>inspect, <2>settle, <2>drift DEF Watch!WatchNext
<1> QED
  BY <1>1, <1>2, PTL DEF Watch!WatchSpec

=============================================================================
