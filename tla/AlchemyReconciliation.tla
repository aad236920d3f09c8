---------------------------- MODULE AlchemyReconciliation ----------------------------
(***************************************************************************)
(* How the backend keeps Alchemy's watched-address set equal to the set of *)
(* (chain, address) pairs its wallets want watched.                        *)
(*                                                                         *)
(* Wallet mutations commit a marker row for every pair they touch          *)
(* (wallets.repository.js, accountDeletion.repository.js); workers claim   *)
(* marker rows under a lease, take the pair's advisory lock, compare what  *)
(* the database wants with what Alchemy watches, PATCH the difference and  *)
(* delete the marker (alchemyAddressReconciliation.*.js); a manual sweep   *)
(* marks pairs that drifted for any other reason                           *)
(* (alchemyReconciliation.service.js).                                     *)
(*                                                                         *)
(* One action is one database statement, one provider request, or one      *)
(* committed transaction: what can interleave in the running system.       *)
(***************************************************************************)
EXTENDS Integers, FiniteSets

CONSTANTS
  NumChains,      \* supported chains, numbered in the order of their sorted ids
  NumAddresses,   \* wallet addresses, numbered in sorted order
  User,           \* accounts
  Wallet,         \* wallet ids (a deleted id may be created again)
  Owner,          \* the account a wallet id belongs to
  Worker,         \* reconciliation workers, one per running API process
  Nobody,         \* no lock owner, no claim token (SQL NULL)
  Faults,         \* which failures of FaultKinds this instance suffers
  SweepEnabled,   \* whether an operator runs the drift sweep
  MaxGeneration   \* bound: no mutation or sweep starts at this generation

FaultKinds == {"abort", "provider", "database", "crash", "lease", "drift"}

ASSUME ConstantsAssumption ==
  /\ NumChains \in Nat \ {0}
  /\ NumAddresses \in Nat \ {0}
  /\ Owner \in [Wallet -> User]
  /\ Nobody \notin User \union Worker
  /\ User \intersect Worker = {}
  /\ Faults \subseteq FaultKinds
  /\ SweepEnabled \in BOOLEAN
  /\ MaxGeneration \in Nat

VARIABLES
  wallet,     \* the committed tracked_wallets and wallet_chains rows
  txn,        \* the wallet transaction that holds each account's row lock
  pairLock,   \* the PostgreSQL advisory lock of each pair
  marker,     \* the alchemy_address_reconciliation rows
  worker,     \* the claim each worker is executing
  watched,    \* the pairs Alchemy watches
  sweep,      \* the drift sweep
  disturbed   \* history: pairs whose watch was changed from outside since
              \* a worker last listed them or a marker was last written

vars == <<wallet, txn, pairLock, marker, worker, watched, sweep, disturbed>>

-----------------------------------------------------------------------------
(* Pairs, wallets and the watch they want.                                 *)

Chain   == 1 .. NumChains
Address == 1 .. NumAddresses
Pair    == Chain \X Address
NoPair  == <<0, 0>>

\* normalizePairs sorts by chain id, then by address.
Before(p, q) == p[1] < q[1] \/ (p[1] = q[1] /\ p[2] < q[2])

WalletRow == [address : Address, chains : (SUBSET Chain) \ {{}}]
NoWallet  == [address |-> 0, chains |-> {}]

\* listDesiredAlchemyPairsForWallet: the enabled chains at the wallet's address.
WalletPairs(row) == {p \in Pair : p[1] \in row.chains /\ p[2] = row.address}

\* isAlchemyAddressDesired: some active wallet has the pair enabled.
Desired(p) == \E w \in Wallet : p \in WalletPairs(wallet[w])

NoTxn == [open |-> FALSE, targets |-> {}, next |-> NoWallet, locks |-> {}, marks |-> {}]

-----------------------------------------------------------------------------
(* Marker rows.                                                            *)

NoMarker == [generation |-> 0, token |-> Nobody, lease |-> "none", due |-> FALSE]
Present(p) == marker[p].generation > 0

\* A mutated form: the upsert forgets claim_token = NULL.
MarkedKeepsToken(m) ==
  [generation |-> m.generation + 1, token |-> m.token, lease |-> "none", due |-> TRUE]

\* The upsert of markAlchemyAddressPairsDirty: a new row has generation 1; an
\* existing one advances its generation and loses its claim and its backoff.
Marked(m) ==
  [generation |-> m.generation + 1, token |-> Nobody, lease |-> "none", due |-> TRUE]

MarkAll(pairs) ==
  /\ marker' = [p \in Pair |-> IF p \in pairs THEN Marked(marker[p]) ELSE marker[p]]
  /\ disturbed' = disturbed \ pairs

\* A row whose claim was given back, due at once or after a backoff.
Unclaimed(m, due) ==
  [generation |-> m.generation, token |-> Nobody, lease |-> "none", due |-> due]

-----------------------------------------------------------------------------
(* Worker claims.                                                          *)

NoClaim == [pc |-> "idle", pair |-> NoPair, generation |-> 0,
            desired |-> FALSE, observed |-> FALSE, failed |-> FALSE]

\* The steps of a worker that run while it holds the pair's session lock.
Reconciling == {"check", "desire", "list", "patch", "relist", "recheck", "complete", "release"}
Locked      == Reconciling \union {"unlock"}

Watching(k) == worker[k].pair \in watched

\* The row still carries the claim this worker took. A claim token is a fresh
\* UUID; a worker holds one claim at a time, so its name stands for the token of
\* its latest claim: an older token of the same worker is never compared again.
ClaimOwned(k) ==
  LET m == marker[worker[k].pair]
  IN  m.generation = worker[k].generation /\ m.token = k

\* A mutated form: only the lease is checked.
AnyLiveClaim(k) == marker[worker[k].pair].lease = "live"

\* isAlchemyAddressClaimCurrent, and the guard of completeAlchemyAddressClaim.
ClaimCurrent(k) == ClaimOwned(k) /\ marker[worker[k].pair].lease = "live"

\* A mutated form: expired leases are not taken over.
ClaimableOnlyOnce(p) == Present(p) /\ marker[p].due /\ marker[p].lease = "none"

\* Due, and not under an unexpired lease. Which of the claimable rows is taken
\* first is left open (ORDER BY next_attempt_at, SKIP LOCKED).
Claimable(p) == Present(p) /\ marker[p].due /\ marker[p].lease # "live"

Goto(k, pc) == worker' = [worker EXCEPT ![k].pc = pc]
Fail(k)     == worker' = [worker EXCEPT ![k].pc = "unlock", ![k].failed = TRUE]
Forget(k)   == worker' = [worker EXCEPT ![k] = NoClaim]
Unlock(p)   == pairLock' = [pairLock EXCEPT ![p] = Nobody]

\* What a crashed or disconnected worker held is released by PostgreSQL.
ReleaseAll(o) == pairLock' = [p \in Pair |-> IF pairLock[p] = o THEN Nobody ELSE pairLock[p]]

-----------------------------------------------------------------------------
(* The drift sweep's passes.                                               *)

NoSweep == [pc |-> "idle", chain |-> 0, db |-> {}, drift |-> {}]
SweepOf(chain) == [pc |-> "readdb", chain |-> chain, db |-> {}, drift |-> {}]
NextChainSweep == IF sweep.chain < NumChains THEN SweepOf(sweep.chain + 1) ELSE NoSweep

-----------------------------------------------------------------------------
(* Initially nothing is tracked, watched or marked.                        *)

Init ==
  /\ wallet = [w \in Wallet |-> NoWallet]
  /\ txn = [u \in User |-> NoTxn]
  /\ pairLock = [p \in Pair |-> Nobody]
  /\ marker = [p \in Pair |-> NoMarker]
  /\ worker = [k \in Worker |-> NoClaim]
  /\ watched = {}
  /\ sweep = NoSweep
  /\ disturbed = {}

-----------------------------------------------------------------------------
(* Wallet transactions. Each opens by locking its account's row, so one    *)
(* account has at most one; it then takes the advisory locks of the pairs  *)
(* it will change, in sorted order, and commits rows and markers together. *)

GenerationsLeft == \A p \in Pair : marker[p].generation < MaxGeneration

OpenTxn(u, targets, next, locks, marks) ==
  /\ ~txn[u].open
  /\ GenerationsLeft
  /\ txn' = [txn EXCEPT ![u] = [open |-> TRUE, targets |-> targets, next |-> next,
                                locks |-> locks, marks |-> marks]]
  /\ UNCHANGED <<wallet, pairLock, marker, worker, watched, sweep, disturbed>>

BeginCreateWallet(u) ==
  \E w \in Wallet, row \in WalletRow :
    /\ Owner[w] = u
    /\ wallet[w] = NoWallet
    /\ OpenTxn(u, {w}, row, WalletPairs(row), WalletPairs(row))

\* A mutated form: only the pairs of the new state are locked.
UpdateLocksNextOnly(prev, next) == next

UpdateLocks(prev, next) == prev \union next

\* A mutated form: only the pairs of the new state are marked.
UpdateMarksNextOnly(prev, next) == IF prev = next THEN {} ELSE next

\* Pairs are marked only if the desired pairs changed (desiredPairsChanged).
UpdateMarks(prev, next) == IF prev = next THEN {} ELSE prev \union next

\* The new row keeps or replaces the address and the chains; a change of label
\* or track types alone leaves the pairs as they are.
BeginUpdateWallet(u) ==
  \E w \in Wallet, row \in WalletRow :
    LET prev == WalletPairs(wallet[w])
        next == WalletPairs(row)
    IN  /\ Owner[w] = u
        /\ wallet[w] # NoWallet
        /\ OpenTxn(u, {w}, row, UpdateLocks(prev, next), UpdateMarks(prev, next))

BeginDeleteWallet(u) ==
  \E w \in Wallet :
    LET prev == WalletPairs(wallet[w])
    IN  /\ Owner[w] = u
        /\ wallet[w] # NoWallet
        /\ OpenTxn(u, {w}, NoWallet, prev, prev)

\* The account's row goes too; its name may then stand for another account.
BeginDeleteAccount(u) ==
  LET owned == {w \in Wallet : Owner[w] = u}
      prev  == {p \in Pair : \E w \in owned : p \in WalletPairs(wallet[w])}
  IN  OpenTxn(u, owned, NoWallet, prev, prev)

\* A mutated form: locks are taken in any order.
AnyLock(u, p) == p \in txn[u].locks /\ pairLock[p] # u

\* lockAlchemyAddressPairsForMutation takes the sorted pairs one by one.
NextLock(u, p) ==
  LET waiting == {q \in txn[u].locks : pairLock[q] # u}
  IN  p \in waiting /\ \A q \in waiting : q = p \/ Before(p, q)

LockNextPair(u) ==
  \E p \in Pair :
    /\ txn[u].open
    /\ NextLock(u, p)
    /\ pairLock[p] = Nobody
    /\ pairLock' = [pairLock EXCEPT ![p] = u]
    /\ UNCHANGED <<wallet, txn, marker, worker, watched, sweep, disturbed>>

CommitTxn(u) ==
  /\ txn[u].open
  /\ \A p \in txn[u].locks : pairLock[p] = u
  /\ wallet' = [w \in Wallet |-> IF w \in txn[u].targets THEN txn[u].next ELSE wallet[w]]
  /\ MarkAll(txn[u].marks)
  /\ txn' = [txn EXCEPT ![u] = NoTxn]
  /\ ReleaseAll(u)
  /\ UNCHANGED <<worker, watched, sweep>>

\* ROLLBACK: a constraint, a statement timeout while waiting for a lock, a
\* failed statement or the end of the API process.
AbortTxn(u) ==
  /\ "abort" \in Faults
  /\ txn[u].open
  /\ txn' = [txn EXCEPT ![u] = NoTxn]
  /\ ReleaseAll(u)
  /\ UNCHANGED <<wallet, marker, worker, watched, sweep, disturbed>>

-----------------------------------------------------------------------------
(* The worker: claim a row, take the pair's lock, reconcile, unlock.       *)

ClaimRow(k, p) ==
  /\ worker[k].pc = "idle"
  /\ Claimable(p)
  /\ marker' = [marker EXCEPT ![p].token = k, ![p].lease = "live"]
  /\ worker' = [worker EXCEPT ![k] = [NoClaim EXCEPT !.pc = "claimed", !.pair = p,
                                                     !.generation = marker[p].generation]]
  /\ UNCHANGED <<wallet, txn, pairLock, watched, sweep, disturbed>>

AcquirePairLock(k) ==
  /\ worker[k].pc = "claimed"
  /\ pairLock[worker[k].pair] = Nobody
  /\ pairLock' = [pairLock EXCEPT ![worker[k].pair] = k]
  /\ Goto(k, "check")
  /\ UNCHANGED <<wallet, txn, marker, watched, sweep, disturbed>>

\* 'superseded' if the claim was lost while waiting for the lock.
CheckClaim(k) ==
  /\ worker[k].pc = "check"
  /\ Goto(k, IF ClaimCurrent(k) THEN "desire" ELSE "unlock")
  /\ UNCHANGED <<wallet, txn, pairLock, marker, watched, sweep, disturbed>>

ReadDesired(k) ==
  /\ worker[k].pc = "desire"
  /\ worker' = [worker EXCEPT ![k].pc = "list", ![k].desired = Desired(worker[k].pair)]
  /\ UNCHANGED <<wallet, txn, pairLock, marker, watched, sweep, disturbed>>

ListWatched(k) ==
  /\ worker[k].pc = "list"
  /\ worker' = [worker EXCEPT
       ![k].pc = IF Watching(k) = worker[k].desired THEN "recheck" ELSE "patch",
       ![k].observed = Watching(k)]
  /\ disturbed' = disturbed \ {worker[k].pair}
  /\ UNCHANGED <<wallet, txn, pairLock, marker, watched, sweep>>

Patched(k) ==
  IF worker[k].desired THEN watched \union {worker[k].pair} ELSE watched \ {worker[k].pair}

PatchWatch(k) ==
  /\ worker[k].pc = "patch"
  /\ watched' = Patched(k)
  /\ Goto(k, "relist")
  /\ UNCHANGED <<wallet, txn, pairLock, marker, sweep, disturbed>>

\* The actual state is confirmed; a mismatch is an error like any other.
RelistWatched(k) ==
  /\ worker[k].pc = "relist"
  /\ worker' = [worker EXCEPT
       ![k].pc = IF Watching(k) = worker[k].desired THEN "recheck" ELSE "unlock",
       ![k].failed = Watching(k) # worker[k].desired,
       ![k].observed = Watching(k)]
  /\ disturbed' = disturbed \ {worker[k].pair}
  /\ UNCHANGED <<wallet, txn, pairLock, marker, watched, sweep>>

RecheckDesired(k) ==
  /\ worker[k].pc = "recheck"
  /\ Goto(k, IF worker[k].observed = Desired(worker[k].pair) THEN "complete" ELSE "release")
  /\ UNCHANGED <<wallet, txn, pairLock, marker, watched, sweep, disturbed>>

\* The DELETE checks the claim, its lease and the desired state once more.
Completable(k) == ClaimCurrent(k) /\ worker[k].observed = Desired(worker[k].pair)

CompleteClaim(k) ==
  /\ worker[k].pc = "complete"
  /\ IF Completable(k)
     THEN marker' = [marker EXCEPT ![worker[k].pair] = NoMarker] /\ Goto(k, "unlock")
     ELSE UNCHANGED marker /\ Goto(k, "release")
  /\ UNCHANGED <<wallet, txn, pairLock, watched, sweep, disturbed>>

ReleaseClaim(k) ==
  /\ worker[k].pc = "release"
  /\ marker' = IF ClaimOwned(k)
               THEN [marker EXCEPT ![worker[k].pair] = Unclaimed(@, TRUE)]
               ELSE marker
  /\ Goto(k, "unlock")
  /\ UNCHANGED <<wallet, txn, pairLock, watched, sweep, disturbed>>

UnlockPair(k) ==
  /\ worker[k].pc = "unlock"
  /\ Unlock(worker[k].pair)
  /\ IF worker[k].failed THEN Goto(k, "retry") ELSE Forget(k)
  /\ UNCHANGED <<wallet, txn, marker, watched, sweep, disturbed>>

\* A mutated form: the token is not compared.
RetryableByGeneration(k) == marker[worker[k].pair].generation = worker[k].generation

Retryable(k) == ClaimOwned(k)

\* Runs after the lock is gone, on another connection: the row may be anybody's.
RetryClaim(k) ==
  /\ worker[k].pc = "retry"
  /\ marker' = IF Retryable(k)
               THEN [marker EXCEPT ![worker[k].pair] = Unclaimed(@, FALSE)]
               ELSE marker
  /\ Forget(k)
  /\ UNCHANGED <<wallet, txn, pairLock, watched, sweep, disturbed>>

-----------------------------------------------------------------------------
(* What goes wrong around a worker. Every exception inside the lock leads  *)
(* to the unlock and then to retryAlchemyAddressClaim.                     *)

\* A provider request fails: nothing is listed, or the PATCH was refused, lost,
\* applied although its answer was not received, or acknowledged without effect.
ProviderFails(k) ==
  /\ "provider" \in Faults
  /\ worker[k].pc \in {"list", "patch", "relist"}
  /\ \/ Fail(k) /\ UNCHANGED watched
     \/ worker[k].pc = "patch" /\ Fail(k) /\ watched' = Patched(k)
     \/ worker[k].pc = "patch" /\ Goto(k, "relist") /\ UNCHANGED watched
  /\ UNCHANGED <<wallet, txn, pairLock, marker, sweep, disturbed>>

\* A statement on the locked connection fails.
StatementFails(k) ==
  /\ "database" \in Faults
  /\ worker[k].pc \in {"check", "desire", "recheck", "complete", "release"}
  /\ Fail(k)
  /\ UNCHANGED <<wallet, txn, pairLock, marker, watched, sweep, disturbed>>

\* The DELETE commits and its acknowledgement is lost.
CompleteAckLost(k) ==
  /\ "database" \in Faults
  /\ worker[k].pc = "complete"
  /\ Completable(k)
  /\ marker' = [marker EXCEPT ![worker[k].pair] = NoMarker]
  /\ Fail(k)
  /\ UNCHANGED <<wallet, txn, pairLock, watched, sweep, disturbed>>

\* No connection, or the wait for the lock exceeds the statement timeout.
AcquireFails(k) ==
  /\ "database" \in Faults
  /\ worker[k].pc = "claimed"
  /\ worker' = [worker EXCEPT ![k].pc = "retry", ![k].failed = TRUE]
  /\ UNCHANGED <<wallet, txn, pairLock, marker, watched, sweep, disturbed>>

\* The unlock is not confirmed: the connection is discarded, which releases the
\* lock, and the claim is retried even if its row was completed.
UnlockFails(k) ==
  /\ "database" \in Faults
  /\ worker[k].pc = "unlock"
  /\ Unlock(worker[k].pair)
  /\ worker' = [worker EXCEPT ![k].pc = "retry", ![k].failed = TRUE]
  /\ UNCHANGED <<wallet, txn, marker, watched, sweep, disturbed>>

\* The retry itself fails and the cycle ends: the claim waits for its lease.
RetryFails(k) ==
  /\ "database" \in Faults
  /\ worker[k].pc = "retry"
  /\ Forget(k)
  /\ UNCHANGED <<wallet, txn, pairLock, marker, watched, sweep, disturbed>>

\* The process ends and is started again. A PATCH under way may be applied.
Crash(k) ==
  /\ "crash" \in Faults
  /\ worker[k].pc # "idle"
  /\ watched' \in IF worker[k].pc = "patch" THEN {watched, Patched(k)} ELSE {watched}
  /\ ReleaseAll(k)
  /\ Forget(k)
  /\ UNCHANGED <<wallet, txn, marker, sweep, disturbed>>

-----------------------------------------------------------------------------
(* Time, and changes of the watch that no worker makes.                    *)

\* A worker still executes the claim whose token the row carries.
ClaimInUse(p) == \E k \in Worker : worker[k].pair = p /\ ClaimOwned(k)

\* With "lease" in Faults the provider may be so slow that a lease runs out
\* under a running claim; otherwise only abandoned claims expire.
LeaseExpires(p) ==
  /\ marker[p].lease = "live"
  /\ "lease" \in Faults \/ ~ClaimInUse(p)
  /\ marker' = [marker EXCEPT ![p].lease = "expired"]
  /\ UNCHANGED <<wallet, txn, pairLock, worker, watched, sweep, disturbed>>

BackoffElapses(p) ==
  /\ Present(p)
  /\ ~marker[p].due
  /\ marker' = [marker EXCEPT ![p].due = TRUE]
  /\ UNCHANGED <<wallet, txn, pairLock, worker, watched, sweep, disturbed>>

\* The webhook is edited by hand, or a request its sender gave up on is
\* applied late.
WatchDrifts(p) ==
  /\ "drift" \in Faults
  /\ watched' = IF p \in watched THEN watched \ {p} ELSE watched \union {p}
  /\ disturbed' = disturbed \union {p}
  /\ UNCHANGED <<wallet, txn, pairLock, marker, worker, sweep>>

-----------------------------------------------------------------------------
(* The drift sweep: per chain it reads the database's addresses, then      *)
(* Alchemy's, and marks what differs. It takes no pair lock.               *)

StartSweep ==
  /\ SweepEnabled
  /\ GenerationsLeft
  /\ sweep.pc = "idle"
  /\ sweep' = SweepOf(1)
  /\ UNCHANGED <<wallet, txn, pairLock, marker, worker, watched, disturbed>>

SweepReadDatabase ==
  /\ sweep.pc = "readdb"
  /\ sweep' = [sweep EXCEPT !.pc = "list",
                            !.db = {p \in Pair : p[1] = sweep.chain /\ Desired(p)}]
  /\ UNCHANGED <<wallet, txn, pairLock, marker, worker, watched, disturbed>>

SweepListWatched ==
  LET drift == {p \in Pair : p[1] = sweep.chain /\ (p \in sweep.db) # (p \in watched)}
  IN  /\ sweep.pc = "list"
      /\ sweep' = IF drift = {} THEN NextChainSweep
                  ELSE [sweep EXCEPT !.pc = "enqueue", !.drift = drift]
      /\ UNCHANGED <<wallet, txn, pairLock, marker, worker, watched, disturbed>>

SweepEnqueue ==
  /\ sweep.pc = "enqueue"
  /\ MarkAll(sweep.drift)
  /\ sweep' = NextChainSweep
  /\ UNCHANGED <<wallet, txn, pairLock, worker, watched>>

\* A failed chain is reported and the other chains are still swept.
SweepChainFails ==
  /\ Faults \intersect {"provider", "database"} # {}
  /\ sweep.pc # "idle"
  /\ sweep' = NextChainSweep
  /\ UNCHANGED <<wallet, txn, pairLock, marker, worker, watched, disturbed>>

-----------------------------------------------------------------------------

WalletStep(u) ==
  \/ BeginCreateWallet(u) \/ BeginUpdateWallet(u)
  \/ BeginDeleteWallet(u) \/ BeginDeleteAccount(u)
  \/ LockNextPair(u) \/ CommitTxn(u) \/ AbortTxn(u)

\* The steps a running worker takes on its own once it holds the lock.
ReconcileStep(k) ==
  \/ CheckClaim(k) \/ ReadDesired(k) \/ ListWatched(k) \/ PatchWatch(k)
  \/ RelistWatched(k) \/ RecheckDesired(k) \/ CompleteClaim(k) \/ ReleaseClaim(k)
  \/ UnlockPair(k)

WorkerFault(k) ==
  \/ ProviderFails(k) \/ StatementFails(k) \/ CompleteAckLost(k) \/ AcquireFails(k)
  \/ UnlockFails(k) \/ RetryFails(k) \/ Crash(k)

WorkerStep(k) ==
  \/ \E p \in Pair : ClaimRow(k, p)
  \/ AcquirePairLock(k) \/ ReconcileStep(k) \/ RetryClaim(k) \/ WorkerFault(k)

SweepStep ==
  \/ StartSweep \/ SweepReadDatabase \/ SweepListWatched \/ SweepEnqueue
  \/ SweepChainFails

TimeStep(p) == LeaseExpires(p) \/ BackoffElapses(p) \/ WatchDrifts(p)

Next ==
  \/ \E u \in User : WalletStep(u)
  \/ \E k \in Worker : WorkerStep(k)
  \/ SweepStep
  \/ \E p \in Pair : TimeStep(p)

Spec == Init /\ [][Next]_vars

-----------------------------------------------------------------------------
(* Fairness. Waiting for an advisory lock is a FIFO queue in PostgreSQL,   *)
(* and rows are claimed in the order of next_attempt_at, so neither waits  *)
(* for ever (strong fairness); the workers poll on a timer, running code   *)
(* proceeds and time passes (weak fairness). Nothing obliges an account to *)
(* act, a failure to happen or an operator to sweep.                       *)

Fairness ==
  /\ \A u \in User : SF_vars(LockNextPair(u)) /\ WF_vars(CommitTxn(u))
  /\ \A k \in Worker :
       /\ SF_vars(AcquirePairLock(k))
       /\ WF_vars(ReconcileStep(k))
       /\ WF_vars(RetryClaim(k))
  /\ \A p \in Pair :
       /\ SF_vars(\E k \in Worker : ClaimRow(k, p))
       /\ WF_vars(LeaseExpires(p))
       /\ WF_vars(BackoffElapses(p))

FairSpec == Spec /\ Fairness

-----------------------------------------------------------------------------
(* Correctness.                                                            *)

Lease     == {"none", "live", "expired"}
MarkerRow == [generation : Nat, token : Worker \union {Nobody}, lease : Lease, due : BOOLEAN]
ClaimState == [pc : Locked \union {"idle", "claimed", "retry"}, pair : Pair \union {NoPair},
               generation : Nat, desired : BOOLEAN, observed : BOOLEAN, failed : BOOLEAN]
TxnState == [open : BOOLEAN, targets : SUBSET Wallet, next : WalletRow \union {NoWallet},
             locks : SUBSET Pair, marks : SUBSET Pair]
SweepState == [pc : {"idle", "readdb", "list", "enqueue"}, chain : 0 .. NumChains,
               db : SUBSET Pair, drift : SUBSET Pair]

\* Every variable holds a value of its type, and a marker row has a claim token
\* exactly when it has a lease (the CHECK of migration 025).
TypeOK ==
  /\ wallet \in [Wallet -> WalletRow \union {NoWallet}]
  /\ txn \in [User -> TxnState]
  /\ pairLock \in [Pair -> User \union Worker \union {Nobody}]
  /\ marker \in [Pair -> MarkerRow]
  /\ \A p \in Pair : (marker[p].token = Nobody) <=> (marker[p].lease = "none")
  /\ worker \in [Worker -> ClaimState]
  /\ watched \subseteq Pair
  /\ sweep \in SweepState
  /\ disturbed \subseteq Pair

\* A pair whose watch is not what the wallets want always has a marker row, so
\* that some worker will repair it, whatever crashes, times out, is repeated or
\* overlaps; the only exception is a watch changed from outside that nobody has
\* listed or marked since.
DivergenceIsMarked ==
  \A p \in Pair : (p \in watched) # Desired(p) => Present(p) \/ p \in disturbed

\* What a worker read of the database stays true until it lets go of the pair's
\* lock: no wallet transaction of any account commits under it.
DesiredStableUnderLock ==
  \A k \in Worker :
    worker[k].pc \in {"list", "patch", "relist", "recheck", "complete"} =>
      worker[k].desired = Desired(worker[k].pair)

\* A live claim is ended only by the worker that took it or by a newer mark,
\* never by a late worker whose own claim on the pair was already lost.
ClaimEndedByHolderOrMark ==
  [][\A p \in Pair, k \in Worker :
       marker[p].token = k /\ marker[p].lease = "live" /\ marker'[p].token # k =>
         \/ marker'[p].generation > marker[p].generation
         \/ worker[k].pair = p /\ worker[k] # worker'[k]]_vars

\* A marker nobody has claimed and that is due stays due until it is claimed: the
\* failure of an attempt that began before the mark never postpones it, even when
\* the row was deleted and written again with the same generation in between.
FreshMarkStaysDue ==
  [][\A p \in Pair :
       Present(p) /\ marker[p].due /\ marker[p].token = Nobody => marker'[p].due]_vars

\* Every wallet transaction ends: the order in which locks are taken excludes a
\* circular wait, between transactions and with the workers.
TransactionsEnd == \A u \in User : txn[u].open ~> ~txn[u].open

\* What can keep a marker busy: a wallet mutation, a failure, a lease running out
\* under a running claim, a drift, a sweep's mark. A worker that finds by itself what
\* a failure would have made it find is not disturbed.
Disruption ==
  \/ \E u \in User : CommitTxn(u) \/ AbortTxn(u)
  \/ \E k \in Worker : WorkerFault(k) /\ ~(ReconcileStep(k) \/ RetryClaim(k))
  \/ \E p \in Pair : (LeaseExpires(p) /\ ClaimInUse(p)) \/ WatchDrifts(p)
  \/ SweepEnqueue

Converged ==
  \A p \in Pair : ~Present(p) /\ ((p \in watched) = Desired(p) \/ p \in disturbed)

\* Once the disruptions stop, every marker is worked off and Alchemy ends up
\* watching exactly the pairs the wallets want.
EventuallyConverged == <>[][~Disruption]_vars => <>[]Converged

-----------------------------------------------------------------------------
(* The abstract view of the reconciliation that this module implements.    *)

Watch == INSTANCE AddressWatch WITH
  desired <- {p \in Pair : Desired(p)},
  dirty   <- {p \in Pair : Present(p)}

\* The workers, transactions and sweeps implement AddressWatch: desired pairs
\* never change without being marked in the same step, Alchemy is changed for
\* marked pairs only and towards the desired state of that moment, and a marker
\* is deleted only when both agree.
RefinesAddressWatch == Watch!WatchSpec

-----------------------------------------------------------------------------
(* Why it is correct: the inductive invariant of the proofs.               *)

\* A worker between lock and unlock holds exactly its pair's lock; an account
\* holds locks only for its open transaction.
LocksHeld ==
  /\ \A k \in Worker, p \in Pair :
       pairLock[p] = k <=> worker[k].pc \in Locked /\ worker[k].pair = p
  /\ \A u \in User, p \in Pair :
       pairLock[p] = u => txn[u].open /\ p \in txn[u].locks

\* A worker that is not idle works on a pair.
ClaimsHavePairs ==
  \A k \in Worker : worker[k].pc # "idle" => worker[k].pair \in Pair

\* A transaction changes its own account's wallets and marks, under their locks,
\* all the pairs those changes add or remove.
TxnsCoverChanges ==
  \A u \in User : txn[u].open =>
    /\ \A w \in txn[u].targets : Owner[w] = u
    /\ \A w \in txn[u].targets, p \in Pair :
         (p \in WalletPairs(wallet[w])) # (p \in WalletPairs(txn[u].next)) =>
           p \in txn[u].marks
    /\ txn[u].marks \subseteq txn[u].locks

\* Only rows that exist are claimed.
ClaimsOnRows == \A p \in Pair : marker[p].token # Nobody => Present(p)

\* The marker of a pair survives while a worker whose claim passed the check
\* holds the lock: only the lock's holder deletes it.
MarkersOutliveChecks ==
  \A k \in Worker :
    worker[k].pc \in {"desire", "list", "patch", "relist", "recheck", "complete"} =>
      Present(worker[k].pair)

\* What a worker is about to conclude is true, or its claim is already void, or
\* the watch was changed from outside since it looked.
ObservationsHold ==
  \A k \in Worker :
    worker[k].pc \in {"recheck", "complete"} =>
      /\ worker[k].observed = worker[k].desired
      /\ \/ Watching(k) = worker[k].observed
         \/ worker[k].pair \in disturbed
         \/ ~ClaimOwned(k)

IInv ==
  /\ TypeOK
  /\ LocksHeld
  /\ ClaimsHavePairs
  /\ TxnsCoverChanges
  /\ ClaimsOnRows
  /\ MarkersOutliveChecks
  /\ DesiredStableUnderLock
  /\ ObservationsHold
  /\ DivergenceIsMarked
=============================================================================
