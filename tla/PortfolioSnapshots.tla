------------------------- MODULE PortfolioSnapshots -------------------------
(***************************************************************************)
(* The portfolio snapshots that the 24-hour performance is computed from   *)
(* (portfolioSummary/portfolioSummary.service.js, performance/performance. *)
(* service.js, performance/performance.job.js): a timer starts cycles that *)
(* take the wallets one after the other; a wallet's summary puts together  *)
(* its live holdings and its positions, is kept for some seconds and is    *)
(* shared with the performance requests that come meanwhile.               *)
(*                                                                         *)
(* Holdings and positions are what these calls may end with: modules       *)
(* WalletHoldings and WalletPositions say what that means. Amounts are left*)
(* out, but not what the sums are made of: tokens or positions without a   *)
(* price count as nothing as long as another one has a price, and that does*)
(* not make the summary partial. Summaries with other options have entries *)
(* of their own.                                                           *)
(***************************************************************************)
EXTENDS Integers

CONSTANTS
  NumWallets,   \* active wallets, by creation
  Ttl,          \* PORTFOLIO_SUMMARY_CACHE_TTL_MS
  PartialTtl,   \* PARTIAL_PORTFOLIO_SUMMARY_CACHE_TTL_MS
  FetchTime,    \* how long holdings and positions take at most
  MaxCycles,    \* bound: how many cycles are started
  MaxRequests,  \* bound: how many performance requests come
  MaxTime       \* bound: the clock

Wallet == 1 .. NumWallets
Cycle == 1 .. MaxCycles

VARIABLES
  now,       \* Date.now()
  summary,   \* portfolioSummaryCache
  promise,   \* inFlightPortfolioSummaryPromises
  job,       \* the PortfolioSnapshotJob: whether it was started, its timer, its flag
  lastRun,   \* how the last cycle to end has ended: lastRunSucceededAt, lastRunFailedAt
  cycle,     \* what each call of runCycle is doing
  snapshots, \* the wallet_portfolio_snapshots rows
  requests   \* how many performance requests came

vars == <<now, summary, promise, job, lastRun, cycle, snapshots, requests>>

None == [kind |-> "none"]
NoPromise == [at |-> "none"]

\* What a call ends with: everything there is, with a price; everything, but a sum without
\* the items that have no price; or incomplete, or nothing with a price ("partial").
Outcome == {"complete", "underpriced", "partial"}
PositionsOutcome == Outcome \union {"unsupported"}

\* A settled value of a summary.
Value == [holdings : Outcome, positions : PositionsOutcome, asked : 0 .. MaxTime]

TypeOK ==
  /\ now \in 0 .. MaxTime /\ requests \in 0 .. MaxRequests
  /\ \A w \in Wallet :
       /\ summary[w] = None \/ summary[w].value \in Value
       /\ promise[w] = NoPromise
          \/ /\ promise[w].holdings \in Outcome \union {"pending", "failed"}
             /\ promise[w].positions \in PositionsOutcome \union {"pending", "failed"}
  /\ job \in [started : BOOLEAN, timer : BOOLEAN, running : BOOLEAN]
  /\ lastRun \in {"none", "succeeded", "failed"}
  /\ \A k \in Cycle :
       /\ cycle[k].at \in {"unused", "listing", "next", "waiting", "inserting", "over"}
       /\ cycle[k].wallet \in 0 .. NumWallets + 1 /\ cycle[k].tried \in 0 .. NumWallets
  /\ \A s \in snapshots : s.wallet \in Wallet /\ s.value \in Value /\ s.captured \in 0 .. MaxTime

Init ==
  /\ now = 0 /\ requests = 0
  /\ summary = [w \in Wallet |-> None]
  /\ promise = [w \in Wallet |-> NoPromise]
  /\ job = [started |-> FALSE, timer |-> FALSE, running |-> FALSE]
  /\ lastRun = "none"
  /\ cycle = [k \in Cycle |-> [at |-> "unused", wallet |-> 0, tried |-> 0, failed |-> FALSE,
                               first |-> FALSE]]
  /\ snapshots = {}

----------------------------------------------------------------------------
(* The summary of one wallet.                                              *)

Fresh(w) == summary[w] # None /\ summary[w].expires > now

\* Mutant: positions that are unsupported do not make the summary partial.
HoldingsOrPositionsPartial(v) == "partial" \in {v.holdings, v.positions}

\* isPartial of getWalletPortfolioSummary. Items without a price do not make it so.
IsPartial(v) == v.holdings = "partial" \/ v.positions \in {"partial", "unsupported"}

\* getOrCreateInFlightPortfolioSummaryPromise, and the two calls it begins.
Shared(w) ==
  IF promise[w] # NoPromise THEN promise
  ELSE [promise EXCEPT ![w] = [at |-> "running", holdings |-> "pending", positions |-> "pending",
                               asked |-> now]]

\* Mutant: the cycle stays with a wallet that has failed.
TriedAgain(k, failed) ==
  [cycle[k] EXCEPT !.at = "next", !.wallet = IF failed THEN @ ELSE @ + 1, !.tried = @ + 1,
                   !.failed = @ \/ failed]

\* The cycle has done with its wallet and goes on to the next one.
Tried(k, failed) ==
  [cycle[k] EXCEPT !.at = "next", !.wallet = @ + 1, !.tried = @ + 1, !.failed = @ \/ failed]

\* captureWalletPortfolioSnapshot with a summary: a partial one is skipped.
Captured(k, v) ==
  IF IsPartial(v) THEN Tried(k, FALSE)
  ELSE [at |-> "inserting", wallet |-> cycle[k].wallet, tried |-> cycle[k].tried,
        failed |-> cycle[k].failed, first |-> cycle[k].first, value |-> v, captured |-> now]

\* One of the two calls ends. When both have, the summary is kept and the cycles that
\* wait for it go on; if one has failed they do without.
Settle(w, call, outcome) ==
  LET p == [promise[w] EXCEPT ![call] = outcome]
      over == "pending" \notin {p.holdings, p.positions}
      v == [holdings |-> p.holdings, positions |-> p.positions, asked |-> p.asked]
      rejected == "failed" \in {p.holdings, p.positions} IN
  /\ promise[w] # NoPromise /\ promise[w][call] = "pending"
  /\ promise' = [promise EXCEPT ![w] = IF over THEN NoPromise ELSE p]
  /\ summary' = IF ~over \/ rejected THEN summary
                ELSE [summary EXCEPT ![w] =
                  [value |-> v, expires |-> now + (IF IsPartial(v) THEN PartialTtl ELSE Ttl)]]
  /\ cycle' = [k \in Cycle |->
       IF over /\ cycle[k].at = "waiting" /\ cycle[k].wallet = w
       THEN IF rejected THEN Tried(k, TRUE) ELSE Captured(k, v)
       ELSE cycle[k]]
  /\ UNCHANGED <<now, job, lastRun, snapshots, requests>>

HoldingsSettle(w) ==
  \E outcome \in Outcome \union {"failed"} : Settle(w, "holdings", outcome)

PositionsSettle(w) ==
  \E outcome \in PositionsOutcome \union {"failed"} : Settle(w, "positions", outcome)

\* getWalletPerformance and getAggregatedPortfolioPerformance: the summaries of one
\* wallet or of all of them. What they do with the snapshots changes nothing.
AskPerformance(chosen) ==
  /\ requests < MaxRequests
  /\ requests' = requests + 1
  /\ promise' = [w \in Wallet |-> IF w \in chosen /\ ~Fresh(w) THEN Shared(w)[w] ELSE promise[w]]
  /\ UNCHANGED <<now, summary, job, lastRun, cycle, snapshots>>

----------------------------------------------------------------------------
(* A cycle.                                                                *)

\* runCycle, called by start and then by the timer, which runs whether or not the
\* cycle before is over.
Begin(first) ==
  /\ \E k \in Cycle :
       /\ cycle[k].at = "unused" /\ \A j \in 1 .. k - 1 : cycle[j].at # "unused"
       /\ cycle' = [cycle EXCEPT ![k].at = IF job.running THEN "over" ELSE "listing",
                                 ![k].first = first]
  /\ UNCHANGED <<now, summary, promise, lastRun, snapshots, requests>>

StartJob ==
  /\ ~job.started
  /\ Begin(TRUE)
  /\ job' = [job EXCEPT !.started = TRUE, !.running = TRUE]

TimerFires ==
  /\ job.timer
  /\ Begin(FALSE)
  /\ job' = [job EXCEPT !.running = TRUE]

\* The cycle ends and start, if it waits for it, sets the timer.
End(k, failed) ==
  /\ cycle' = [cycle EXCEPT ![k] = [at |-> "over", wallet |-> @.wallet, tried |-> @.tried,
                                    failed |-> failed, first |-> @.first]]
  /\ lastRun' = IF failed THEN "failed" ELSE "succeeded"
  /\ job' = [job EXCEPT !.running = FALSE, !.timer = @ \/ cycle[k].first]
  /\ UNCHANGED <<now, summary, promise, snapshots, requests>>

\* listWalletsForSnapshotJob; without the list there is no cycle.
ListWallets(k) ==
  /\ cycle[k].at = "listing"
  /\ cycle' = [cycle EXCEPT ![k].at = "next", ![k].wallet = 1]
  /\ UNCHANGED <<now, summary, promise, job, lastRun, snapshots, requests>>

ListFails(k) == cycle[k].at = "listing" /\ End(k, TRUE)

\* The next wallet: the summary is kept, or waited for.
TakeWallet(k) ==
  LET w == cycle[k].wallet IN
  /\ cycle[k].at = "next" /\ w <= NumWallets
  /\ IF Fresh(w)
     THEN cycle' = [cycle EXCEPT ![k] = Captured(k, summary[w].value)] /\ UNCHANGED promise
     ELSE cycle' = [cycle EXCEPT ![k].at = "waiting"] /\ promise' = Shared(w)
  /\ UNCHANGED <<now, summary, job, lastRun, snapshots, requests>>

\* insertWalletPortfolioSnapshot; it may fail, and it may fail with the row there.
Insert(k) ==
  LET row == [wallet |-> cycle[k].wallet, value |-> cycle[k].value,
              captured |-> cycle[k].captured, cycle |-> k] IN
  /\ cycle[k].at = "inserting"
  /\ \E there, answered \in BOOLEAN :
       /\ answered => there
       /\ snapshots' = IF there THEN snapshots \union {row} ELSE snapshots
       /\ cycle' = [cycle EXCEPT ![k] =
            [at |-> "next", wallet |-> @.wallet + 1, tried |-> @.tried + 1,
             failed |-> @.failed \/ ~answered, first |-> @.first]]
  /\ UNCHANGED <<now, summary, promise, job, lastRun, requests>>

EndCycle(k) == cycle[k].at = "next" /\ cycle[k].wallet > NumWallets /\ End(k, cycle[k].failed)

----------------------------------------------------------------------------
(* The surroundings.                                                       *)

\* Calls under way are not later than they may be. An entry that has expired is deleted
\* when it is read; here, when it expires.
Tick ==
  /\ now < MaxTime
  /\ \A w \in Wallet : promise[w] # NoPromise => now < promise[w].asked + FetchTime
  /\ now' = now + 1
  /\ summary' = [w \in Wallet |->
       IF summary[w] # None /\ summary[w].expires <= now + 1 THEN None ELSE summary[w]]
  /\ UNCHANGED <<promise, job, lastRun, cycle, snapshots, requests>>

Next ==
  \/ Tick \/ StartJob \/ TimerFires
  \/ \E w \in Wallet : HoldingsSettle(w) \/ PositionsSettle(w) \/ AskPerformance({w})
  \/ AskPerformance(Wallet)
  \/ \E k \in Cycle : ListWallets(k) \/ ListFails(k) \/ TakeWallet(k) \/ Insert(k) \/ EndCycle(k)

Spec == Init /\ [][Next]_vars

----------------------------------------------------------------------------
(* Properties.                                                             *)

\* No snapshot counts a part of the wallet that was missing: its holdings and its
\* positions were all there, and asked for no longer ago than a summary takes and is
\* kept. Its total may still be too low, by the items that had no price. A cycle that
\* has its list tries every wallet once, whatever becomes of the others, and no other
\* cycle runs meanwhile; so a cycle leaves one snapshot of a wallet at most
\* (captureWalletPortfolioSnapshot, captureAllWalletPortfolioSnapshots, runCycle).
SnapshotsSound ==
  /\ \A s \in snapshots :
       /\ {s.value.holdings, s.value.positions} \subseteq {"complete", "underpriced"}
       /\ s.captured < s.value.asked + FetchTime + Ttl
       /\ \A t \in snapshots : t.wallet = s.wallet /\ t.cycle = s.cycle => t = s
  /\ \A k \in Cycle :
       /\ cycle[k].at = "over" => cycle[k].tried \in {0, NumWallets}
       /\ cycle[k].at \notin {"unused", "over"} =>
            \A j \in Cycle \ {k} : cycle[j].at \in {"unused", "over"}
----------------------------------------------------------------------------
(* Why SnapshotsSound holds: an invariant that every step keeps.           *)

SnapshotsAssumption ==
  /\ NumWallets \in Nat /\ MaxCycles \in Nat /\ MaxRequests \in Nat /\ MaxTime \in Nat
  /\ Ttl \in Nat \ {0} /\ PartialTtl \in Nat /\ FetchTime \in Nat

Entry == [value : Value, expires : Nat]
Promise == [at : {"running"}, holdings : Outcome \union {"pending", "failed"},
            positions : PositionsOutcome \union {"pending", "failed"}, asked : 0 .. MaxTime]
Work == [at : {"unused", "listing", "next", "waiting", "over"}, wallet : 0 .. NumWallets + 1,
         tried : 0 .. NumWallets, failed : BOOLEAN, first : BOOLEAN]
Inserting == [at : {"inserting"}, wallet : Wallet, tried : 0 .. NumWallets, failed : BOOLEAN,
              first : BOOLEAN, value : Value, captured : 0 .. MaxTime]
Row == [wallet : Wallet, value : Value, captured : 0 .. MaxTime, cycle : Cycle]

Types ==
  /\ now \in 0 .. MaxTime /\ requests \in 0 .. MaxRequests
  /\ summary \in [Wallet -> Entry \union {None}]
  /\ promise \in [Wallet -> Promise \union {NoPromise}]
  /\ job \in [started : BOOLEAN, timer : BOOLEAN, running : BOOLEAN]
  /\ lastRun \in {"none", "succeeded", "failed"}
  /\ cycle \in [Cycle -> Work \union Inserting]
  /\ snapshots \subseteq Row

\* What was asked for then is still good enough for a snapshot at the time t.
Young(v, t) == t < v.asked + FetchTime + Ttl

\* What is under way is not late, and what is kept goes when it is too old.
Aged ==
  \A w \in Wallet :
    /\ summary[w] # None /\ ~IsPartial(summary[w].value) =>
         summary[w].expires <= summary[w].value.asked + FetchTime + Ttl
    /\ promise[w] # NoPromise =>
         promise[w].asked <= now /\ now <= promise[w].asked + FetchTime

\* A cycle tried the wallets before the one it is at.
Counted ==
  \A k \in Cycle :
    /\ cycle[k].at \in {"unused", "listing"} => cycle[k].tried = 0
    /\ cycle[k].at \in {"next", "waiting", "inserting"} => cycle[k].wallet = cycle[k].tried + 1
    /\ cycle[k].at \in {"waiting", "inserting"} => cycle[k].wallet \in Wallet
    /\ cycle[k].at = "over" => cycle[k].tried \in {0, NumWallets}

Runs(k) == cycle[k].at \notin {"unused", "over"}

\* The flag of the job is up while a cycle runs, and one cycle runs at most.
Alone == \A k \in Cycle : Runs(k) => job.running /\ \A j \in Cycle \ {k} : ~Runs(j)

\* What a cycle inserts, and inserted, was not partial and young; a cycle that runs has
\* rows of the wallets before the one it is at.
Recorded ==
  /\ \A k \in Cycle : cycle[k].at = "inserting" =>
       ~IsPartial(cycle[k].value) /\ Young(cycle[k].value, cycle[k].captured)
  /\ \A s \in snapshots :
       /\ ~IsPartial(s.value) /\ Young(s.value, s.captured)
       /\ cycle[s.cycle].at \notin {"unused", "listing"}
       /\ Runs(s.cycle) => s.wallet < cycle[s.cycle].wallet
  /\ \A s, t \in snapshots : t.wallet = s.wallet /\ t.cycle = s.cycle => t = s

SnapshotsInv == Types /\ Aged /\ Counted /\ Alone /\ Recorded
=============================================================================
