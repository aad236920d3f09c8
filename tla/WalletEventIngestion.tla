------------------------ MODULE WalletEventIngestion ------------------------
(***************************************************************************)
(* How transfers on the chain become wallet_events rows and outbox jobs.   *)
(* Two sources write the same table: Alchemy's webhook, redelivered until  *)
(* it is answered with 202 (webhooks/alchemy.service.js), and the polling  *)
(* tracker with its persisted cursor (ethereum/ethereum.tracker.js). Both  *)
(* insert event by event, each with its alert decision in one transaction, *)
(* under the unique index on an event's identity (events.repository.js).   *)
(*                                                                         *)
(* An action is one transaction or statement, or the provider requests     *)
(* about one range of confirmed blocks, which no longer change. Blocks the *)
(* chain may still reorganise are not modelled, nor is the valuation that  *)
(* the alert decision depends on: the decision is a free choice.           *)
(***************************************************************************)
EXTENDS Integers, FiniteSets, FiniteSetsExt

CONSTANTS
  Wallet,         \* wallet ids, never used again after a deletion
  Event,          \* transfers, as seen by one wallet
  WalletOf,       \* the wallet of an event
  BlockOf,        \* the block of an event
  Malformed,      \* events whose log the tracker cannot decode
  Omissible,      \* events a range may be scanned without, see FetchRange
  Tracker,        \* tracker processes
  Handler,        \* webhook requests handled at the same time
  MaxBlock,       \* bound: the last block of the chain
  Confirmations,  \* ETHEREUM_CONFIRMATIONS
  BatchSize,      \* ETHEREUM_BATCH_SIZE
  StartBlock,     \* ETHEREUM_START_BLOCK of each tracker
  ResetCursor,    \* trackers with ETHEREUM_RESET_SYNC_CURSOR
  InitialCursor,  \* the cursor stored by an earlier deployment, or NoCursor
  Faults,         \* which failures of FaultKinds this instance suffers
  MaxFailures     \* bound: how often trackers fail or crash

Block == 1 .. MaxBlock
NoCursor == -1
FaultKinds == {"provider", "database", "crash", "answer", "logs"}

ASSUME ConstantsAssumption ==
  /\ MaxBlock \in Nat \ {0}
  /\ IsFiniteSet(Wallet) /\ IsFiniteSet(Tracker)
  /\ WalletOf \in [Event -> Wallet]
  /\ BlockOf \in [Event -> Block]
  /\ Malformed \subseteq Event
  /\ Omissible \subseteq Event
  /\ Confirmations \in Nat
  /\ BatchSize \in Nat \ {0}
  /\ StartBlock \in [Tracker -> 0 .. MaxBlock]
  /\ ResetCursor \subseteq Tracker
  /\ InitialCursor \in Nat \union {NoCursor}
  /\ Faults \subseteq FaultKinds
  /\ MaxFailures \in Nat

VARIABLES
  head,       \* the chain's latest block
  wallet,     \* "new", "active" or "gone"
  store,      \* the wallet_events rows: "none", "silent" or, with a job, "alerted"
  cursor,     \* chain_sync_state.last_synced_block
  request,    \* the webhook requests being handled
  delivered,  \* the blocks whose webhook Alchemy saw answered
  tracker,    \* the polls
  answered,   \* history: events that a request normalised and answered for
  floor,      \* history: the blocks before a wallet's first complete poll
  alerts,     \* history: the jobs ever inserted for an event
  failures    \* history: how often a tracker failed or crashed

vars == <<head, wallet, store, cursor, request, delivered, tracker, answered, floor,
          alerts, failures>>

chainVars  == <<head, wallet>>
storeVars  == <<store, alerts>>
hookVars   == <<request, delivered, answered>>
pollVars   == <<tracker, cursor, floor, failures>>

-----------------------------------------------------------------------------

Active == {w \in Wallet : wallet[w] = "active"}
EventsOf(blocks, wallets) == {e \in Event : BlockOf[e] \in blocks /\ WalletOf[e] \in wallets}

NoRequest == [pc |-> "idle", block |-> 0, seen |-> {}, pending |-> {}]
NoPoll == [pc |-> "idle", wallets |-> {}, safe |-> 0, from |-> 0, pending |-> {}]
Off == [NoPoll EXCEPT !.pc = "off"]

\* A poll that has read its wallets misses those added later, up to its last block.
Polling == {k \in Tracker : tracker[k].pc \notin {"off", "idle"}}
PollEnds == {tracker[k].safe : k \in Polling}

StartBlocks == {StartBlock[k] : k \in Tracker}

BatchEnd(k) == Min({tracker[k].from + BatchSize - 1, tracker[k].safe})

Init ==
  /\ head = Max({0, InitialCursor})
  /\ wallet = [w \in Wallet |-> "new"]
  /\ store = [e \in Event |-> "none"]
  /\ cursor = InitialCursor
  /\ request = [h \in Handler |-> NoRequest]
  /\ delivered = {}
  /\ tracker = [k \in Tracker |-> Off]
  /\ answered = {}
  /\ floor = [w \in Wallet |-> 0]
  /\ alerts = [e \in Event |-> 0]
  /\ failures = 0

-----------------------------------------------------------------------------
(* The chain and the wallets.                                              *)

MineBlock ==
  /\ head < MaxBlock
  /\ head' = head + 1
  /\ UNCHANGED <<wallet, storeVars, hookVars, pollVars>>

AddWallet(w) ==
  /\ wallet[w] = "new"
  /\ wallet' = [wallet EXCEPT ![w] = "active"]
  /\ floor' = [floor EXCEPT ![w] = Max({cursor} \union PollEnds \union StartBlocks)]
  /\ UNCHANGED <<head, storeVars, hookVars, tracker, cursor, failures>>

\* Deleting a wallet deletes its events and their jobs.
RemoveWallet(w) ==
  /\ wallet[w] = "active"
  /\ wallet' = [wallet EXCEPT ![w] = "gone"]
  /\ store' = [e \in Event |-> IF WalletOf[e] = w THEN "none" ELSE store[e]]
  /\ UNCHANGED <<head, alerts, hookVars, pollVars>>

-----------------------------------------------------------------------------
(* insertWalletEvents, one event: insert it unless its identity exists,    *)
(* decide on its alert, insert the job, commit.                            *)

Insertable(e) == WalletOf[e] \in Active

\* A mutated form: without ON CONFLICT DO NOTHING's answer, every insertion alerts.
InsertEventAgain(e) ==
  /\ store' = [store EXCEPT ![e] = "alerted"]
  /\ alerts' = [alerts EXCEPT ![e] = @ + 1]

InsertEvent(e) ==
  IF store[e] # "none"
  THEN UNCHANGED storeVars
  ELSE \E decision \in {"silent", "alerted"} :
         /\ store' = [store EXCEPT ![e] = decision]
         /\ alerts' = [alerts EXCEPT ![e] = IF decision = "alerted" THEN @ + 1 ELSE @]

-----------------------------------------------------------------------------
(* handleAlchemyWebhook.                                                   *)

\* Alchemy reports the transfers of a block until it sees them answered. The
\* handler keeps those of the wallets tracked when it looks.
ReceiveWebhook(h, b) ==
  LET seen == EventsOf({b}, Active)
  IN  /\ request[h].pc = "idle"
      /\ b <= head
      /\ b \notin delivered
      /\ request' = [request EXCEPT ![h] =
           [pc |-> "insert", block |-> b, seen |-> seen, pending |-> seen]]
      /\ UNCHANGED <<chainVars, storeVars, delivered, answered, pollVars>>

RequestInserts(h, e) ==
  /\ e \in request[h].pending
  /\ Insertable(e)
  /\ InsertEvent(e)
  /\ request' = [request EXCEPT ![h].pending = @ \ {e}]
  /\ UNCHANGED <<chainVars, delivered, answered, pollVars>>

\* The wallet is gone (its foreign key), the database fails or the process dies:
\* the rest of the request is lost and Alchemy gets no 202.
RequestFails(h) ==
  /\ request[h].pc = "insert"
  /\ \/ \E e \in request[h].pending : ~Insertable(e)
     \/ Faults \intersect {"database", "crash"} # {}
  /\ request' = [request EXCEPT ![h] = NoRequest]
  /\ UNCHANGED <<chainVars, storeVars, delivered, answered, pollVars>>

\* A mutated form: answer before the events are inserted.
RespondFirst(h) ==
  /\ request[h].pc = "insert"
  /\ answered' = answered \union request[h].seen
  /\ delivered' = delivered \union {request[h].block}
  /\ request' = [request EXCEPT ![h] = NoRequest]
  /\ UNCHANGED <<chainVars, storeVars, pollVars>>

\* The 202 may get lost, and the webhook is delivered again.
Respond(h) ==
  /\ request[h].pc = "insert"
  /\ request[h].pending = {}
  /\ answered' = answered \union request[h].seen
  /\ \/ delivered' = delivered \union {request[h].block}
     \/ "answer" \in Faults /\ delivered' = delivered
  /\ request' = [request EXCEPT ![h] = NoRequest]
  /\ UNCHANGED <<chainVars, storeVars, pollVars>>

-----------------------------------------------------------------------------
(* pollOnce.                                                               *)

StartTracker(k) ==
  /\ tracker[k].pc = "off"
  /\ tracker' = [tracker EXCEPT ![k] = NoPoll]
  /\ cursor' = IF k \in ResetCursor THEN NoCursor ELSE cursor
  /\ UNCHANGED <<chainVars, storeVars, hookVars, floor, failures>>

ListWallets(k) ==
  /\ tracker[k].pc = "idle"
  /\ Active # {}
  /\ tracker' = [tracker EXCEPT ![k] = [NoPoll EXCEPT !.pc = "latest", !.wallets = Active]]
  /\ UNCHANGED <<chainVars, storeVars, hookVars, cursor, floor, failures>>

\* A mutated form: one confirmation too many.
ReadLatestLate(k) ==
  /\ tracker[k].pc = "latest"
  /\ tracker' = [tracker EXCEPT ![k].pc = "start", ![k].safe = head - Confirmations - 1]
  /\ floor' = [w \in Wallet |->
       IF w \in Active \ tracker[k].wallets THEN Max({floor[w], head - Confirmations - 1})
       ELSE floor[w]]
  /\ UNCHANGED <<chainVars, storeVars, hookVars, cursor, failures>>

ReadLatest(k) ==
  LET safe == head - Confirmations
      late == Active \ tracker[k].wallets
  IN  /\ tracker[k].pc = "latest"
      /\ tracker' = [tracker EXCEPT ![k].pc = "start", ![k].safe = safe]
      /\ floor' = [w \in Wallet |-> IF w \in late THEN Max({floor[w], safe}) ELSE floor[w]]
      /\ UNCHANGED <<chainVars, storeVars, hookVars, cursor, failures>>

StartingBlock(k) ==
  CASE StartBlock[k] > 0 -> StartBlock[k]
    [] StartBlock[k] = 0 /\ cursor # NoCursor -> cursor
    [] OTHER -> Max({0, head - Confirmations})

ChooseStart(k) ==
  /\ tracker[k].pc = "start"
  /\ tracker' = [tracker EXCEPT ![k] =
       IF @.safe <= StartingBlock(k) THEN NoPoll
       ELSE [@ EXCEPT !.pc = "fetch", !.from = StartingBlock(k) + 1]]
  /\ UNCHANGED <<chainVars, storeVars, hookVars, cursor, floor, failures>>

\* Logs, then the receipts of transactions from or to a tracked address, which
\* recover what the provider's log index omitted, then native transfers. Events of
\* other transactions, or whose receipt or transaction is answered with null, can
\* stay omitted. A log that cannot be decoded, or whose block cannot be read while it
\* is, is dropped: the poll writes that to its log and goes on, past the transfer.
FetchRange(k) ==
  LET range == EventsOf(tracker[k].from .. BatchEnd(k), tracker[k].wallets) \ Malformed
  IN  /\ tracker[k].pc = "fetch"
      /\ \E omitted \in SUBSET (range \intersect Omissible) :
           /\ omitted # {} => "logs" \in Faults
           /\ tracker' = [tracker EXCEPT ![k].pc = "insert", ![k].pending = range \ omitted]
      /\ UNCHANGED <<chainVars, storeVars, hookVars, cursor, floor, failures>>

TrackerInserts(k, e) ==
  /\ e \in tracker[k].pending
  /\ Insertable(e)
  /\ InsertEvent(e)
  /\ tracker' = [tracker EXCEPT ![k].pending = @ \ {e}]
  /\ UNCHANGED <<chainVars, hookVars, cursor, floor, failures>>

\* A mutated form: the first range saves the cursor of the whole poll.
AdvanceToSafe(k) ==
  /\ tracker[k].pc = "insert"
  /\ tracker[k].pending = {}
  /\ cursor' = tracker[k].safe
  /\ tracker' = [tracker EXCEPT ![k] =
       IF BatchEnd(k) = @.safe THEN NoPoll
       ELSE [@ EXCEPT !.pc = "fetch", !.from = BatchEnd(k) + 1]]
  /\ UNCHANGED <<chainVars, storeVars, hookVars, floor, failures>>

AdvanceCursor(k) ==
  /\ tracker[k].pc = "insert"
  /\ tracker[k].pending = {}
  /\ cursor' = BatchEnd(k)
  /\ tracker' = [tracker EXCEPT ![k] =
       IF BatchEnd(k) = @.safe THEN NoPoll
       ELSE [@ EXCEPT !.pc = "fetch", !.from = BatchEnd(k) + 1]]
  /\ UNCHANGED <<chainVars, storeVars, hookVars, floor, failures>>

TrackerFails ==
  /\ failures < MaxFailures
  /\ failures' = failures + 1

\* A mutated form: a failed poll leaves what it fetched.
PollFailsKeeps(k) ==
  /\ tracker[k].pc \notin {"off", "idle"}
  /\ Faults \intersect {"provider", "database"} # {}
  /\ TrackerFails
  /\ tracker' = [tracker EXCEPT ![k].pc = "idle"]
  /\ UNCHANGED <<chainVars, storeVars, hookVars, cursor, floor>>

\* A request or a statement fails: the poll ends and the cursor stays where the last
\* complete range left it. PollFindsNoWallet is the foreign key of an event whose
\* wallet was deleted since the poll began.
PollFails(k) ==
  /\ tracker[k].pc \notin {"off", "idle"}
  /\ Faults \intersect {"provider", "database"} # {}
  /\ TrackerFails
  /\ tracker' = [tracker EXCEPT ![k] = NoPoll]
  /\ UNCHANGED <<chainVars, storeVars, hookVars, cursor, floor>>

PollFindsNoWallet(k) ==
  /\ \E e \in tracker[k].pending : ~Insertable(e)
  /\ tracker' = [tracker EXCEPT ![k] = NoPoll]
  /\ UNCHANGED <<chainVars, storeVars, hookVars, cursor, floor, failures>>

CrashTracker(k) ==
  /\ "crash" \in Faults
  /\ tracker[k].pc # "off"
  /\ TrackerFails
  /\ tracker' = [tracker EXCEPT ![k] = Off]
  /\ UNCHANGED <<chainVars, storeVars, hookVars, cursor, floor>>

-----------------------------------------------------------------------------

RequestStep(h) == (\E e \in Event : RequestInserts(h, e)) \/ Respond(h)

PollStep(k) ==
  \/ StartTracker(k) \/ ListWallets(k) \/ ReadLatest(k) \/ ChooseStart(k)
  \/ FetchRange(k) \/ (\E e \in Event : TrackerInserts(k, e)) \/ PollFindsNoWallet(k)
  \/ AdvanceCursor(k)

Next ==
  \/ MineBlock
  \/ \E w \in Wallet : AddWallet(w) \/ RemoveWallet(w)
  \/ \E h \in Handler : (\E b \in Block : ReceiveWebhook(h, b)) \/ RequestStep(h) \/ RequestFails(h)
  \/ \E k \in Tracker : PollStep(k) \/ PollFails(k) \/ CrashTracker(k)

Spec == Init /\ [][Next]_vars

\* Blocks are mined, trackers are started again and poll on a timer, requests are
\* worked off. A poll or request that meets a deleted wallet fails. Nothing obliges
\* an account to act or Alchemy to deliver.
Fairness ==
  /\ WF_vars(MineBlock)
  /\ \A k \in Tracker : WF_vars(PollStep(k))
  /\ \A h \in Handler : WF_vars(RequestStep(h) \/ RequestFails(h))

FairSpec == Spec /\ Fairness

-----------------------------------------------------------------------------
(* Correctness.                                                            *)

RequestState ==
  {NoRequest} \union
  [pc : {"insert"}, block : Block, seen : SUBSET Event, pending : SUBSET Event]

PollState ==
  {Off, NoPoll} \union
  [pc : {"latest", "start", "fetch", "insert"}, wallets : SUBSET Wallet,
   safe : Int, from : Nat, pending : SUBSET Event]

\* Every variable holds a value of its type; a request or poll that is over keeps
\* nothing for the next one.
TypeOK ==
  /\ head \in Nat
  /\ wallet \in [Wallet -> {"new", "active", "gone"}]
  /\ store \in [Event -> {"none", "silent", "alerted"}]
  /\ cursor \in Int
  /\ request \in [Handler -> RequestState]
  /\ delivered \subseteq Block
  /\ tracker \in [Tracker -> PollState]
  /\ answered \subseteq Event
  /\ floor \in [Wallet -> Int]
  /\ alerts \in [Event -> Nat]
  /\ failures \in 0 .. MaxFailures

\* The transfers the tracker undertakes to store: of a wallet that exists, after
\* the polls that were under way when it was added, and not in a log that the
\* provider leaves out or the tracker drops.
Covered(e) ==
  /\ WalletOf[e] \in Active
  /\ BlockOf[e] > floor[WalletOf[e]]
  /\ e \notin Malformed
  /\ "logs" \in Faults => e \notin Omissible

\* The stored cursor never passes a transfer that is not stored, whatever fails
\* between fetching a range and advancing past it, and with several trackers.
CursorPassesNothing ==
  \A e \in Event : Covered(e) /\ BlockOf[e] <= cursor => store[e] # "none"

\* A webhook is answered with success only when every transfer it carried to a
\* tracked wallet is stored, so that what failed half way is delivered again.
AnsweredIsStored ==
  \A e \in answered : WalletOf[e] \in Active => store[e] # "none"

\* However often a transfer arrives, from whatever source and after whatever
\* failure, it is alerted at most once, and only with its event.
AlertedOnce ==
  \A e \in Event :
    /\ alerts[e] <= 1
    /\ WalletOf[e] \in Active => (store[e] = "alerted") = (alerts[e] = 1)

\* Every transfer in a confirmed block is stored at last: trackers fail MaxFailures
\* times at most, and what a failed poll left out is scanned again.
ConfirmedIsStored ==
  \A e \in Event :
    (Covered(e) /\ BlockOf[e] <= head - Confirmations) ~> (store[e] # "none" \/ ~Covered(e))

\* README.md:109, "The Ethereum polling tracker remains available only for fallback,
\* debugging, or local recovery workflows": a tracker that has polled, and finds a
\* later block confirmed, gets to scan it.
PollingGetsGoing ==
  \A b \in Block :
    (\E k \in Tracker : tracker[k].pc = "start" /\ tracker[k].safe = b)
      ~> (cursor # NoCursor \/ Active = {} \/ head - Confirmations <= b)

-----------------------------------------------------------------------------
(* The invariant the proofs rest on.                                       *)

\* No block is ever later.
Horizon == IF InitialCursor > MaxBlock THEN InitialCursor ELSE MaxBlock

\* A poll that knows where it ends, and one that knows where it is.
Scanning == {k \in Tracker : tracker[k].pc \in {"start", "fetch", "insert"}}
Ranging == {k \in Tracker : tracker[k].pc \in {"fetch", "insert"}}

PollsConfirmed ==
  /\ head <= Horizon /\ NoCursor <= cursor /\ cursor <= Horizon
  /\ \A k \in Tracker : tracker[k].safe <= Horizon
  /\ \A k \in Scanning : tracker[k].safe <= head - Confirmations
  /\ \A k \in Ranging : tracker[k].from <= tracker[k].safe

\* Nothing is known of a wallet before it is added.
NewIsUnknown ==
  /\ \A e \in Event : wallet[WalletOf[e]] = "new" => store[e] = "none" /\ alerts[e] = 0
  /\ \A e \in answered : wallet[WalletOf[e]] # "new"
  /\ \A h \in Handler : \A e \in request[h].seen : wallet[WalletOf[e]] # "new"

\* What a request has seen is stored or still to insert.
RequestsKeepTrack ==
  \A h \in Handler : \A e \in request[h].seen :
    WalletOf[e] \in Active => e \in request[h].pending \/ store[e] # "none"

\* The floor of a wallet is above whatever could have passed it unseen.
FloorsHold ==
  /\ \A w \in Active : \A k \in Tracker : StartBlock[k] <= floor[w]
  /\ \A k \in Scanning : \A w \in Active \ tracker[k].wallets : tracker[k].safe <= floor[w]

\* A poll leaves nothing behind its range, and has its range stored or pending.
PollsKeepTrack ==
  \A e \in Event : Covered(e) /\ store[e] = "none" =>
    /\ \A k \in Ranging : tracker[k].from <= BlockOf[e]
    /\ \A k \in Tracker : tracker[k].pc = "insert" /\ BlockOf[e] <= BatchEnd(k) =>
         e \in tracker[k].pending

IngestionInv ==
  /\ TypeOK /\ PollsConfirmed /\ NewIsUnknown /\ RequestsKeepTrack /\ AnsweredIsStored
  /\ AlertedOnce /\ FloorsHold /\ PollsKeepTrack /\ CursorPassesNothing
=============================================================================
