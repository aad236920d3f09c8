---------------------- MODULE WalletEventIngestionProofs ----------------------
(***************************************************************************)
(* Theorems about WalletEventIngestion, for any wallets, transfers,        *)
(* trackers and requests, any settings of the trackers and any failures.   *)
(***************************************************************************)
EXTENDS WalletEventIngestion, WellFoundedInduction, TLAPS

-----------------------------------------------------------------------------
(* Numbers.                                                                *)

\* A set of integers that is bounded has a maximum.
LEMMA MaxOfBounded ==
  ASSUME NEW S \in SUBSET Int, NEW b \in Int, S # {}, \A x \in S : x <= b
  PROVE  Max(S) \in S /\ \A x \in S : x <= Max(S)
<1> DEFINE Below == {b - x : x \in S}
<1>1. ASSUME NEW x \in S PROVE b - x \in Nat /\ b - x \in Below
  BY <1>1
<1>2. Below \subseteq Nat /\ Below # {}
  BY <1>1
<1>3. OpToRel(<, Nat) = {ss \in Nat \X Nat : ss[1] < ss[2]}
  BY DEF OpToRel
<1>4. PICK least \in Below : \A u \in Below : ~ (<<u, least>> \in OpToRel(<, Nat))
  <2> HIDE DEF Below
  <2> QED
    BY <1>2, WFMin, NatLessThanWellFounded
<1>5. \A u \in Below : least <= u
  <2> HIDE DEF Below
  <2> TAKE u \in Below
  <2>1. u \in Nat /\ least \in Nat /\ ~ (<<u, least>> \in OpToRel(<, Nat))
    BY <1>2, <1>4
  <2>2. u \in Nat /\ least \in Nat
    BY <2>1
  <2>3. ~ (u < least)
    BY <2>1, <1>3
  <2> QED
    BY ONLY <2>2, <2>3
<1>6. PICK m \in S : least = b - m
  OBVIOUS
<1>7. \A x \in S : m >= x
  <2> TAKE x \in S
  <2>1. least <= b - x
    BY <1>1, <1>5
  <2>2. x \in Int /\ m \in Int
    OBVIOUS
  <2> QED
    BY ONLY <2>1, <2>2, <1>6, b \in Int
<1> QED
  BY <1>7 DEF Max

LEMMA MaxOfTwo ==
  ASSUME NEW a \in Int, NEW b \in Int
  PROVE  Max({a, b}) \in {a, b} /\ a <= Max({a, b}) /\ b <= Max({a, b})
<1> DEFINE S == {a, b}
           top == IF a <= b THEN b ELSE a
<1>1. S \in SUBSET Int /\ S # {} /\ top \in Int /\ \A x \in S : x <= top
  OBVIOUS
<1>2. Max(S) \in S /\ \A x \in S : x <= Max(S)
  <2> HIDE DEF S, top
  <2> QED
    BY <1>1, MaxOfBounded
<1> QED
  BY <1>2

LEMMA MinOfTwo ==
  ASSUME NEW a \in Int, NEW b \in Int
  PROVE  Min({a, b}) = IF a <= b THEN a ELSE b
<1> DEFINE m == IF a <= b THEN a ELSE b
<1>1. m \in {a, b} /\ \A y \in {a, b} : m =< y
  OBVIOUS
<1>2. \A x \in {a, b} : (\A y \in {a, b} : x =< y) => x = m
  OBVIOUS
<1> HIDE DEF m
<1> QED
  BY <1>1, <1>2 DEF Min, m

\* Where the range of a poll ends.
LEMMA RangeEnds ==
  ASSUME TypeOK, NEW k \in Tracker
  PROVE  /\ BatchEnd(k) \in Int
         /\ BatchEnd(k) <= tracker[k].safe
         /\ tracker[k].from <= tracker[k].safe => tracker[k].from <= BatchEnd(k)
<1>1. tracker[k].safe \in Int /\ tracker[k].from \in Int
  BY DEF TypeOK, PollState, Off, NoPoll
<1>2. BatchSize \in Nat \ {0}
  BY ConstantsAssumption
<1>3. BatchEnd(k) = IF tracker[k].from + BatchSize - 1 <= tracker[k].safe
                    THEN tracker[k].from + BatchSize - 1 ELSE tracker[k].safe
  BY <1>1, <1>2, MinOfTwo DEF BatchEnd
<1> QED
  BY ONLY <1>1, <1>2, <1>3

LEMMA HorizonType == Horizon \in Nat /\ \A k \in Tracker : StartBlock[k] \in Nat /\ StartBlock[k] <= Horizon
  BY ConstantsAssumption DEF Horizon, NoCursor

-----------------------------------------------------------------------------
(* The beginning.                                                          *)

LEMMA InitInv == Init => IngestionInv
<1> SUFFICES ASSUME Init PROVE IngestionInv
  OBVIOUS
<1> USE ConstantsAssumption
<1>1. InitialCursor \in Int /\ head \in {0, InitialCursor} /\ 0 <= head /\ InitialCursor <= head
  <2>1. InitialCursor \in Int
    BY DEF NoCursor
  <2>2. head = Max({0, InitialCursor})
    BY DEF Init
  <2>3. ASSUME NEW b \in Int
        PROVE  Max({0, b}) \in {0, b} /\ 0 <= Max({0, b}) /\ b <= Max({0, b})
    <3>1. 0 \in Int
      OBVIOUS
    <3> QED
      BY ONLY <2>3, <3>1, MaxOfTwo, Zenon
  <2>4. /\ Max({0, InitialCursor}) \in {0, InitialCursor} /\ 0 <= Max({0, InitialCursor})
        /\ InitialCursor <= Max({0, InitialCursor})
    BY ONLY <2>1, <2>3, Zenon
  <2> QED
    BY ONLY <2>1, <2>2, <2>4
<1>2. head \in Nat /\ head <= Horizon /\ NoCursor <= InitialCursor /\ InitialCursor <= Horizon
  BY <1>1 DEF Horizon, NoCursor
<1>3. \A k \in Tracker : tracker[k] = Off /\ tracker[k].pc = "off" /\ tracker[k].safe = 0
  BY DEF Init, Off, NoPoll
<1>4. TypeOK
  BY <1>1, <1>2 DEF TypeOK, Init, RequestState, PollState
<1>5. PollsConfirmed
  BY <1>2, <1>3, HorizonType DEF Init, PollsConfirmed, Scanning, Ranging
<1>6. Active = {} /\ \A h \in Handler : request[h].seen = {}
  BY DEF Init, Active, NoRequest
<1>7. NewIsUnknown
  BY <1>6 DEF Init, NewIsUnknown
<1>8. RequestsKeepTrack /\ AnsweredIsStored
  BY <1>6 DEF Init, RequestsKeepTrack, AnsweredIsStored
<1>9. AlertedOnce
  BY DEF Init, AlertedOnce
<1>10. FloorsHold
  BY <1>3, <1>6 DEF FloorsHold, Scanning
<1>11. PollsKeepTrack /\ CursorPassesNothing
  BY <1>6 DEF PollsKeepTrack, CursorPassesNothing, Covered
<1> QED
  BY <1>4, <1>5, <1>7, <1>8, <1>9, <1>10, <1>11 DEF IngestionInv

-----------------------------------------------------------------------------
(* What a step leaves alone stays as it should be.                         *)

\* Inserting an event forgets none, and counts its alert.
LEMMA Inserted ==
  ASSUME IngestionInv, NEW e \in Event, Insertable(e), InsertEvent(e)
  PROVE  /\ store' \in [Event -> {"none", "silent", "alerted"}]
         /\ alerts' \in [Event -> Nat]
         /\ store'[e] # "none"
         /\ \A f \in Event : store[f] # "none" => store'[f] = store[f]
         /\ \A f \in Event \ {e} : store'[f] = store[f] /\ alerts'[f] = alerts[f]
         /\ alerts'[e] <= 1 /\ (store'[e] = "alerted" <=> alerts'[e] = 1)
<1> USE DEF IngestionInv, TypeOK
<1>1. alerts[e] \in Nat /\ alerts[e] <= 1 /\ (store[e] = "alerted" <=> alerts[e] = 1)
  BY DEF AlertedOnce, Insertable
<1>2. CASE store[e] # "none"
  BY <1>1, <1>2 DEF InsertEvent, storeVars
<1>3. CASE store[e] = "none"
  <2>1. PICK decision \in {"silent", "alerted"} :
          /\ store' = [store EXCEPT ![e] = decision]
          /\ alerts' = [alerts EXCEPT ![e] = IF decision = "alerted" THEN @ + 1 ELSE @]
    BY <1>3 DEF InsertEvent
  <2>2. alerts[e] = 0
    BY <1>1, <1>3
  <2> QED
    BY <1>3, <2>1, <2>2
<1> QED
  BY <1>2, <1>3

\* While no wallet and no request changes, a store that only grows keeps what requests
\* are answered for.
LEMMA HooksKept ==
  ASSUME IngestionInv, UNCHANGED <<wallet, request, answered>>,
         \/ UNCHANGED <<store, alerts>>
         \/ \E e \in Event : Insertable(e) /\ InsertEvent(e)
  PROVE  NewIsUnknown' /\ RequestsKeepTrack' /\ AnsweredIsStored' /\ AlertedOnce'
<1> USE DEF IngestionInv, TypeOK
<1>1. CASE UNCHANGED <<store, alerts>>
  BY <1>1 DEF NewIsUnknown, RequestsKeepTrack, AnsweredIsStored, AlertedOnce, Active
<1>2. ASSUME NEW e \in Event, Insertable(e), InsertEvent(e)
      PROVE  NewIsUnknown' /\ RequestsKeepTrack' /\ AnsweredIsStored' /\ AlertedOnce'
  <2>1. /\ store'[e] # "none"
        /\ \A f \in Event : store[f] # "none" => store'[f] = store[f]
        /\ \A f \in Event \ {e} : store'[f] = store[f] /\ alerts'[f] = alerts[f]
        /\ alerts'[e] <= 1 /\ (store'[e] = "alerted" <=> alerts'[e] = 1)
    BY <1>2, Inserted
  <2>2. wallet[WalletOf[e]] = "active"
    BY <1>2 DEF Insertable, Active
  <2>3. NewIsUnknown'
    BY <2>1, <2>2 DEF NewIsUnknown
  <2>4. RequestsKeepTrack' /\ AnsweredIsStored'
    <3>1. \A h \in Handler : request[h].seen \subseteq Event
      BY DEF RequestState, NoRequest
    <3>2. \A f \in Event : store[f] # "none" => store'[f] # "none"
      BY <2>1
    <3>3. RequestsKeepTrack'
      BY <3>1, <3>2 DEF RequestsKeepTrack, Active
    <3>4. AnsweredIsStored'
      BY <3>2 DEF AnsweredIsStored, Active
    <3> QED
      BY <3>3, <3>4
  <2>5. AlertedOnce'
    BY <2>1 DEF AlertedOnce, Active
  <2> QED
    BY <2>3, <2>4, <2>5
<1> QED
  BY <1>1, <1>2

\* While no tracker moves, a store that only grows keeps what the polls rely on.
LEMMA PollsKept ==
  ASSUME IngestionInv, UNCHANGED <<chainVars, pollVars>>,
         \A e \in Event : store[e] # "none" => store'[e] # "none"
  PROVE  PollsConfirmed' /\ FloorsHold' /\ PollsKeepTrack' /\ CursorPassesNothing'
<1> USE DEF IngestionInv, chainVars, pollVars
<1>1. PollsConfirmed'
  BY DEF PollsConfirmed, Scanning, Ranging
<1>2. FloorsHold'
  BY DEF FloorsHold, Scanning, Active
<1>3. \A e \in Event : Covered(e)' = Covered(e)
  BY DEF Covered, Active
<1>4. \A k \in Tracker : BatchEnd(k)' = BatchEnd(k)
  BY DEF BatchEnd
<1>5. PollsKeepTrack'
  BY <1>3, <1>4 DEF PollsKeepTrack, Ranging
<1>6. CursorPassesNothing'
  BY <1>3 DEF CursorPassesNothing
<1> QED
  BY <1>1, <1>2, <1>5, <1>6

-----------------------------------------------------------------------------
(* The chain, the wallets and the webhook keep the invariant.              *)

LEMMA MineBlockInv == ASSUME IngestionInv, MineBlock PROVE IngestionInv'
<1> USE DEF MineBlock, chainVars, storeVars, hookVars, pollVars
<1>1. head \in Nat /\ MaxBlock \in Nat /\ head' = head + 1 /\ head' <= MaxBlock
  BY ConstantsAssumption DEF IngestionInv, TypeOK
<1>2. TypeOK'
  BY <1>1 DEF IngestionInv, TypeOK
<1>3. PollsConfirmed'
  <2>1. head' <= Horizon
    BY <1>1, ConstantsAssumption DEF Horizon, NoCursor
  <2>2. ASSUME NEW k \in Scanning PROVE tracker[k].safe <= head' - Confirmations
    <3>1. tracker[k].safe \in Int /\ tracker[k].safe <= head - Confirmations
      BY DEF IngestionInv, TypeOK, PollState, Off, NoPoll, Scanning, PollsConfirmed
    <3> QED
      BY ONLY <1>1, <3>1, ConstantsAssumption
  <2> QED
    BY <2>1, <2>2 DEF IngestionInv, PollsConfirmed, Scanning, Ranging
<1>4. NewIsUnknown' /\ RequestsKeepTrack' /\ AnsweredIsStored' /\ AlertedOnce'
  BY HooksKept
<1>5. FloorsHold'
  BY DEF IngestionInv, FloorsHold, Scanning, Active
<1>6. PollsKeepTrack' /\ CursorPassesNothing'
  BY DEF IngestionInv, PollsKeepTrack, CursorPassesNothing, Covered, Active, BatchEnd, Ranging
<1> QED
  BY <1>2, <1>3, <1>4, <1>5, <1>6 DEF IngestionInv

\* A new wallet has no past, and its floor is above everything that could pass it unseen.
LEMMA AddWalletInv == ASSUME IngestionInv, NEW w \in Wallet, AddWallet(w) PROVE IngestionInv'
<1> USE DEF IngestionInv, AddWallet, storeVars, hookVars
<1> DEFINE passed == {cursor} \union PollEnds \union StartBlocks
<1>1. /\ passed \in SUBSET Int /\ passed # {} /\ Horizon \in Int
      /\ \A x \in passed : x <= Horizon
  <2>1. \A k \in Tracker : tracker[k].safe \in Int /\ tracker[k].safe <= Horizon
    BY DEF TypeOK, PollState, Off, NoPoll, PollsConfirmed
  <2>2. cursor \in Int /\ cursor <= Horizon
    BY DEF TypeOK, PollsConfirmed
  <2> QED
    BY <2>1, <2>2, HorizonType DEF PollEnds, StartBlocks, Polling
<1>2. Max(passed) \in Int /\ \A x \in passed : x <= Max(passed)
  <2> HIDE DEF passed
  <2> QED
    BY <1>1, MaxOfBounded
<1>3. /\ floor' = [floor EXCEPT ![w] = Max(passed)]
      /\ wallet' = [wallet EXCEPT ![w] = "active"]
      /\ wallet[w] = "new"
      /\ UNCHANGED <<head, store, alerts, request, delivered, answered, tracker, cursor, failures>>
  OBVIOUS
<1> HIDE DEF passed, AddWallet
<1>4. TypeOK'
  BY <1>2, <1>3 DEF TypeOK
<1>5. PollsConfirmed'
  BY <1>3 DEF PollsConfirmed, Scanning, Ranging
<1>6. Active' = Active \union {w} /\ w \notin Active
  BY <1>3 DEF Active, TypeOK
<1>7. \A e \in Event : WalletOf[e] = w => store[e] = "none" /\ alerts[e] = 0
  BY <1>3 DEF NewIsUnknown
<1>8. NewIsUnknown'
  BY <1>3 DEF NewIsUnknown, TypeOK
<1>9. RequestsKeepTrack' /\ AnsweredIsStored'
  <2>1. \A e \in answered : WalletOf[e] # w
    BY <1>3 DEF NewIsUnknown
  <2>2. \A h \in Handler : \A e \in request[h].seen : WalletOf[e] # w
    BY <1>3 DEF NewIsUnknown
  <2> QED
    BY <1>3, <1>6, <2>1, <2>2 DEF RequestsKeepTrack, AnsweredIsStored
<1>10. AlertedOnce'
  BY <1>3, <1>6, <1>7 DEF AlertedOnce
<1>11. \A k \in Tracker : StartBlock[k] <= Max(passed)
  BY <1>2 DEF passed, StartBlocks
<1>12. \A k \in Scanning : tracker[k].safe <= Max(passed)
  BY <1>2 DEF passed, PollEnds, Polling, Scanning
<1>13. cursor <= Max(passed)
  BY <1>2 DEF passed
<1>14. /\ floor'[w] = Max(passed)
       /\ \A v \in Wallet \ {w} : floor'[v] = floor[v]
  BY <1>3 DEF TypeOK
<1>15. FloorsHold'
  <2>1. \A v \in Active' : v \in Wallet /\ (v = w \/ v \in Active)
    BY <1>6 DEF Active
  <2>2. Scanning' = Scanning
    BY <1>3 DEF Scanning
  <2> QED
    BY <1>3, <1>6, <1>11, <1>12, <1>14, <2>1, <2>2 DEF FloorsHold
<1>16. \A e \in Event : Covered(e)' => \/ Covered(e)
                                      \/ BlockOf[e] > Max(passed)
  BY <1>6, <1>14, ConstantsAssumption DEF Covered
<1>17. PollsKeepTrack'
  <2> SUFFICES ASSUME NEW e \in Event, Covered(e)', store[e] = "none"
               PROVE  /\ \A k \in Ranging : tracker[k].from <= BlockOf[e]
                      /\ \A k \in Tracker : tracker[k].pc = "insert" /\ BlockOf[e] <= BatchEnd(k) =>
                           e \in tracker[k].pending
    BY <1>3 DEF PollsKeepTrack, Ranging, BatchEnd
  <2>1. CASE Covered(e)
    BY <2>1 DEF PollsKeepTrack
  <2>2. CASE BlockOf[e] > Max(passed)
    <3>1. BlockOf[e] \in Int
      BY ConstantsAssumption DEF Block
    <3>2. ASSUME NEW k \in Ranging
          PROVE  tracker[k].from < BlockOf[e] /\ BatchEnd(k) < BlockOf[e]
      <4>1. k \in Tracker /\ tracker[k].safe <= Max(passed) /\ tracker[k].from <= tracker[k].safe
        BY <1>12 DEF Ranging, Scanning, PollsConfirmed
      <4>2. tracker[k].safe \in Int /\ tracker[k].from \in Int
        BY <4>1 DEF TypeOK, PollState, Off, NoPoll
      <4>3. BatchEnd(k) \in Int /\ BatchEnd(k) <= tracker[k].safe
        BY <4>1, RangeEnds
      <4> QED
        BY ONLY <1>2, <2>2, <3>1, <4>1, <4>2, <4>3
    <3>3. ASSUME NEW k \in Ranging PROVE tracker[k].from <= BlockOf[e]
      <4>1. tracker[k].from \in Int
        BY DEF Ranging, TypeOK, PollState, Off, NoPoll
      <4> QED
        BY ONLY <3>1, <3>2, <3>3, <4>1
    <3>4. ASSUME NEW k \in Tracker, tracker[k].pc = "insert" PROVE ~ (BlockOf[e] <= BatchEnd(k))
      <4>1. k \in Ranging
        BY <3>4 DEF Ranging
      <4>2. BatchEnd(k) \in Int
        BY RangeEnds
      <4> QED
        BY ONLY <3>1, <3>2, <4>1, <4>2
    <3> QED
      BY <3>3, <3>4
  <2> QED
    BY <1>16, <2>1, <2>2
<1>18. CursorPassesNothing'
  <2> SUFFICES ASSUME NEW e \in Event, Covered(e)', BlockOf[e] <= cursor
               PROVE  store[e] # "none"
    BY <1>3 DEF CursorPassesNothing
  <2>1. cursor \in Int /\ BlockOf[e] \in Int
    BY ConstantsAssumption DEF TypeOK, Block
  <2>2. Covered(e)
    BY <1>2, <1>13, <1>16, <2>1
  <2> QED
    BY <2>2 DEF CursorPassesNothing
<1> QED
  BY <1>4, <1>5, <1>8, <1>9, <1>10, <1>15, <1>17, <1>18

\* Nothing is promised of a wallet that is gone.
LEMMA RemoveWalletInv == ASSUME IngestionInv, NEW w \in Wallet, RemoveWallet(w) PROVE IngestionInv'
<1> USE DEF IngestionInv, RemoveWallet, hookVars, pollVars
<1>1. Active' = Active \ {w}
  BY DEF Active, TypeOK
<1>2. \A e \in Event : WalletOf[e] # w => store'[e] = store[e]
  OBVIOUS
<1>3. TypeOK'
  BY DEF TypeOK
<1>4. PollsConfirmed'
  BY DEF PollsConfirmed, Scanning, Ranging
<1>5. NewIsUnknown'
  BY DEF NewIsUnknown, TypeOK
<1>6. RequestsKeepTrack' /\ AnsweredIsStored'
  <2>1. \A h \in Handler : request[h].seen \subseteq Event
    BY DEF TypeOK, RequestState, NoRequest
  <2>2. RequestsKeepTrack'
    BY <1>1, <1>2, <2>1 DEF RequestsKeepTrack
  <2>3. AnsweredIsStored'
    BY <1>1, <1>2 DEF AnsweredIsStored, TypeOK
  <2> QED
    BY <2>2, <2>3
<1>7. AlertedOnce'
  BY <1>1, <1>2 DEF AlertedOnce
<1>8. FloorsHold'
  BY <1>1 DEF FloorsHold, Scanning
<1>9. \A e \in Event : Covered(e)' => Covered(e) /\ store'[e] = store[e]
  BY <1>1, <1>2 DEF Covered
<1>10. PollsKeepTrack' /\ CursorPassesNothing'
  BY <1>9 DEF PollsKeepTrack, CursorPassesNothing, BatchEnd, Ranging
<1> QED
  BY <1>3, <1>4, <1>5, <1>6, <1>7, <1>8, <1>10

LEMMA WebhookInv ==
  ASSUME IngestionInv, NEW h \in Handler,
         (\E b \in Block : ReceiveWebhook(h, b)) \/ RequestStep(h) \/ RequestFails(h)
  PROVE  IngestionInv'
<1> USE DEF IngestionInv
<1>1. ASSUME NEW b \in Block, ReceiveWebhook(h, b) PROVE IngestionInv'
  <2> DEFINE seen == EventsOf({b}, Active)
             new == [pc |-> "insert", block |-> b, seen |-> seen, pending |-> seen]
  <2>1. request' = [request EXCEPT ![h] = new]
    BY <1>1 DEF ReceiveWebhook
  <2>2. UNCHANGED <<chainVars, storeVars, delivered, answered, pollVars>>
    BY <1>1 DEF ReceiveWebhook
  <2>3. new \in RequestState /\ new.seen = new.pending
    BY DEF RequestState, EventsOf
  <2>4. \A e \in new.seen : wallet[WalletOf[e]] # "new"
    BY DEF EventsOf, Active
  <2> HIDE DEF new
  <2>5. TypeOK'
    BY <2>1, <2>2, <2>3 DEF TypeOK, chainVars, storeVars, pollVars
  <2>6. NewIsUnknown'
    BY <2>1, <2>2, <2>4 DEF NewIsUnknown, TypeOK, chainVars, storeVars
  <2>7. RequestsKeepTrack'
    BY <2>1, <2>2, <2>3 DEF RequestsKeepTrack, TypeOK, chainVars, storeVars, Active
  <2>8. AnsweredIsStored' /\ AlertedOnce'
    BY <2>2 DEF AnsweredIsStored, AlertedOnce, chainVars, storeVars, Active
  <2>9. PollsConfirmed' /\ FloorsHold' /\ PollsKeepTrack' /\ CursorPassesNothing'
    BY <2>2, PollsKept DEF storeVars
  <2> QED
    BY <2>5, <2>6, <2>7, <2>8, <2>9
<1>2. ASSUME NEW e \in Event, RequestInserts(h, e) PROVE IngestionInv'
  <2>1. /\ e \in request[h].pending /\ Insertable(e) /\ InsertEvent(e)
        /\ request' = [request EXCEPT ![h].pending = @ \ {e}]
        /\ UNCHANGED <<chainVars, delivered, answered, pollVars>>
    BY <1>2 DEF RequestInserts
  <2>2. /\ store' \in [Event -> {"none", "silent", "alerted"}]
        /\ alerts' \in [Event -> Nat]
        /\ store'[e] # "none"
        /\ \A f \in Event : store[f] # "none" => store'[f] = store[f]
        /\ \A f \in Event \ {e} : store'[f] = store[f] /\ alerts'[f] = alerts[f]
        /\ alerts'[e] <= 1 /\ (store'[e] = "alerted" <=> alerts'[e] = 1)
    BY <2>1, Inserted
  <2>3. \A g \in Handler : /\ request'[g].seen = request[g].seen
                           /\ request[g].pending \ {e} \subseteq request'[g].pending
                           /\ request[g].seen \subseteq Event
    BY <2>1 DEF TypeOK, RequestState, NoRequest
  <2>4. TypeOK'
    <3>1. request[h].pending # {}
      BY <2>1
    <3>2. request[h] \in [pc : {"insert"}, block : Block, seen : SUBSET Event, pending : SUBSET Event]
      BY <3>1 DEF TypeOK, RequestState, NoRequest
    <3>3. request' \in [Handler -> RequestState]
      BY <2>1, <3>2 DEF TypeOK, RequestState
    <3> QED
      BY <2>1, <2>2, <3>3 DEF TypeOK, chainVars, pollVars
  <2>5. wallet[WalletOf[e]] = "active" /\ wallet' = wallet /\ answered' = answered
    BY <2>1 DEF Insertable, Active, chainVars
  <2>6. NewIsUnknown'
    BY <2>2, <2>3, <2>5 DEF NewIsUnknown
  <2>7. RequestsKeepTrack'
    <3> SUFFICES ASSUME NEW g \in Handler, NEW f \in request'[g].seen,
                        WalletOf[f] \in Active', f \notin request'[g].pending
                 PROVE  store'[f] # "none"
      BY DEF RequestsKeepTrack
    <3>1. f \in Event /\ f \in request[g].seen /\ WalletOf[f] \in Active
      BY <2>3, <2>5 DEF Active
    <3>2. CASE f = e
      BY <2>2, <3>2
    <3>3. CASE f # e
      BY <2>2, <2>3, <3>1, <3>3 DEF RequestsKeepTrack
    <3> QED
      BY <3>2, <3>3
  <2>8. AnsweredIsStored'
    BY <2>2, <2>5 DEF AnsweredIsStored, TypeOK, Active
  <2>9. AlertedOnce'
    BY <2>2, <2>5 DEF AlertedOnce, Active
  <2>10. PollsConfirmed' /\ FloorsHold' /\ PollsKeepTrack' /\ CursorPassesNothing'
    BY <2>1, <2>2, PollsKept
  <2> QED
    BY <2>4, <2>6, <2>7, <2>8, <2>9, <2>10
<1>3. ASSUME request' = [request EXCEPT ![h] = NoRequest],
             UNCHANGED <<chainVars, storeVars, pollVars>>,
             answered' \in {answered, answered \union request[h].seen},
             answered' = answered \/ request[h].pending = {},
             delivered' \subseteq Block
      PROVE  IngestionInv'
  <2>1. TypeOK'
    <3>1. request[h].seen \subseteq Event
      BY DEF TypeOK, RequestState, NoRequest
    <3> QED
      BY <1>3, <3>1 DEF TypeOK, RequestState, chainVars, storeVars, pollVars
  <2>2. \A e \in answered' : \/ e \in answered
                             \/ e \in request[h].seen /\ request[h].pending = {}
    BY <1>3
  <2>3. NewIsUnknown'
    BY <1>3, <2>2 DEF NewIsUnknown, NoRequest, TypeOK, chainVars, storeVars
  <2>4. RequestsKeepTrack'
    BY <1>3 DEF RequestsKeepTrack, NoRequest, TypeOK, chainVars, storeVars, Active
  <2>5. AnsweredIsStored'
    BY <1>3, <2>2 DEF AnsweredIsStored, RequestsKeepTrack, chainVars, storeVars, Active
  <2>6. AlertedOnce'
    BY <1>3 DEF AlertedOnce, chainVars, storeVars, Active
  <2>7. PollsConfirmed' /\ FloorsHold' /\ PollsKeepTrack' /\ CursorPassesNothing'
    BY <1>3, PollsKept DEF storeVars
  <2> QED
    BY <2>1, <2>3, <2>4, <2>5, <2>6, <2>7
<1>4. CASE Respond(h)
  <2>1. request[h].block \in Block
    BY <1>4 DEF Respond, TypeOK, RequestState, NoRequest
  <2> QED
    BY <1>3, <1>4, <2>1 DEF Respond, TypeOK
<1>5. CASE RequestFails(h)
  BY <1>3, <1>5 DEF RequestFails, TypeOK
<1> QED
  BY <1>1, <1>2, <1>4, <1>5 DEF RequestStep

-----------------------------------------------------------------------------
(* The trackers keep the invariant.                                        *)

\* A poll may go on to any state whose range ends in confirmed blocks, below the floors of
\* the wallets it does not know, and leaves nothing behind.
LEMMA PollMoves ==
  ASSUME IngestionInv, NEW k \in Tracker, NEW new \in PollState,
         tracker' = [tracker EXCEPT ![k] = new],
         UNCHANGED <<chainVars, hookVars>>,
         UNCHANGED storeVars \/ \E e \in Event : Insertable(e) /\ InsertEvent(e),
         failures' \in 0 .. MaxFailures,
         cursor' \in Int, NoCursor <= cursor', cursor' <= Horizon,
         \A e \in Event : Covered(e)' /\ BlockOf[e] <= cursor' => store'[e] # "none",
         floor' \in [Wallet -> Int], \A w \in Wallet : floor[w] <= floor'[w],
         new.safe <= Horizon,
         new.pc \in {"start", "fetch", "insert"} =>
           /\ new.safe <= head - Confirmations
           /\ \A w \in Active \ new.wallets : new.safe <= floor'[w],
         new.pc \in {"fetch", "insert"} =>
           /\ new.from <= new.safe
           /\ \A e \in Event : Covered(e)' /\ store'[e] = "none" => new.from <= BlockOf[e],
         new.pc = "insert" =>
           \A e \in Event : Covered(e)' /\ store'[e] = "none" /\ BlockOf[e] <= BatchEnd(k)' =>
             e \in new.pending
  PROVE  IngestionInv'
<1> USE DEF IngestionInv
<1>1. /\ tracker'[k] = new
      /\ \A j \in Tracker \ {k} : tracker'[j] = tracker[j]
      /\ head' = head /\ wallet' = wallet /\ Active' = Active
  BY DEF TypeOK, chainVars, Active
<1>2. /\ store' \in [Event -> {"none", "silent", "alerted"}] /\ alerts' \in [Event -> Nat]
      /\ \A e \in Event : store[e] # "none" => store'[e] # "none"
  <2>1. CASE UNCHANGED storeVars
    BY <2>1 DEF TypeOK, storeVars
  <2>2. ASSUME NEW e \in Event, Insertable(e), InsertEvent(e)
        PROVE  /\ store' \in [Event -> {"none", "silent", "alerted"}] /\ alerts' \in [Event -> Nat]
               /\ \A f \in Event : store[f] # "none" => store'[f] # "none"
    BY <2>2, Inserted
  <2> QED
    BY <2>1, <2>2
<1>3. TypeOK'
  BY <1>2 DEF TypeOK, chainVars, hookVars
<1>4. NewIsUnknown' /\ RequestsKeepTrack' /\ AnsweredIsStored' /\ AlertedOnce'
  BY HooksKept DEF chainVars, hookVars, storeVars
<1>5. PollsConfirmed'
  BY <1>1 DEF PollsConfirmed, Scanning, Ranging
<1>6. FloorsHold'
  <2> SUFFICES ASSUME NEW w \in Active, NEW j \in Tracker
               PROVE  /\ StartBlock[j] <= floor'[w]
                      /\ j \in Scanning' /\ w \notin tracker'[j].wallets =>
                           tracker'[j].safe <= floor'[w]
    BY <1>1 DEF FloorsHold, Scanning
  <2>1. floor[w] \in Int /\ floor'[w] \in Int /\ floor[w] <= floor'[w]
    BY DEF TypeOK, Active
  <2>2. StartBlock[j] \in Int /\ tracker[j].safe \in Int
    BY HorizonType DEF TypeOK, PollState, Off, NoPoll
  <2>3. StartBlock[j] <= floor'[w]
    <3>1. StartBlock[j] <= floor[w]
      BY DEF FloorsHold
    <3> QED
      BY ONLY <2>1, <2>2, <3>1
  <2>4. CASE j = k
    BY <1>1, <2>3, <2>4 DEF Scanning
  <2>5. CASE j # k
    <3>1. tracker'[j] = tracker[j] /\ (j \in Scanning' <=> j \in Scanning)
      BY <1>1, <2>5 DEF Scanning
    <3>2. j \in Scanning /\ w \notin tracker[j].wallets => tracker[j].safe <= floor[w]
      BY DEF FloorsHold
    <3>3. j \in Scanning /\ w \notin tracker[j].wallets => tracker[j].safe <= floor'[w]
      BY ONLY <2>1, <2>2, <3>2
    <3> QED
      BY <2>3, <3>1, <3>3
  <2> QED
    BY <2>4, <2>5
<1>7. \A e \in Event : Covered(e)' => Covered(e)
  <2> SUFFICES ASSUME NEW e \in Event, Covered(e)' PROVE Covered(e)
    OBVIOUS
  <2>1. WalletOf[e] \in Active /\ BlockOf[e] > floor'[WalletOf[e]]
    BY <1>1 DEF Covered
  <2>2. /\ floor[WalletOf[e]] \in Int /\ floor'[WalletOf[e]] \in Int /\ BlockOf[e] \in Int
        /\ floor[WalletOf[e]] <= floor'[WalletOf[e]]
    BY ConstantsAssumption DEF TypeOK, Block
  <2>3. BlockOf[e] > floor[WalletOf[e]]
    BY ONLY <2>1, <2>2
  <2> QED
    BY <2>1, <2>3 DEF Covered
<1>8. PollsKeepTrack'
  <2> SUFFICES ASSUME NEW e \in Event, Covered(e)', store'[e] = "none", NEW j \in Tracker
               PROVE  /\ j \in Ranging' => tracker'[j].from <= BlockOf[e]
                      /\ tracker'[j].pc = "insert" /\ BlockOf[e] <= BatchEnd(j)' =>
                           e \in tracker'[j].pending
    BY DEF PollsKeepTrack, Ranging
  <2>1. CASE j = k
    BY <1>1, <2>1 DEF Ranging
  <2>2. CASE j # k
    <3>1. tracker'[j] = tracker[j] /\ BatchEnd(j)' = BatchEnd(j) /\ (j \in Ranging' <=> j \in Ranging)
      BY <1>1, <2>2 DEF BatchEnd, Ranging
    <3>2. Covered(e) /\ store[e] = "none"
      BY <1>2, <1>7
    <3> QED
      BY <3>1, <3>2 DEF PollsKeepTrack
  <2> QED
    BY <2>1, <2>2
<1>9. CursorPassesNothing'
  BY DEF CursorPassesNothing
<1> QED
  BY <1>3, <1>4, <1>5, <1>6, <1>8, <1>9

\* The same for a step of a poll that writes nothing.
LEMMA PollReads ==
  ASSUME IngestionInv, NEW k \in Tracker, NEW new \in PollState,
         tracker' = [tracker EXCEPT ![k] = new],
         UNCHANGED <<chainVars, hookVars, storeVars, cursor, floor>>,
         failures' \in 0 .. MaxFailures,
         new.safe <= Horizon,
         new.pc \in {"start", "fetch", "insert"} =>
           /\ new.safe <= head - Confirmations
           /\ \A w \in Active \ new.wallets : new.safe <= floor[w],
         new.pc \in {"fetch", "insert"} =>
           /\ new.from <= new.safe
           /\ \A e \in Event : Covered(e) /\ store[e] = "none" => new.from <= BlockOf[e],
         new.pc = "insert" =>
           \A e \in Event : Covered(e) /\ store[e] = "none" /\ BlockOf[e] <= BatchEnd(k)' =>
             e \in new.pending
  PROVE  IngestionInv'
<1> USE DEF IngestionInv
<1>1. \A e \in Event : Covered(e)' = Covered(e) /\ store'[e] = store[e]
  BY DEF Covered, Active, chainVars, storeVars
<1>2. \A e \in Event : Covered(e)' /\ BlockOf[e] <= cursor' => store'[e] # "none"
  BY <1>1 DEF CursorPassesNothing
<1>3. floor' \in [Wallet -> Int] /\ \A w \in Wallet : floor[w] <= floor'[w]
  BY DEF TypeOK
<1>4. cursor' \in Int /\ NoCursor <= cursor' /\ cursor' <= Horizon
  BY DEF TypeOK, PollsConfirmed
<1>5. \A w \in Active : floor'[w] = floor[w]
  OBVIOUS
<1> QED
  BY <1>1, <1>2, <1>3, <1>4, <1>5, PollMoves

\* What a poll is at its end: nothing is kept of it.
LEMMA NothingKept ==
  /\ NoPoll \in PollState /\ NoPoll.pc = "idle" /\ NoPoll.safe = 0
  /\ Off \in PollState /\ Off.pc = "off" /\ Off.safe = 0
  BY DEF NoPoll, Off, PollState

LEMMA PollEndsInv ==
  ASSUME IngestionInv, NEW k \in Tracker, PollFails(k) \/ PollFindsNoWallet(k) \/ CrashTracker(k)
  PROVE  IngestionInv'
<1>1. PICK new \in {NoPoll, Off} : tracker' = [tracker EXCEPT ![k] = new]
  BY DEF PollFails, PollFindsNoWallet, CrashTracker
<1>2. UNCHANGED <<chainVars, hookVars, storeVars, cursor, floor>>
  BY DEF PollFails, PollFindsNoWallet, CrashTracker
<1>3. failures' \in 0 .. MaxFailures
  BY ConstantsAssumption
  DEF PollFails, PollFindsNoWallet, CrashTracker, TrackerFails, IngestionInv, TypeOK
<1>4. new \in PollState /\ new.pc \in {"idle", "off"} /\ new.safe <= Horizon
  BY NothingKept, HorizonType
<1> QED
  BY <1>1, <1>2, <1>3, <1>4, PollReads

LEMMA StartTrackerInv ==
  ASSUME IngestionInv, NEW k \in Tracker, StartTracker(k)
  PROVE  IngestionInv'
<1> USE DEF IngestionInv, StartTracker
<1>1. /\ cursor' \in Int /\ NoCursor <= cursor' /\ cursor' <= Horizon
      /\ cursor' = cursor \/ cursor' = -1
  BY HorizonType DEF TypeOK, PollsConfirmed, NoCursor
<1>2. \A e \in Event : Covered(e)' = Covered(e) /\ store'[e] = store[e]
  BY DEF Covered, Active, chainVars, storeVars
<1>3. ASSUME NEW e \in Event, Covered(e)', BlockOf[e] <= cursor' PROVE store'[e] # "none"
  <2>1. BlockOf[e] \in Int /\ BlockOf[e] >= 1
    BY ConstantsAssumption DEF Block
  <2>2. cursor' = cursor
    BY ONLY <1>1, <1>3, <2>1
  <2> QED
    BY <1>2, <1>3, <2>2 DEF CursorPassesNothing
<1>4. floor' \in [Wallet -> Int] /\ \A w \in Wallet : floor[w] <= floor'[w]
  BY DEF TypeOK
<1>5. NoPoll \in PollState /\ NoPoll.pc = "idle" /\ NoPoll.safe <= Horizon
  BY NothingKept, HorizonType
<1>6. failures' \in 0 .. MaxFailures
  BY DEF TypeOK
<1> QED
  BY <1>1, <1>3, <1>4, <1>5, <1>6, PollMoves

LEMMA ListWalletsInv ==
  ASSUME IngestionInv, NEW k \in Tracker, ListWallets(k)
  PROVE  IngestionInv'
<1> DEFINE new == [NoPoll EXCEPT !.pc = "latest", !.wallets = Active]
<1>1. new \in PollState /\ new.pc = "latest" /\ new.safe <= Horizon
  <2>1. PICK p \in [pc : {"idle"}, wallets : SUBSET Wallet, safe : {0}, from : Nat,
                   pending : SUBSET Event] : p = NoPoll
    BY DEF NoPoll
  <2>2. new = [p EXCEPT !.pc = "latest", !.wallets = Active]
    BY <2>1
  <2>3. Active \in SUBSET Wallet
    BY DEF Active
  <2> HIDE DEF new
  <2>4. new.pc = "latest" /\ new.safe = 0
    BY ONLY <2>2
  <2>5. new \in [pc : {"latest"}, wallets : SUBSET Wallet, safe : {0}, from : Nat,
                pending : SUBSET Event]
    BY ONLY <2>2, <2>3
  <2>6. new \in PollState
    BY ONLY <2>5 DEF PollState
  <2> QED
    BY <2>4, <2>6, HorizonType
<1>2. tracker' = [tracker EXCEPT ![k] = new]
  BY DEF ListWallets
<1>3. failures' \in 0 .. MaxFailures /\ UNCHANGED <<chainVars, hookVars, storeVars, cursor, floor>>
  BY DEF ListWallets, IngestionInv, TypeOK
<1> HIDE DEF new
<1> QED
  BY <1>1, <1>2, <1>3, PollReads

\* The floors of wallets added since the poll looked rise to its end.
LEMMA ReadLatestInv ==
  ASSUME IngestionInv, NEW k \in Tracker, ReadLatest(k)
  PROVE  IngestionInv'
<1> USE DEF IngestionInv
<1> DEFINE safe == head - Confirmations
           new == [tracker[k] EXCEPT !.pc = "start", !.safe = safe]
           late == Active \ tracker[k].wallets
<1>1. /\ tracker[k].pc = "latest"
      /\ tracker' = [tracker EXCEPT ![k] = new]
      /\ floor' = [w \in Wallet |-> IF w \in late THEN Max({floor[w], safe}) ELSE floor[w]]
      /\ UNCHANGED <<chainVars, storeVars, hookVars, cursor, failures>>
  BY DEF ReadLatest, TypeOK
<1>2. safe \in Int /\ safe <= Horizon
  <2>1. head \in Nat /\ head <= Horizon /\ Horizon \in Nat /\ Confirmations \in Nat
    BY HorizonType, ConstantsAssumption DEF TypeOK, PollsConfirmed
  <2> QED
    BY ONLY <2>1
<1>3. /\ new \in PollState /\ new.pc = "start" /\ new.safe = safe
      /\ new.wallets = tracker[k].wallets
  <2>1. tracker[k] \in [pc : {"latest", "start", "fetch", "insert"}, wallets : SUBSET Wallet,
                         safe : Int, from : Nat, pending : SUBSET Event]
    BY <1>1 DEF TypeOK, PollState, Off, NoPoll
  <2> HIDE DEF safe
  <2> QED
    BY ONLY <1>2, <2>1 DEF PollState
<1>4. ASSUME NEW w \in Wallet
      PROVE  /\ floor'[w] \in Int /\ floor[w] <= floor'[w]
             /\ w \in late => safe <= floor'[w]
  <2>1. floor[w] \in Int
    BY DEF TypeOK
  <2>2. /\ Max({floor[w], safe}) \in {floor[w], safe} /\ floor[w] <= Max({floor[w], safe})
        /\ safe <= Max({floor[w], safe})
    <3> HIDE DEF safe
    <3> QED
      BY ONLY <1>2, <2>1, MaxOfTwo, Zenon
  <2>3. floor'[w] = IF w \in late THEN Max({floor[w], safe}) ELSE floor[w]
    BY <1>1
  <2> HIDE DEF safe, late
  <2> QED
    BY ONLY <1>2, <2>1, <2>2, <2>3
<1>5. floor' \in [Wallet -> Int] /\ \A w \in Wallet : floor[w] <= floor'[w]
  BY <1>1, <1>4
<1>6. \A w \in Active \ new.wallets : new.safe <= floor'[w]
  BY <1>3, <1>4 DEF Active
<1>7. ASSUME NEW e \in Event, Covered(e)', BlockOf[e] <= cursor' PROVE store'[e] # "none"
  <2>1. WalletOf[e] \in Wallet /\ BlockOf[e] \in Int /\ floor[WalletOf[e]] \in Int
    BY ConstantsAssumption DEF Block, TypeOK
  <2>2. BlockOf[e] > floor'[WalletOf[e]]
    BY <1>7 DEF Covered
  <2>3. floor'[WalletOf[e]] \in Int /\ floor[WalletOf[e]] <= floor'[WalletOf[e]]
    BY <1>4, <2>1
  <2>4. BlockOf[e] > floor[WalletOf[e]]
    BY ONLY <2>1, <2>2, <2>3
  <2>5. Covered(e)
    BY <1>1, <1>7, <2>4 DEF Covered, Active, chainVars
  <2> QED
    BY <1>1, <1>7, <2>5 DEF CursorPassesNothing, storeVars
<1>8. cursor' \in Int /\ NoCursor <= cursor' /\ cursor' <= Horizon /\ failures' \in 0 .. MaxFailures
  BY <1>1 DEF TypeOK, PollsConfirmed
<1>9. new.safe <= head - Confirmations /\ new.safe <= Horizon
  BY <1>2, <1>3
<1> HIDE DEF new, safe, late
<1> QED
  BY <1>1, <1>3, <1>5, <1>6, <1>7, <1>8, <1>9, PollMoves

\* A poll begins where everything before is stored, or at a configured block.
LEMMA ChooseStartInv ==
  ASSUME IngestionInv, NEW k \in Tracker, ChooseStart(k)
  PROVE  IngestionInv'
<1> USE DEF IngestionInv
<1> DEFINE start == StartingBlock(k)
           new == [tracker[k] EXCEPT !.pc = "fetch", !.from = start + 1]
<1>1. /\ tracker[k].pc = "start"
      /\ tracker' = [tracker EXCEPT ![k] = IF tracker[k].safe <= start THEN NoPoll ELSE new]
      /\ UNCHANGED <<chainVars, storeVars, hookVars, cursor, floor, failures>>
  BY DEF ChooseStart, TypeOK
<1>2. failures' \in 0 .. MaxFailures
  BY <1>1 DEF TypeOK
<1>3. CASE tracker[k].safe <= start
  <2>1. NoPoll \in PollState /\ NoPoll.pc = "idle" /\ NoPoll.safe <= Horizon
    BY NothingKept, HorizonType
  <2> QED
    BY <1>1, <1>2, <1>3, <2>1, PollReads
<1>4. CASE ~ (tracker[k].safe <= start)
  <2>1. /\ tracker[k].safe \in Int /\ tracker[k].safe <= head - Confirmations
        /\ tracker[k].safe <= Horizon
        /\ \A w \in Active \ tracker[k].wallets : tracker[k].safe <= floor[w]
    BY <1>1 DEF TypeOK, PollState, Off, NoPoll, PollsConfirmed, FloorsHold, Scanning
  <2>2. head - Confirmations \in Int /\ head \in Nat
    BY ConstantsAssumption DEF TypeOK
  <2> DEFINE NothingBefore ==
        /\ start \in Int /\ 0 <= start
        /\ \A e \in Event : Covered(e) /\ store[e] = "none" => start < BlockOf[e]
  <2>3. ASSUME StartBlock[k] > 0 PROVE NothingBefore
    <3>1. start = StartBlock[k] /\ start \in Int /\ 0 <= start
      BY <2>3, HorizonType DEF StartingBlock
    <3>2. \A e \in Event : Covered(e) => start < BlockOf[e]
      <4> SUFFICES ASSUME NEW e \in Event, Covered(e) PROVE start < BlockOf[e]
        OBVIOUS
      <4>1. start <= floor[WalletOf[e]] /\ floor[WalletOf[e]] < BlockOf[e]
        BY <3>1 DEF Covered, FloorsHold
      <4>2. floor[WalletOf[e]] \in Int /\ BlockOf[e] \in Int
        BY ConstantsAssumption DEF TypeOK, Block
      <4> HIDE DEF start
      <4> QED
        BY ONLY <3>1, <4>1, <4>2
    <3> QED
      BY <3>1, <3>2
  <2>4. ASSUME ~ (StartBlock[k] > 0), cursor # NoCursor PROVE NothingBefore
    <3>1. start = cursor /\ start \in Int /\ 0 <= start
      <4>1. StartBlock[k] = 0
        BY <2>4, HorizonType
      <4>2. cursor \in Int /\ NoCursor <= cursor
        BY DEF TypeOK, PollsConfirmed
      <4> QED
        BY <2>4, <4>1, <4>2 DEF StartingBlock, NoCursor
    <3>2. ASSUME NEW e \in Event, Covered(e), store[e] = "none" PROVE start < BlockOf[e]
      <4>1. ~ (BlockOf[e] <= cursor)
        BY <3>2 DEF CursorPassesNothing
      <4>2. BlockOf[e] \in Int
        BY ConstantsAssumption DEF Block
      <4> QED
        BY <3>1, <4>1, <4>2
    <3> QED
      BY <3>1, <3>2
  <2>5. ASSUME ~ (StartBlock[k] > 0), cursor = NoCursor PROVE FALSE
    <3>1. start = Max({0, head - Confirmations})
      BY <2>5 DEF StartingBlock
    <3>2. \A b \in Int : Max({0, b}) \in Int /\ b <= Max({0, b})
      <4> TAKE b \in Int
      <4>1. 0 \in Int
        OBVIOUS
      <4>2. Max({0, b}) \in {0, b} /\ b <= Max({0, b})
        BY ONLY <4>1, b \in Int, MaxOfTwo, Zenon
      <4> QED
        BY <4>2
    <3>3. start \in Int /\ head - Confirmations <= start
      BY <2>2, <3>1, <3>2
    <3> HIDE DEF start
    <3> QED
      BY ONLY <1>4, <2>1, <2>2, <3>3
  <2>6. NothingBefore
    BY <2>3, <2>4, <2>5
  <2>7. /\ new \in PollState /\ new.pc = "fetch" /\ new.from = start + 1
        /\ new.safe = tracker[k].safe /\ new.wallets = tracker[k].wallets
    <3>1. tracker[k] \in [pc : {"latest", "start", "fetch", "insert"}, wallets : SUBSET Wallet,
                           safe : Int, from : Nat, pending : SUBSET Event]
      BY <1>1 DEF TypeOK, PollState, Off, NoPoll
    <3> DEFINE first == start + 1
    <3>2. first \in Nat /\ new = [tracker[k] EXCEPT !.pc = "fetch", !.from = first]
      BY <2>6
    <3>3. new.from = start + 1
      BY ONLY <3>1, <3>2
    <3> HIDE DEF first, start, new
    <3>4. /\ new.pc = "fetch" /\ new.safe = tracker[k].safe /\ new.wallets = tracker[k].wallets
          /\ new \in [pc : {"latest", "start", "fetch", "insert"}, wallets : SUBSET Wallet,
                      safe : Int, from : Nat, pending : SUBSET Event]
      BY ONLY <3>1, <3>2
    <3> QED
      BY ONLY <3>3, <3>4 DEF PollState
  <2>8. \A e \in Event : BlockOf[e] \in Int
    BY ConstantsAssumption DEF Block
  <2> HIDE DEF start, new
  <2>9. new.from <= new.safe
    BY ONLY <1>4, <2>1, <2>6, <2>7
  <2>10. \A e \in Event : Covered(e) /\ store[e] = "none" => new.from <= BlockOf[e]
    BY ONLY <2>6, <2>7, <2>8
  <2>11. tracker' = [tracker EXCEPT ![k] = new]
    BY <1>1, <1>4
  <2> QED
    BY <1>1, <1>2, <2>1, <2>7, <2>9, <2>10, <2>11, PollReads
<1> QED
  BY <1>3, <1>4

\* A range holds every covered transfer of its blocks that is not stored.
LEMMA FetchRangeInv ==
  ASSUME IngestionInv, NEW k \in Tracker, FetchRange(k)
  PROVE  IngestionInv'
<1> USE DEF IngestionInv
<1> DEFINE range == EventsOf(tracker[k].from .. BatchEnd(k), tracker[k].wallets) \ Malformed
<1>1. PICK omitted \in SUBSET (range \intersect Omissible) :
        /\ omitted # {} => "logs" \in Faults
        /\ tracker' = [tracker EXCEPT ![k].pc = "insert", ![k].pending = range \ omitted]
  BY DEF FetchRange
<1> DEFINE new == [tracker[k] EXCEPT !.pc = "insert", !.pending = range \ omitted]
<1>2. /\ tracker[k].pc = "fetch"
      /\ tracker' = [tracker EXCEPT ![k] = new]
      /\ UNCHANGED <<chainVars, storeVars, hookVars, cursor, floor, failures>>
  BY <1>1 DEF FetchRange, TypeOK
<1>3. tracker[k] \in [pc : {"latest", "start", "fetch", "insert"}, wallets : SUBSET Wallet,
                       safe : Int, from : Nat, pending : SUBSET Event]
  BY <1>2 DEF TypeOK, PollState, Off, NoPoll
<1>4. range \subseteq Event
  BY DEF EventsOf
<1>5. /\ new \in PollState /\ new.pc = "insert" /\ new.pending = range \ omitted
      /\ new.safe = tracker[k].safe /\ new.from = tracker[k].from
      /\ new.wallets = tracker[k].wallets
  <2> HIDE DEF range
  <2> QED
    BY ONLY <1>3, <1>4 DEF PollState
<1>6. BatchEnd(k)' = BatchEnd(k)
  <2> HIDE DEF new
  <2>1. tracker'[k] = new
    BY <1>2 DEF TypeOK
  <2> QED
    BY <1>5, <2>1 DEF BatchEnd
<1>7. /\ tracker[k].safe <= head - Confirmations /\ tracker[k].safe <= Horizon
      /\ tracker[k].from <= tracker[k].safe
      /\ \A w \in Active \ tracker[k].wallets : tracker[k].safe <= floor[w]
      /\ \A e \in Event : Covered(e) /\ store[e] = "none" => tracker[k].from <= BlockOf[e]
  BY <1>2 DEF PollsConfirmed, FloorsHold, PollsKeepTrack, Scanning, Ranging
<1>8. ASSUME NEW e \in Event, Covered(e), store[e] = "none", BlockOf[e] <= BatchEnd(k)
      PROVE  e \in range \ omitted
  <2>1. BlockOf[e] \in Int /\ tracker[k].from <= BlockOf[e]
    BY <1>7, <1>8, ConstantsAssumption DEF Block
  <2>2. WalletOf[e] \in tracker[k].wallets
    <3> SUFFICES ASSUME WalletOf[e] \notin tracker[k].wallets PROVE FALSE
      OBVIOUS
    <3>1. /\ tracker[k].safe <= floor[WalletOf[e]] /\ floor[WalletOf[e]] < BlockOf[e]
          /\ floor[WalletOf[e]] \in Int
      BY <1>7, <1>8, ConstantsAssumption DEF Covered, TypeOK
    <3>2. BatchEnd(k) \in Int /\ BatchEnd(k) <= tracker[k].safe /\ tracker[k].safe \in Int
      BY <1>3, RangeEnds
    <3> QED
      BY ONLY <1>8, <2>1, <3>1, <3>2
  <2>3. e \notin Malformed /\ e \notin omitted
    BY <1>1, <1>8 DEF Covered
  <2>4. BatchEnd(k) \in Int /\ tracker[k].from \in Int
    BY <1>3, RangeEnds
  <2>5. BlockOf[e] \in tracker[k].from .. BatchEnd(k)
    BY ONLY <1>8, <2>1, <2>4
  <2> QED
    BY <2>2, <2>3, <2>5 DEF EventsOf
<1>9. failures' \in 0 .. MaxFailures
  BY <1>2 DEF TypeOK
<1> HIDE DEF new, range
<1> QED
  BY <1>2, <1>5, <1>6, <1>7, <1>8, <1>9, PollReads

LEMMA TrackerInsertsInv ==
  ASSUME IngestionInv, NEW k \in Tracker, NEW e \in Event, TrackerInserts(k, e)
  PROVE  IngestionInv'
<1> USE DEF IngestionInv
<1> DEFINE new == [tracker[k] EXCEPT !.pending = tracker[k].pending \ {e}]
<1>1. /\ e \in tracker[k].pending /\ Insertable(e) /\ InsertEvent(e)
      /\ tracker' = [tracker EXCEPT ![k] = new]
      /\ UNCHANGED <<chainVars, hookVars, cursor, floor, failures>>
  BY DEF TrackerInserts, TypeOK
<1>2. tracker[k] \in [pc : {"latest", "start", "fetch", "insert"}, wallets : SUBSET Wallet,
                       safe : Int, from : Nat, pending : SUBSET Event]
  BY <1>1 DEF TypeOK, PollState, Off, NoPoll
<1>3. /\ new \in PollState /\ new.pc = tracker[k].pc /\ new.pending = tracker[k].pending \ {e}
      /\ new.safe = tracker[k].safe /\ new.from = tracker[k].from
      /\ new.wallets = tracker[k].wallets
  BY ONLY <1>2 DEF PollState
<1> HIDE DEF new
<1>4. BatchEnd(k)' = BatchEnd(k)
  <2>1. tracker'[k] = new
    BY <1>1 DEF TypeOK
  <2> QED
    BY <1>3, <2>1 DEF BatchEnd
<1>5. store'[e] # "none" /\ \A f \in Event : store[f] # "none" => store'[f] # "none"
  BY <1>1, Inserted
<1>6. \A f \in Event : Covered(f)' => Covered(f)
  BY <1>1 DEF Covered, Active, chainVars
<1>7. \A f \in Event : Covered(f)' /\ BlockOf[f] <= cursor' => store'[f] # "none"
  BY <1>1, <1>5, <1>6 DEF CursorPassesNothing
<1>8. /\ new.safe <= Horizon
      /\ new.pc \in {"start", "fetch", "insert"} =>
           /\ new.safe <= head - Confirmations
           /\ \A w \in Active \ new.wallets : new.safe <= floor[w]
      /\ new.pc \in {"fetch", "insert"} => new.from <= new.safe
  BY <1>3 DEF PollsConfirmed, FloorsHold, Scanning, Ranging
<1>9. new.pc \in {"fetch", "insert"} =>
        \A f \in Event : Covered(f)' /\ store'[f] = "none" => new.from <= BlockOf[f]
  BY <1>3, <1>5, <1>6 DEF PollsKeepTrack, Ranging
<1>10. new.pc = "insert" =>
         \A f \in Event : Covered(f)' /\ store'[f] = "none" /\ BlockOf[f] <= BatchEnd(k)' =>
           f \in new.pending
  BY <1>3, <1>4, <1>5, <1>6 DEF PollsKeepTrack
<1>11. /\ floor' \in [Wallet -> Int] /\ \A w \in Wallet : floor[w] <= floor'[w]
       /\ \A w \in Active : floor'[w] = floor[w]
       /\ cursor' \in Int /\ NoCursor <= cursor' /\ cursor' <= Horizon
       /\ failures' \in 0 .. MaxFailures
  BY <1>1 DEF TypeOK, PollsConfirmed
<1> QED
  BY <1>1, <1>3, <1>7, <1>8, <1>9, <1>10, <1>11, PollMoves

\* The cursor moves to the end of a range of which everything is stored.
LEMMA AdvanceCursorInv ==
  ASSUME IngestionInv, NEW k \in Tracker, AdvanceCursor(k)
  PROVE  IngestionInv'
<1> USE DEF IngestionInv
<1> DEFINE end == BatchEnd(k)
           next == [tracker[k] EXCEPT !.pc = "fetch", !.from = end + 1]
<1>1. /\ tracker[k].pc = "insert" /\ tracker[k].pending = {}
      /\ cursor' = end
      /\ tracker' = [tracker EXCEPT ![k] = IF end = tracker[k].safe THEN NoPoll ELSE next]
      /\ UNCHANGED <<chainVars, storeVars, hookVars, floor, failures>>
  BY DEF AdvanceCursor, TypeOK
<1>2. tracker[k] \in [pc : {"latest", "start", "fetch", "insert"}, wallets : SUBSET Wallet,
                       safe : Int, from : Nat, pending : SUBSET Event]
  BY <1>1 DEF TypeOK, PollState, Off, NoPoll
<1>3. /\ tracker[k].from <= tracker[k].safe /\ tracker[k].safe <= Horizon
      /\ tracker[k].safe <= head - Confirmations
      /\ \A w \in Active \ tracker[k].wallets : tracker[k].safe <= floor[w]
  BY <1>1 DEF PollsConfirmed, FloorsHold, Scanning, Ranging
<1>4. end \in Int /\ end <= tracker[k].safe /\ tracker[k].from <= end
  BY <1>3, RangeEnds
<1>5. tracker[k].from \in Nat /\ tracker[k].safe \in Int /\ Horizon \in Int
  BY <1>2, HorizonType
<1>6. \A e \in Event : BlockOf[e] \in Int
  BY ConstantsAssumption DEF Block
<1>7. \A e \in Event : Covered(e) /\ store[e] = "none" => ~ (BlockOf[e] <= end)
  BY <1>1 DEF PollsKeepTrack
<1>8. \A e \in Event : Covered(e)' = Covered(e) /\ store'[e] = store[e]
  BY <1>1 DEF Covered, Active, chainVars, storeVars
<1> HIDE DEF end
<1>9. \A e \in Event : Covered(e)' /\ BlockOf[e] <= cursor' => store'[e] # "none"
  BY <1>1, <1>7, <1>8
<1>10. cursor' \in Int /\ NoCursor <= cursor' /\ cursor' <= Horizon
  BY ONLY <1>1, <1>3, <1>4, <1>5 DEF NoCursor
<1>11. /\ floor' \in [Wallet -> Int] /\ \A w \in Wallet : floor[w] <= floor'[w]
       /\ \A w \in Active : floor'[w] = floor[w]
       /\ failures' \in 0 .. MaxFailures
  BY <1>1 DEF TypeOK
<1>12. CASE end = tracker[k].safe
  <2>1. NoPoll \in PollState /\ NoPoll.pc = "idle" /\ NoPoll.safe <= Horizon
    BY NothingKept, HorizonType
  <2>2. tracker' = [tracker EXCEPT ![k] = NoPoll]
    BY <1>1, <1>12
  <2> QED
    BY <1>1, <1>9, <1>10, <1>11, <2>1, <2>2, PollMoves
<1>13. CASE end # tracker[k].safe
  <2> DEFINE first == end + 1
  <2>1. first \in Nat /\ first <= tracker[k].safe
    BY ONLY <1>4, <1>5, <1>13
  <2>2. next = [tracker[k] EXCEPT !.pc = "fetch", !.from = first]
    OBVIOUS
  <2>3. \A e \in Event : Covered(e) /\ store[e] = "none" => first <= BlockOf[e]
    BY <1>4, <1>6, <1>7
  <2>4. tracker' = [tracker EXCEPT ![k] = next]
    BY <1>1, <1>13
  <2> HIDE DEF next, first
  <2>5. /\ next.pc = "fetch" /\ next.from = first
        /\ next.safe = tracker[k].safe /\ next.wallets = tracker[k].wallets
        /\ next \in [pc : {"latest", "start", "fetch", "insert"}, wallets : SUBSET Wallet,
                     safe : Int, from : Nat, pending : SUBSET Event]
    BY ONLY <1>2, <2>1, <2>2
  <2>6. next \in PollState
    BY ONLY <2>5 DEF PollState
  <2>7. next.from <= next.safe /\ next.safe <= Horizon /\ next.safe <= head - Confirmations
    BY <1>3, <2>1, <2>5
  <2>8. \A e \in Event : Covered(e)' /\ store'[e] = "none" => next.from <= BlockOf[e]
    BY <1>8, <2>3, <2>5
  <2>9. \A w \in Active \ next.wallets : next.safe <= floor'[w]
    BY <1>3, <1>11, <2>5
  <2> QED
    BY <1>1, <1>9, <1>10, <1>11, <2>4, <2>5, <2>6, <2>7, <2>8, <2>9, PollMoves
<1> QED
  BY <1>12, <1>13

LEMMA StepInv == IngestionInv /\ [Next]_vars => IngestionInv'
<1> SUFFICES ASSUME IngestionInv, [Next]_vars PROVE IngestionInv'
  OBVIOUS
<1>1. CASE MineBlock
  BY <1>1, MineBlockInv
<1>2. ASSUME NEW w \in Wallet, AddWallet(w) \/ RemoveWallet(w) PROVE IngestionInv'
  BY <1>2, AddWalletInv, RemoveWalletInv
<1>3. ASSUME NEW h \in Handler,
             (\E b \in Block : ReceiveWebhook(h, b)) \/ RequestStep(h) \/ RequestFails(h)
      PROVE  IngestionInv'
  BY <1>3, WebhookInv
<1>4. ASSUME NEW k \in Tracker, PollStep(k) PROVE IngestionInv'
  BY <1>4, StartTrackerInv, ListWalletsInv, ReadLatestInv, ChooseStartInv, FetchRangeInv,
     TrackerInsertsInv, PollEndsInv, AdvanceCursorInv DEF PollStep
<1>5. ASSUME NEW k \in Tracker, PollFails(k) \/ CrashTracker(k) PROVE IngestionInv'
  BY <1>5, PollEndsInv
<1>6. CASE UNCHANGED vars
  <2>1. TypeOK'
    BY <1>6 DEF vars, storeVars, hookVars, pollVars, IngestionInv, TypeOK
  <2>2. NewIsUnknown' /\ RequestsKeepTrack' /\ AnsweredIsStored' /\ AlertedOnce'
    BY <1>6, HooksKept DEF vars, storeVars, hookVars, pollVars
  <2>3. PollsConfirmed' /\ FloorsHold' /\ PollsKeepTrack' /\ CursorPassesNothing'
    BY <1>6, PollsKept DEF vars, chainVars, storeVars, hookVars, pollVars
  <2> QED
    BY <2>1, <2>2, <2>3 DEF IngestionInv
<1> QED
  BY <1>1, <1>2, <1>3, <1>4, <1>5, <1>6 DEF Next

-----------------------------------------------------------------------------
(* The theorems.                                                           *)

\* However webhook requests and polls interleave, fail and crash: what a request has seen and
\* a poll has fetched is stored or pending, and no floor is below what passed a wallet unseen.
THEOREM IngestionInvariant == Spec => []IngestionInv
<1> QED
  BY InitInv, StepInv, PTL DEF Spec

\* Every variable holds a value of its type.
THEOREM TypeCorrect == Spec => []TypeOK
<1>1. IngestionInv => TypeOK
  BY DEF IngestionInv
<1> QED
  BY <1>1, IngestionInvariant, PTL

\* A webhook that was answered with success has its transfers stored (handleAlchemyWebhook).
THEOREM AnswersAreStored == Spec => []AnsweredIsStored
<1>1. IngestionInv => AnsweredIsStored
  BY DEF IngestionInv
<1> QED
  BY <1>1, IngestionInvariant, PTL

\* A transfer is alerted at most once, from whatever source it comes (insertWalletEvents).
THEOREM AlertsAreUnique == Spec => []AlertedOnce
<1>1. IngestionInv => AlertedOnce
  BY DEF IngestionInv
<1> QED
  BY <1>1, IngestionInvariant, PTL

\* The cursor passes no covered transfer that is not stored (pollOnce).
THEOREM NothingIsPassed == Spec => []CursorPassesNothing
<1>1. IngestionInv => CursorPassesNothing
  BY DEF IngestionInv
<1> QED
  BY <1>1, IngestionInvariant, PTL
===============================================================================
