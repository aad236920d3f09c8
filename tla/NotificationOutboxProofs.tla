------------------------ MODULE NotificationOutboxProofs ------------------------
(***************************************************************************)
(* Theorems about NotificationOutbox, for any number of users, events,     *)
(* devices and workers and any bounds.                                     *)
(***************************************************************************)
EXTENDS NotificationOutbox, FiniteSetTheorems, TLAPS

-----------------------------------------------------------------------------
(* Types.                                                                  *)

\* Only the worker k moves.
Moved(k) ==
  /\ worker' \in [Worker -> WorkState]
  /\ \A l \in Worker \ {k} : worker'[l] = worker[l]

\* It keeps its claims.
Keeps(k) == Moved(k) /\ worker'[k].batch = worker[k].batch

LEMMA NoWorkTyped == NoWork \in WorkState
BY ConstantsAssumption DEF NoWork, WorkState

\* An exception leaves the job and the batch.
LEMMA ThrowMoves ==
  ASSUME TypeOK, NEW k \in Worker, Throw(k)
  PROVE  /\ Keeps(k)
         /\ worker'[k].pc = "catch" /\ worker'[k].event = worker[k].event
         /\ worker'[k].queue = {} /\ \A d \in Device : worker'[k].listed[d] = 0
<1> DEFINE w == [NoWork EXCEPT !.pc = "catch", !.event = worker[k].event,
                              !.batch = worker[k].batch]
<1>1. worker \in [Worker -> WorkState] /\ worker[k] \in WorkState
  BY DEF TypeOK
<1>2. w \in WorkState
  BY <1>1, NoWorkTyped DEF WorkState
<1>3. /\ w.pc = "catch" /\ w.event = worker[k].event /\ w.batch = worker[k].batch
      /\ w.queue = {} /\ w.listed = [d \in Device |-> 0]
  BY NoWorkTyped DEF WorkState, NoWork
<1>4. worker' = [worker EXCEPT ![k] = w]
  BY DEF Throw
<1> HIDE DEF w
<1> QED
  BY <1>1, <1>2, <1>3, <1>4 DEF Keeps, Moved

\* The end of a job takes it out of the batch.
LEMMA FinishMoves ==
  ASSUME TypeOK, NEW k \in Worker, worker[k].event \in Event, FinishJob(k)
  PROVE  /\ Moved(k)
         /\ worker'[k].pc \in {"idle", "batch"} /\ worker'[k].event = Nobody
         /\ worker'[k].batch = [worker[k].batch EXCEPT ![worker[k].event] = 0]
         /\ worker'[k].pc = "idle" => \A e \in Event : worker'[k].batch[e] = 0
         /\ \A d \in Device : worker'[k].listed[d] = 0
         /\ ~worker'[k].retry
<1> DEFINE rest == [worker[k].batch EXCEPT ![worker[k].event] = 0]
           more == [NoWork EXCEPT !.pc = "batch", !.batch = rest]
           done == \A e \in Event : rest[e] = 0
<1>1. worker \in [Worker -> WorkState] /\ worker[k].batch \in [Event -> Nat]
  BY DEF TypeOK, WorkState
<1>2. rest \in [Event -> Nat]
  BY <1>1
<1>3. more \in WorkState
  BY <1>2, NoWorkTyped DEF WorkState
<1>4. /\ more.pc = "batch" /\ more.event = Nobody /\ more.batch = rest
      /\ more.listed = [d \in Device |-> 0] /\ ~more.retry
  BY NoWorkTyped DEF WorkState, NoWork
<1>5. worker' = [worker EXCEPT ![k] = IF done THEN NoWork ELSE more]
  BY DEF FinishJob
<1>6. CASE done
  <2>1. NoWork.batch = rest
    BY <1>2, <1>6 DEF NoWork
  <2>2. /\ NoWork.pc = "idle" /\ NoWork.event = Nobody
        /\ NoWork.listed = [d \in Device |-> 0] /\ ~NoWork.retry
    BY DEF NoWork
  <2>3. worker' = [worker EXCEPT ![k] = NoWork]
    BY <1>5, <1>6
  <2> QED
    BY <1>1, <1>6, <2>1, <2>2, <2>3, NoWorkTyped DEF Moved
<1>7. CASE ~done
  <2>1. worker' = [worker EXCEPT ![k] = more]
    BY <1>5, <1>7
  <2> HIDE DEF more, done
  <2> QED
    BY <1>1, <1>3, <1>4, <2>1 DEF Moved
<1> QED
  BY <1>6, <1>7

\* A worker that ends, or gives up its batch.
LEMMA IdleMoves ==
  ASSUME TypeOK, NEW k \in Worker, worker' = [worker EXCEPT ![k] = NoWork]
  PROVE  /\ Moved(k)
         /\ worker'[k].pc = "idle" /\ \A e \in Event : worker'[k].batch[e] = 0
         /\ \A d \in Device : worker'[k].listed[d] = 0
         /\ ~worker'[k].retry
<1>1. worker \in [Worker -> WorkState]
  BY DEF TypeOK
<1>2. /\ NoWork.pc = "idle" /\ NoWork.batch = [e \in Event |-> 0]
      /\ NoWork.listed = [d \in Device |-> 0] /\ ~NoWork.retry
  BY DEF NoWork
<1> QED
  BY <1>1, <1>2, NoWorkTyped DEF Moved

\* The steps of an attempt.
LEMMA UpdateMoves ==
  ASSUME TypeOK, NEW k \in Worker, NEW w \in WorkState, worker' = [worker EXCEPT ![k] = w]
  PROVE  Moved(k) /\ worker'[k] = w
BY DEF TypeOK, Moved

LEMMA PickMoves ==
  ASSUME TypeOK, NEW k \in Worker, NEW e \in Event, PickJob(k, e)
  PROVE  /\ Keeps(k)
         /\ worker'[k].pc = "context" /\ worker'[k].event = e
         /\ worker'[k].listed = worker[k].listed /\ worker'[k].retry = worker[k].retry
<1> DEFINE w == [worker[k] EXCEPT !.pc = "context", !.event = e]
<1>1. worker \in [Worker -> WorkState]
  BY DEF TypeOK
<1>2. w \in WorkState
  BY <1>1 DEF WorkState
<1>3. /\ w.pc = "context" /\ w.event = e
      /\ w.listed = worker[k].listed /\ w.batch = worker[k].batch
      /\ w.retry = worker[k].retry
  BY <1>1 DEF WorkState
<1>4. worker' = [worker EXCEPT ![k] = w]
  BY <1>1 DEF PickJob
<1> HIDE DEF w
<1> QED
  BY <1>2, <1>3, <1>4, UpdateMoves DEF Keeps

LEMMA GotoMoves ==
  ASSUME TypeOK, NEW k \in Worker, NEW pc \in {"ensure", "list"}, Goto(k, pc)
  PROVE  /\ Keeps(k)
         /\ worker'[k].pc = pc /\ worker'[k].event = worker[k].event
         /\ worker'[k].listed = worker[k].listed /\ worker'[k].retry = worker[k].retry
<1> DEFINE w == [worker[k] EXCEPT !.pc = pc]
<1>1. worker \in [Worker -> WorkState]
  BY DEF TypeOK
<1>2. w \in WorkState
  BY <1>1 DEF WorkState
<1>3. /\ w.pc = pc /\ w.event = worker[k].event
      /\ w.listed = worker[k].listed /\ w.batch = worker[k].batch
      /\ w.retry = worker[k].retry
  BY <1>1 DEF WorkState
<1>4. worker' = [worker EXCEPT ![k] = w]
  BY <1>1 DEF Goto
<1> HIDE DEF w
<1> QED
  BY <1>2, <1>3, <1>4, UpdateMoves DEF Keeps

LEMMA ListMoves ==
  ASSUME TypeOK, NEW k \in Worker, ListDevices(k)
  PROVE  /\ Keeps(k)
         /\ worker'[k].pc = "states" /\ worker'[k].event = worker[k].event
         /\ worker'[k].retry = worker[k].retry
         /\ \A d \in Device : worker'[k].listed[d] \in {0, device[d].version}
<1> DEFINE listed == [d \in Device |->
              IF device[d].user = Owner[worker[k].event] /\ device[d].active
              THEN device[d].version ELSE 0]
           w == [worker[k] EXCEPT !.pc = "states", !.listed = listed]
<1>1. worker \in [Worker -> WorkState]
  BY DEF TypeOK
<1>2. \A d \in Device : listed[d] \in {0, device[d].version}
  OBVIOUS
<1>3. worker' = [worker EXCEPT ![k] = w]
  BY <1>1 DEF ListDevices
<1>. listed \in [Device -> Nat]
  BY DEF TypeOK, DeviceRow
<1> HIDE DEF listed
<1>4. w \in WorkState
  BY <1>1 DEF WorkState
<1>5. /\ w.pc = "states" /\ w.event = worker[k].event
      /\ w.listed = listed /\ w.batch = worker[k].batch /\ w.retry = worker[k].retry
  BY <1>1 DEF WorkState
<1> HIDE DEF w
<1> QED
  BY <1>2, <1>3, <1>4, <1>5, UpdateMoves DEF Keeps

LEMMA ReadDeliveriesMoves ==
  ASSUME TypeOK, NEW k \in Worker, ReadDeliveries(k)
  PROVE  /\ Keeps(k)
         /\ worker'[k].pc \in {"reserve", "sent"} /\ worker'[k].event = worker[k].event
         /\ worker'[k].listed = worker[k].listed /\ worker'[k].retry = worker[k].retry
         /\ worker'[k].pc = "sent" => worker'[k].queue = {}
         /\ \A d \in Device :
              worker[k].listed[d] > 0 /\ delivery[<<worker[k].event, d>>] \notin Settled =>
                d \in worker'[k].queue
<1> DEFINE queue == {d \in Device : /\ worker[k].listed[d] > 0
                                    /\ delivery[<<worker[k].event, d>>] \notin Settled}
           pc == IF queue # {} THEN "reserve" ELSE "sent"
           w == [worker[k] EXCEPT !.pc = pc, !.queue = queue]
<1>1. worker \in [Worker -> WorkState]
  BY DEF TypeOK
<1>2. queue \subseteq Device /\ pc \in {"reserve", "sent"} /\ (pc = "sent" => queue = {})
  OBVIOUS
<1>3. worker' = [worker EXCEPT ![k] = w]
  BY <1>1 DEF ReadDeliveries, NextStep
<1>4. \A d \in Device :
        worker[k].listed[d] > 0 /\ delivery[<<worker[k].event, d>>] \notin Settled => d \in queue
  OBVIOUS
<1> HIDE DEF queue, pc
<1>5. w \in WorkState
  BY <1>1, <1>2 DEF WorkState
<1>6. /\ w.pc = pc /\ w.event = worker[k].event /\ w.queue = queue
      /\ w.listed = worker[k].listed /\ w.batch = worker[k].batch /\ w.retry = worker[k].retry
  BY <1>1 DEF WorkState
<1> HIDE DEF w
<1> QED
  BY <1>2, <1>3, <1>4, <1>5, <1>6, UpdateMoves DEF Keeps

LEMMA ReserveMoves ==
  ASSUME TypeOK, NEW k \in Worker, NEW d \in Device, ReserveDelivery(k, d),
         JobExists(worker[k].event) /\ SameRow(k, d)
  PROVE  /\ Keeps(k)
         /\ worker'[k].event = worker[k].event /\ worker'[k].listed = worker[k].listed
         /\ worker'[k].retry = worker[k].retry /\ worker'[k].target = d
         /\ worker'[k].queue = worker[k].queue \ {d}
         /\ worker'[k].pc = IF delivery[<<worker[k].event, d>>] = "delivered"
                            THEN NextStep(worker[k].queue \ {d}, worker[k].retry) ELSE "send"
<1> DEFINE queue == worker[k].queue \ {d}
           pc == IF delivery[<<worker[k].event, d>>] = "delivered"
                 THEN NextStep(queue, worker[k].retry) ELSE "send"
           w == [worker[k] EXCEPT !.pc = pc, !.queue = queue, !.target = d]
<1>1. worker \in [Worker -> WorkState]
  BY DEF TypeOK
<1>2. queue \subseteq Device /\ pc \in {"reserve", "sent", "catch", "send"}
  BY <1>1 DEF NextStep, WorkState
<1>3. worker' = [worker EXCEPT ![k] = w]
  BY <1>1 DEF ReserveDelivery
<1> HIDE DEF pc, queue
<1>4. w \in WorkState
  BY <1>1, <1>2 DEF WorkState
<1>5. /\ w.pc = pc /\ w.event = worker[k].event /\ w.queue = queue /\ w.target = d
      /\ w.listed = worker[k].listed /\ w.batch = worker[k].batch /\ w.retry = worker[k].retry
  BY <1>1 DEF WorkState
<1> HIDE DEF w
<1>6. Keeps(k) /\ worker'[k] = w
  BY <1>3, <1>4, <1>5, UpdateMoves DEF Keeps
<1> QED
  BY <1>5, <1>6 DEF pc, queue

LEMMA SendMoves ==
  ASSUME TypeOK, NEW k \in Worker, SendPush(k)
  PROVE  /\ Keeps(k)
         /\ worker'[k].pc = "record" /\ worker'[k].event = worker[k].event
         /\ worker'[k].listed = worker[k].listed /\ worker'[k].retry = worker[k].retry
         /\ worker'[k].target = worker[k].target /\ worker'[k].queue = worker[k].queue
         /\ worker'[k].result # "none"
         /\ \E accepted \in BOOLEAN :
              /\ accepted => worker'[k].result \in {"delivered", "transient"}
              /\ worker'[k].result = "delivered" => accepted
              /\ push' = Pushed(Pair(k), accepted, accepted /\ worker'[k].result = "transient",
                                worker'[k].result = "transient")
<1>1. worker \in [Worker -> WorkState]
  BY DEF TypeOK
<1>2. PICK result \in {"delivered", "transient", "refused", "invalid"}, accepted \in BOOLEAN :
        /\ accepted => result = "delivered" \/ result = "transient"
        /\ result = "delivered" => accepted
        /\ push' = Pushed(Pair(k), accepted, accepted /\ result = "transient",
                          result = "transient")
        /\ worker' = [worker EXCEPT ![k].pc = "record", ![k].result = result]
  BY DEF SendPush
<1> DEFINE w == [worker[k] EXCEPT !.pc = "record", !.result = result]
<1>3. worker' = [worker EXCEPT ![k] = w]
  BY <1>1, <1>2
<1>4. w \in WorkState
  BY <1>1 DEF WorkState
<1>5. /\ w.pc = "record" /\ w.event = worker[k].event /\ w.queue = worker[k].queue
      /\ w.listed = worker[k].listed /\ w.batch = worker[k].batch /\ w.retry = worker[k].retry
      /\ w.target = worker[k].target /\ w.result = result
  BY <1>1 DEF WorkState
<1> HIDE DEF w
<1>6. Keeps(k) /\ worker'[k] = w
  BY <1>3, <1>4, <1>5, UpdateMoves DEF Keeps
<1>7. worker'[k].result = result
  BY <1>5, <1>6
<1> QED
  BY <1>2, <1>5, <1>6, <1>7

\* The step after an outcome was recorded, unless the attempt is to be repeated.
LEMMA RecordMoves ==
  ASSUME TypeOK, NEW k \in Worker, RecordDelivery(k), RowsExist(k),
         NEW retry \in BOOLEAN, retry = (worker[k].retry \/ worker[k].result = "transient"),
         NextStep(worker[k].queue, retry) # "catch"
  PROVE  /\ Keeps(k)
         /\ worker'[k].event = worker[k].event /\ worker'[k].listed = worker[k].listed
         /\ worker'[k].retry = retry /\ worker'[k].queue = worker[k].queue
         /\ worker'[k].pc = NextStep(worker[k].queue, retry)
         /\ worker'[k].pc \in {"reserve", "sent"}
<1> DEFINE pc == NextStep(worker[k].queue, retry)
           w == [worker[k] EXCEPT !.pc = pc, !.retry = retry, !.result = "none", !.target = Nobody]
<1>1. worker \in [Worker -> WorkState]
  BY DEF TypeOK
<1>2. pc \in {"reserve", "sent"}
  BY DEF NextStep
<1>3. worker' = [worker EXCEPT ![k] = w]
  BY <1>1 DEF RecordDelivery
<1> HIDE DEF pc
<1>4. w \in WorkState
  BY <1>1, <1>2 DEF WorkState
<1>5. /\ w.pc = pc /\ w.event = worker[k].event /\ w.queue = worker[k].queue
      /\ w.listed = worker[k].listed /\ w.batch = worker[k].batch /\ w.retry = retry
  BY <1>1 DEF WorkState
<1> HIDE DEF w
<1>6. Keeps(k) /\ worker'[k] = w
  BY <1>3, <1>4, <1>5, UpdateMoves DEF Keeps
<1> QED
  BY <1>2, <1>5, <1>6 DEF pc

-----------------------------------------------------------------------------
(* Rows.                                                                   *)

\* What SetJob does to the job of e, and to no other.
LEMMA SetJobSets ==
  ASSUME TypeOK, NEW e \in Event,
         NEW status \in {"pending", "processing", "sent", "failed"}, SetJob(e, status)
  PROVE  /\ job' \in [Event -> JobRow]
         /\ \A f \in Event : job'[f].attempts = job[f].attempts
         /\ \A f \in Event \ {e} : job'[f] = job[f]
         /\ ~JobExists(e) => job'[e] = job[e]
         /\ JobExists(e) => job'[e].status = status /\ ~job'[e].ready
<1> DEFINE row == [job[e] EXCEPT !.status = status, !.ready = FALSE]
<1>1. job \in [Event -> JobRow]
  BY DEF TypeOK
<1>2. /\ row \in JobRow /\ row.status = status /\ ~row.ready
      /\ row.attempts = job[e].attempts
  BY <1>1 DEF JobRow
<1>3. CASE JobExists(e)
  <2>1. job' = [job EXCEPT ![e] = row]
    BY <1>1, <1>3 DEF SetJob
  <2> HIDE DEF row
  <2> QED
    BY <1>1, <1>2, <1>3, <2>1
<1>4. CASE ~JobExists(e)
  BY <1>1, <1>4 DEF SetJob
<1> QED
  BY <1>3, <1>4

\* What a request to Firebase adds to the history of its event and device.
LEMMA PushedAdds ==
  ASSUME TypeOK, NEW p \in Event \X Device,
         NEW accepted \in BOOLEAN, NEW doubtful \in BOOLEAN, NEW failed \in BOOLEAN
  PROVE  LET pushed == Pushed(p, accepted, doubtful, failed)
         IN  /\ pushed \in [Event \X Device -> PushState]
             /\ \A q \in (Event \X Device) \ {p} : pushed[q] = push[q]
             /\ pushed[p].failures = IF failed THEN push[p].failures + 1 ELSE push[p].failures
             /\ pushed[p].doubtful = (push[p].doubtful \/ doubtful)
             /\ pushed[p].accepted = IF accepted /\ push[p].accepted < 2
                                     THEN push[p].accepted + 1 ELSE push[p].accepted
<1>1. push \in [Event \X Device -> PushState]
  BY DEF TypeOK
<1> DEFINE row == [accepted |-> IF accepted /\ push[p].accepted < 2
                               THEN push[p].accepted + 1 ELSE push[p].accepted,
                   doubtful |-> push[p].doubtful \/ doubtful,
                   failures |-> IF failed THEN push[p].failures + 1 ELSE push[p].failures]
<1>2. Pushed(p, accepted, doubtful, failed) = [push EXCEPT ![p] = row]
  BY DEF Pushed
<1>3. row \in PushState
  BY <1>1 DEF PushState
<1> QED
  BY <1>1, <1>2, <1>3

\* Recording an outcome touches one delivery row and at most the listed registration
\* of its device.
LEMMA ResultRecorded ==
  ASSUME TypeOK, NEW k \in Worker, worker[k].pc = "record", RecordResult(k)
  PROVE  LET p == <<worker[k].event, worker[k].target>>
         IN  /\ p \in Event \X Device
             /\ delivery' \in [Event \X Device ->
                              {"none", "pending", "transient", "refused", "delivered"}]
             /\ \A q \in (Event \X Device) \ {p} : delivery'[q] = delivery[q]
             /\ delivery[p] = "delivered" => delivery'[p] = "delivered"
             /\ worker[k].result = "delivered" => delivery'[p] = "delivered"
             /\ worker[k].result # "transient" => delivery'[p] \in Settled
             /\ device' \in [Device -> DeviceRow]
             /\ \A d \in Device : /\ device'[d].user = device[d].user
                                 /\ device'[d].version = device[d].version
                                 /\ device'[d].born = device[d].born
             /\ \A d \in Device : device[d].active /\ ~device'[d].active =>
                  worker[k].listed[d] = device[d].version /\ worker[k].result = "invalid"
<1> DEFINE p == <<worker[k].event, worker[k].target>>
           status == IF worker[k].result = "invalid" THEN "refused" ELSE worker[k].result
<1>1. p \in Event \X Device /\ worker[k].event \in Event /\ worker[k].target \in Device
  BY DEF TypeOK
<1>2. status \in {"delivered", "transient", "refused"}
  BY DEF TypeOK, WorkState
<1>3. delivery' = [delivery EXCEPT ![p] = Upserted(p, status)]
  BY DEF RecordResult, Pair
<1>4. Upserted(p, status) = IF delivery[p] = "delivered" THEN "delivered" ELSE status
  BY DEF Upserted
<1>5. worker[k].result # "transient" => status \in Settled
  BY <1>2 DEF Settled
<1>6. worker[k].result = "delivered" => status = "delivered"
  OBVIOUS
<1>7. device \in [Device -> DeviceRow]
      /\ delivery \in [Event \X Device -> {"none", "pending", "transient", "refused", "delivered"}]
  BY DEF TypeOK
<1> HIDE DEF p, status
<1>8. /\ delivery' \in [Event \X Device ->
                        {"none", "pending", "transient", "refused", "delivered"}]
      /\ \A q \in (Event \X Device) \ {p} : delivery'[q] = delivery[q]
      /\ delivery'[p] = Upserted(p, status)
  BY <1>1, <1>2, <1>3, <1>4, <1>7
<1>9. CASE worker[k].result = "invalid" /\ StillRegistered(k)
  <2> DEFINE d == worker[k].target
             row == [device[d] EXCEPT !.active = FALSE]
  <2>1. device' = [device EXCEPT ![d] = row]
    BY <1>1, <1>7, <1>9 DEF RecordResult, Pair
  <2>2. /\ row \in DeviceRow /\ row.user = device[d].user /\ row.version = device[d].version
        /\ row.born = device[d].born
    BY <1>1, <1>7 DEF DeviceRow
  <2>3. worker[k].listed[d] = device[d].version
    BY <1>9 DEF StillRegistered
  <2> HIDE DEF row
  <2> QED
    BY <1>1, <1>4, <1>5, <1>6, <1>7, <1>8, <1>9, <2>1, <2>2, <2>3 DEF p, Settled
<1>10. CASE ~(worker[k].result = "invalid" /\ StillRegistered(k))
  <2>1. device' = device
    BY <1>10 DEF RecordResult
  <2> QED
    BY <1>1, <1>4, <1>5, <1>6, <1>7, <1>8, <2>1 DEF p, Settled
<1> QED
  BY <1>9, <1>10

\* A reservation never overwrites a delivered row, and leaves all others as they are.
LEMMA ReservationMade ==
  ASSUME TypeOK, NEW e \in Event, NEW d \in Device,
         delivery' = [delivery EXCEPT ![<<e, d>>] = Upserted(<<e, d>>, "pending")]
  PROVE  /\ delivery' \in [Event \X Device ->
                           {"none", "pending", "transient", "refused", "delivered"}]
         /\ \A q \in (Event \X Device) \ {<<e, d>>} : delivery'[q] = delivery[q]
         /\ delivery[<<e, d>>] = "delivered" => delivery'[<<e, d>>] = "delivered"
BY DEF TypeOK, Upserted

-----------------------------------------------------------------------------
(* Types are kept.                                                         *)

LEMMA InitType == Init => TypeOK
<1> SUFFICES ASSUME Init PROVE TypeOK
  OBVIOUS
<1> USE ConstantsAssumption DEF Init
<1>1. job \in [Event -> JobRow] /\ device \in [Device -> DeviceRow]
  BY DEF JobRow, NoJob, DeviceRow, NoDevice
<1>2. push \in [Event \X Device -> PushState]
  BY DEF PushState, NoPush
<1>3. worker \in [Worker -> WorkState] /\ \A k \in Worker : worker[k].pc = "idle"
  BY NoWorkTyped DEF NoWork
<1> QED
  BY <1>1, <1>2, <1>3 DEF TypeOK

LEMMA NoPushTyped == NoPush \in PushState
BY DEF NoPush, PushState

LEMMA CascadeTypes ==
  ASSUME TypeOK, NEW events \in SUBSET Event, NEW devices \in SUBSET Device,
         Cascade(events, devices)
  PROVE  /\ TypeOK'
         /\ \A e \in Event : job'[e] = IF e \in events THEN GoneJob ELSE job[e]
         /\ \A e \in Event, d \in Device :
              IF e \in events \/ d \in devices
              THEN delivery'[<<e, d>>] = "none" /\ push'[<<e, d>>] = NoPush
              ELSE delivery'[<<e, d>>] = delivery[<<e, d>>] /\ push'[<<e, d>>] = push[<<e, d>>]
         /\ \A d \in Device :
              /\ device'[d].version = device[d].version
              /\ IF d \in devices THEN device'[d].user = Nobody ELSE device'[d] = device[d]
<1> USE DEF Cascade
<1>1. /\ job \in [Event -> JobRow] /\ GoneJob \in JobRow
      /\ GoneJob.status = "deleted"
  BY DEF TypeOK, JobRow, GoneJob, NoJob
<1>2. job' \in [Event -> JobRow] /\ \A e \in Event : job'[e] = IF e \in events THEN GoneJob ELSE job[e]
  BY <1>1
<1>3. device \in [Device -> DeviceRow]
  BY DEF TypeOK
<1>4. ASSUME NEW d \in Device
      PROVE  LET row == [device[d] EXCEPT !.user = Nobody, !.active = FALSE]
             IN  row \in DeviceRow /\ row.user = Nobody /\ row.version = device[d].version
  BY <1>3 DEF DeviceRow
<1>5. /\ device' \in [Device -> DeviceRow]
      /\ \A d \in Device :
           /\ device'[d].version = device[d].version
           /\ IF d \in devices THEN device'[d].user = Nobody ELSE device'[d] = device[d]
  BY <1>3, <1>4
<1>6. push' \in [Event \X Device -> PushState]
  BY NoPushTyped DEF TypeOK
<1>7. delivery' \in [Event \X Device -> {"none", "pending", "transient", "refused", "delivered"}]
      /\ notice' \in [Event -> {"none", "unread", "read"}]
  BY DEF TypeOK
<1>8. \A e \in Event, d \in Device :
        IF e \in events \/ d \in devices
        THEN delivery'[<<e, d>>] = "none" /\ push'[<<e, d>>] = NoPush
        ELSE delivery'[<<e, d>>] = delivery[<<e, d>>] /\ push'[<<e, d>>] = push[<<e, d>>]
  OBVIOUS
<1>9. TypeOK'
  BY <1>2, <1>5, <1>6, <1>7 DEF TypeOK
<1> QED
  BY <1>2, <1>5, <1>8, <1>9

LEMMA UserTypes ==
  ASSUME TypeOK, NEW u \in User,
         \/ \E d \in Device : RegisterDevice(u, d) \/ UnregisterDevice(u, d)
         \/ MarkAllNotificationsRead(u)
  PROVE  TypeOK'
<1>1. ASSUME NEW d \in Device, RegisterDevice(u, d) PROVE TypeOK'
  BY <1>1 DEF RegisterDevice, TypeOK, DeviceRow
<1>2. ASSUME NEW d \in Device, UnregisterDevice(u, d) PROVE TypeOK'
  <2>1. device' \in [Device -> DeviceRow]
    BY <1>2 DEF UnregisterDevice, TypeOK, DeviceRow
  <2> QED
    BY <1>2, <2>1 DEF UnregisterDevice, TypeOK
<1>3. CASE MarkAllNotificationsRead(u)
  <2>1. notice' \in [Event -> {"none", "unread", "read"}]
    BY <1>3 DEF MarkAllNotificationsRead, TypeOK
  <2> QED
    BY <1>3, <2>1 DEF MarkAllNotificationsRead, TypeOK
<1> QED
  BY <1>1, <1>2, <1>3

LEMMA EventTypes ==
  ASSUME TypeOK, NEW e \in Event,
         \/ InsertWalletEvent(e) \/ MarkNotificationRead(e) \/ BackoffElapses(e)
         \/ AbandonedGoesStale(e) \/ AttendedGoesStale(e)
  PROVE  TypeOK'
<1>1. CASE InsertWalletEvent(e)
  <2>1. job' \in [Event -> JobRow]
    BY <1>1 DEF InsertWalletEvent, TypeOK, JobRow
  <2> QED
    BY <1>1, <2>1 DEF InsertWalletEvent, TypeOK
<1>2. CASE MarkNotificationRead(e)
  <2>1. notice' \in [Event -> {"none", "unread", "read"}]
    BY <1>2 DEF MarkNotificationRead, TypeOK
  <2> QED
    BY <1>2, <2>1 DEF MarkNotificationRead, TypeOK
<1>3. CASE BackoffElapses(e)
  <2>1. job' \in [Event -> JobRow]
    BY <1>3 DEF BackoffElapses, TypeOK, JobRow
  <2> QED
    BY <1>3, <2>1 DEF BackoffElapses, TypeOK
<1>4. CASE AbandonedGoesStale(e) \/ AttendedGoesStale(e)
  <2>0. job' = [job EXCEPT ![e].ready = TRUE]
    BY <1>4 DEF AbandonedGoesStale, AttendedGoesStale, GoesStale
  <2>1. job' \in [Event -> JobRow]
    BY <2>0 DEF TypeOK, JobRow
  <2>2. uncertain' \subseteq Event /\ incidents' \in Nat
    BY <1>4 DEF AbandonedGoesStale, AttendedGoesStale, Incident, TypeOK
  <2> QED
    BY <1>4, <2>1, <2>2 DEF AbandonedGoesStale, AttendedGoesStale, GoesStale, TypeOK
<1> QED
  BY <1>1, <1>2, <1>3, <1>4

\* A worker that moved has what its new step needs.
Equipped(k) ==
  /\ worker'[k].pc \notin {"idle", "batch"} => worker'[k].event \in Event
  /\ worker'[k].pc \in {"send", "record"} => worker'[k].target \in Device
  /\ worker'[k].pc = "record" => worker'[k].result # "none"

LEMMA WorkersTyped ==
  ASSUME TypeOK, NEW k \in Worker, Moved(k), Equipped(k),
         job' \in [Event -> JobRow], notice' \in [Event -> {"none", "unread", "read"}],
         delivery' \in [Event \X Device -> {"none", "pending", "transient", "refused", "delivered"}],
         device' \in [Device -> DeviceRow], push' \in [Event \X Device -> PushState],
         uncertain' \subseteq Event, incidents' \in Nat
  PROVE  TypeOK'
<1>1. ASSUME NEW l \in Worker
      PROVE  /\ worker'[l].pc \notin {"idle", "batch"} => worker'[l].event \in Event
             /\ worker'[l].pc \in {"send", "record"} => worker'[l].target \in Device
             /\ worker'[l].pc = "record" => worker'[l].result # "none"
  BY DEF TypeOK, Moved, Equipped
<1> QED
  BY <1>1 DEF TypeOK, Moved

LEMMA UnrecordedTyped ==
  ASSUME TypeOK, NEW k \in Worker, worker[k].pc \in {"send", "record"},
         push' \in {push, Unrecorded(k), Pushed(Pair(k), TRUE, TRUE, FALSE)}
  PROVE  push' \in [Event \X Device -> PushState]
<1> DEFINE p == <<worker[k].event, worker[k].target>>
<1>1. p \in Event \X Device /\ p = Pair(k)
  BY DEF TypeOK, Pair
<1> HIDE DEF p
<1>2. Pushed(p, TRUE, TRUE, FALSE) \in [Event \X Device -> PushState]
  BY <1>1, PushedAdds
<1>3. Unrecorded(k) \in [Event \X Device -> PushState]
  BY <1>1, PushedAdds DEF Unrecorded
<1> QED
  BY <1>1, <1>2, <1>3 DEF TypeOK

LEMMA ClaimMoves ==
  ASSUME TypeOK, NEW k \in Worker, NEW jobs \in SUBSET Event, ClaimJobs(k, jobs)
  PROVE  /\ Moved(k) /\ worker'[k].pc = "batch"
         /\ ~worker'[k].retry /\ \A d \in Device : worker'[k].listed[d] = 0
         /\ \A e \in Event :
              /\ e \in jobs => /\ job[e].status \in {"pending", "processing"} /\ job[e].ready
                               /\ job'[e].status = "processing" /\ ~job'[e].ready
                               /\ job'[e].attempts = job[e].attempts + 1
                               /\ worker'[k].batch[e] = job[e].attempts + 1
              /\ e \notin jobs => job'[e] = job[e] /\ worker'[k].batch[e] = 0
         /\ TypeOK'
<1> USE DEF ClaimJobs
<1>1. /\ job' \in [Event -> JobRow]
      /\ \A e \in Event :
           /\ e \in jobs => /\ job[e].status \in {"pending", "processing"} /\ job[e].ready
                            /\ job'[e].status = "processing" /\ ~job'[e].ready
                            /\ job'[e].attempts = job[e].attempts + 1
           /\ e \notin jobs => job'[e] = job[e]
  BY DEF TypeOK, JobRow, Claimable
<1> DEFINE batch == [e \in Event |-> IF e \in jobs THEN job'[e].attempts ELSE 0]
           w == [NoWork EXCEPT !.pc = "batch", !.batch = batch]
<1>2. batch \in [Event -> Nat]
  BY <1>1 DEF JobRow
<1>3. worker' = [worker EXCEPT ![k] = w]
  OBVIOUS
<1>4. \A e \in Event : batch[e] = IF e \in jobs THEN job[e].attempts + 1 ELSE 0
  BY <1>1
<1> HIDE DEF batch
<1>5. w \in WorkState
  BY <1>2, NoWorkTyped DEF WorkState
<1>6. /\ w.pc = "batch" /\ w.batch = batch /\ ~w.retry
      /\ w.listed = [d \in Device |-> 0]
  BY NoWorkTyped DEF WorkState, NoWork
<1> HIDE DEF w
<1>7. Moved(k) /\ worker'[k] = w
  BY <1>3, <1>5, UpdateMoves
<1>8. TypeOK'
  BY <1>1, <1>6, <1>7, WorkersTyped DEF Equipped, TypeOK
<1>9. \A e \in Event :
        worker'[k].batch[e] = IF e \in jobs THEN job[e].attempts + 1 ELSE 0
  BY <1>4, <1>6, <1>7
<1>10. /\ worker'[k].pc = "batch" /\ ~worker'[k].retry
       /\ \A d \in Device : worker'[k].listed[d] = 0
  BY <1>6, <1>7
<1> HIDE DEF ClaimJobs
<1> QED
  BY <1>1, <1>7, <1>8, <1>9, <1>10

LEMMA AttemptTypes ==
  ASSUME TypeOK, NEW k \in Worker, BatchStep(k)
  PROVE  TypeOK'
<1>1. ASSUME NEW e \in Event, PickJob(k, e) PROVE TypeOK'
  <2>1. Moved(k) /\ Equipped(k)
    BY <1>1, PickMoves DEF Keeps, Equipped
  <2> QED
    BY <1>1, <2>1, WorkersTyped DEF PickJob, TypeOK
<1>2. CASE ReadContext(k)
  <2>1. CASE Goto(k, "ensure")
    BY <1>2, <2>1, GotoMoves, WorkersTyped DEF ReadContext, Keeps, Equipped, TypeOK
  <2>2. CASE FinishJob(k)
    BY <1>2, <2>2, FinishMoves, WorkersTyped DEF ReadContext, Equipped, TypeOK
  <2> QED
    BY <1>2, <2>1, <2>2 DEF ReadContext
<1>3. CASE EnsureNotification(k)
  <2>1. CASE JobExists(worker[k].event)
    <3>1. notice' \in [Event -> {"none", "unread", "read"}]
      BY <1>3, <2>1 DEF EnsureNotification, NoticeEnsured, TypeOK
    <3> QED
      BY <1>3, <2>1, <3>1, GotoMoves, WorkersTyped DEF EnsureNotification, Keeps, Equipped, TypeOK
  <2>2. CASE ~JobExists(worker[k].event)
    BY <1>3, <2>2, ThrowMoves, WorkersTyped DEF EnsureNotification, Keeps, Equipped, TypeOK
  <2> QED
    BY <2>1, <2>2
<1>4. CASE ListDevices(k)
  BY <1>4, ListMoves, WorkersTyped DEF ListDevices, Keeps, Equipped, TypeOK
<1>5. CASE ReadDeliveries(k)
  BY <1>5, ReadDeliveriesMoves, WorkersTyped DEF ReadDeliveries, Keeps, Equipped, TypeOK
<1>6. ASSUME NEW d \in Device, ReserveDelivery(k, d) PROVE TypeOK'
  <2>1. worker[k].event \in Event
    BY <1>6 DEF ReserveDelivery, TypeOK
  <2>2. CASE JobExists(worker[k].event) /\ SameRow(k, d)
    <3>1. worker'[k].pc \in {"reserve", "catch", "sent", "send"} /\ worker'[k].target = d
      BY <1>6, <2>2, ReserveMoves DEF NextStep
    <3>2. delivery' = [delivery EXCEPT ![<<worker[k].event, d>>] = Upserted(<<worker[k].event, d>>, "pending")]
      BY <1>6, <2>2 DEF ReserveDelivery
    <3>3. delivery' \in [Event \X Device -> {"none", "pending", "transient", "refused", "delivered"}]
      BY <2>1, <3>2, ReservationMade
    <3>4. Keeps(k) /\ worker'[k].event = worker[k].event
      BY <1>6, <2>2, ReserveMoves
    <3> QED
      BY <1>6, <2>1, <3>1, <3>3, <3>4, WorkersTyped DEF ReserveDelivery, Keeps, Equipped, TypeOK
  <2>3. CASE ~(JobExists(worker[k].event) /\ SameRow(k, d))
    <3>1. Throw(k) /\ UNCHANGED <<job, notice, delivery, device, push, uncertain, incidents>>
      BY <1>6, <2>3 DEF ReserveDelivery
    <3> QED
      BY <2>1, <3>1, ThrowMoves, WorkersTyped DEF Keeps, Equipped, TypeOK
  <2> QED
    BY <2>2, <2>3
<1>7. CASE SendPush(k)
  <2> DEFINE p == <<worker[k].event, worker[k].target>>
  <2>1. p \in Event \X Device /\ p = Pair(k) /\ worker[k].event \in Event /\ worker[k].target \in Device
    BY <1>7 DEF SendPush, TypeOK, Pair
  <2>2. PICK accepted \in BOOLEAN :
          push' = Pushed(p, accepted, accepted /\ worker'[k].result = "transient",
                         worker'[k].result = "transient")
    BY <1>7, <2>1, SendMoves
  <2> HIDE DEF p
  <2>3. push' \in [Event \X Device -> PushState]
    <3> DEFINE lost == accepted /\ worker'[k].result = "transient"
               failed == worker'[k].result = "transient"
    <3>1. lost \in BOOLEAN /\ failed \in BOOLEAN
      OBVIOUS
    <3>2. push' = Pushed(p, accepted, lost, failed)
      BY <2>2
    <3> HIDE DEF lost, failed
    <3> QED
      BY <2>1, <3>1, <3>2, PushedAdds
  <2>4. Moved(k) /\ Equipped(k)
    BY <1>7, <2>1, SendMoves DEF Keeps, Equipped
  <2>5. UNCHANGED <<job, notice, delivery, device, uncertain, incidents>>
    BY <1>7 DEF SendPush
  <2> QED
    BY <2>3, <2>4, <2>5, WorkersTyped DEF TypeOK
<1>8. CASE RecordDelivery(k)
  <2>1. worker[k].pc = "record" /\ worker[k].event \in Event
    BY <1>8 DEF RecordDelivery, TypeOK
  <2>2. CASE RowsExist(k)
    <3>1. RecordResult(k) /\ UNCHANGED <<job, notice, push, uncertain, incidents>>
      BY <1>8, <2>2 DEF RecordDelivery
    <3>2. /\ delivery' \in [Event \X Device -> {"none", "pending", "transient", "refused", "delivered"}]
          /\ device' \in [Device -> DeviceRow]
      BY <2>1, <3>1, ResultRecorded
    <3> DEFINE retry == worker[k].retry \/ worker[k].result = "transient"
    <3>3. CASE NextStep(worker[k].queue, retry) = "catch"
      <4>1. Throw(k)
        BY <1>8, <2>2, <3>3 DEF RecordDelivery
      <4> QED
        BY <2>1, <3>1, <3>2, <4>1, ThrowMoves, WorkersTyped DEF Keeps, Equipped, TypeOK
    <3>4. CASE NextStep(worker[k].queue, retry) # "catch"
      <4>1. retry \in BOOLEAN
        OBVIOUS
      <4> HIDE DEF retry
      <4>2. Keeps(k) /\ worker'[k].event = worker[k].event /\ worker'[k].pc \in {"reserve", "sent"}
        BY <1>8, <2>2, <3>4, <4>1, RecordMoves DEF retry
      <4> QED
        BY <2>1, <3>1, <3>2, <4>2, WorkersTyped DEF Keeps, Equipped, TypeOK
    <3> QED
      BY <3>3, <3>4
  <2>3. CASE ~RowsExist(k)
    <3>1. /\ Throw(k) /\ push' = Unrecorded(k)
          /\ UNCHANGED <<job, notice, delivery, device, uncertain, incidents>>
      BY <1>8, <2>3 DEF RecordDelivery
    <3>2. push' \in [Event \X Device -> PushState]
      BY <2>1, <3>1, UnrecordedTyped
    <3> QED
      BY <2>1, <3>1, <3>2, ThrowMoves, WorkersTyped DEF Keeps, Equipped, TypeOK
  <2> QED
    BY <2>2, <2>3
<1>9. CASE MarkSent(k)
  <2>1. worker[k].event \in Event /\ SetJob(worker[k].event, "sent") /\ FinishJob(k)
    BY <1>9 DEF MarkSent, TypeOK
  <2>2. job' \in [Event -> JobRow]
    BY <2>1, SetJobSets
  <2> QED
    BY <1>9, <2>1, <2>2, FinishMoves, WorkersTyped DEF MarkSent, Equipped, TypeOK
<1>10. CASE RetryOrFail(k)
  <2>1. worker[k].event \in Event /\ SetJob(worker[k].event, AfterFailure(k)) /\ FinishJob(k)
    BY <1>10 DEF RetryOrFail, TypeOK
  <2>2. AfterFailure(k) \in {"failed", "pending"}
    BY DEF AfterFailure
  <2>3. job' \in [Event -> JobRow]
    BY <2>1, <2>2, SetJobSets
  <2> QED
    BY <1>10, <2>1, <2>3, FinishMoves, WorkersTyped DEF RetryOrFail, Equipped, TypeOK
<1> QED
  BY <1>1, <1>2, <1>3, <1>4, <1>5, <1>6, <1>7, <1>8, <1>9, <1>10 DEF BatchStep

\* A statement that was carried out although it looked as if it failed.
LEMMA LooksFailedCases ==
  ASSUME TypeOK, NEW k \in Worker, StatementLooksFailed(k)
  PROVE  /\ Throw(k) /\ worker[k].event \in Event
         /\ UNCHANGED <<notice, push, incidents>>
         /\ \/ /\ worker[k].pc = "reserve"
               /\ \E d \in worker[k].queue :
                    /\ JobExists(worker[k].event) /\ SameRow(k, d)
                    /\ delivery' = [delivery EXCEPT ![<<worker[k].event, d>>] =
                                      Upserted(<<worker[k].event, d>>, "pending")]
               /\ UNCHANGED <<job, device, uncertain>>
            \/ /\ worker[k].pc = "record" /\ RowsExist(k) /\ RecordResult(k)
               /\ UNCHANGED <<job, uncertain>>
            \/ /\ worker[k].pc = "sent" /\ SetJob(worker[k].event, "sent")
               /\ uncertain' = uncertain \union {worker[k].event}
               /\ UNCHANGED <<delivery, device>>
BY DEF StatementLooksFailed, TypeOK

LEMMA CrashCases ==
  ASSUME TypeOK, NEW k \in Worker, Crash(k)
  PROVE  /\ worker' = [worker EXCEPT ![k] = NoWork]
         /\ incidents' = incidents + 1
         /\ UNCHANGED <<job, notice, delivery, device, uncertain>>
         /\ \/ push' = push
            \/ worker[k].pc = "send" /\ push' = Pushed(Pair(k), TRUE, TRUE, FALSE)
            \/ worker[k].pc = "record" /\ push' = Unrecorded(k)
         /\ worker[k].pc = "record" => push' = Unrecorded(k)
BY DEF Crash, Incident

LEMMA FaultTypes ==
  ASSUME TypeOK, NEW k \in Worker, WorkerFault(k)
  PROVE  TypeOK'
<1>1. CASE StatementFails(k)
  <2>1. /\ Throw(k) /\ worker[k].event \in Event
        /\ UNCHANGED <<job, notice, delivery, device, uncertain, incidents>>
    BY <1>1 DEF StatementFails, TypeOK
  <2>2. push' \in [Event \X Device -> PushState]
    BY <1>1, UnrecordedTyped DEF StatementFails, TypeOK
  <2> QED
    BY <2>1, <2>2, ThrowMoves, WorkersTyped DEF Keeps, Equipped, TypeOK
<1>2. CASE StatementLooksFailed(k)
  <2>1. Throw(k) /\ worker[k].event \in Event /\ UNCHANGED <<notice, push, incidents>>
    BY <1>2, LooksFailedCases
  <2>2. Moved(k) /\ Equipped(k)
    BY <2>1, ThrowMoves DEF Keeps, Equipped
  <2>3. ASSUME NEW d \in worker[k].queue,
               delivery' = [delivery EXCEPT ![<<worker[k].event, d>>] =
                              Upserted(<<worker[k].event, d>>, "pending")],
               UNCHANGED <<job, device, uncertain>>
        PROVE  TypeOK'
    <3>1. d \in Device
      BY DEF TypeOK, WorkState
    <3>2. delivery' \in [Event \X Device -> {"none", "pending", "transient", "refused", "delivered"}]
      BY <2>1, <2>3, <3>1, ReservationMade
    <3> QED
      BY <2>1, <2>2, <2>3, <3>2, WorkersTyped DEF TypeOK
  <2>4. CASE worker[k].pc = "record" /\ RecordResult(k) /\ UNCHANGED <<job, uncertain>>
    <3>1. /\ delivery' \in [Event \X Device -> {"none", "pending", "transient", "refused", "delivered"}]
          /\ device' \in [Device -> DeviceRow]
      BY <2>4, ResultRecorded
    <3> QED
      BY <2>1, <2>2, <2>4, <3>1, WorkersTyped DEF TypeOK
  <2>5. CASE /\ SetJob(worker[k].event, "sent")
             /\ uncertain' = uncertain \union {worker[k].event}
             /\ UNCHANGED <<delivery, device>>
    <3>1. job' \in [Event -> JobRow]
      BY <2>1, <2>5, SetJobSets
    <3> QED
      BY <2>1, <2>2, <2>5, <3>1, WorkersTyped DEF TypeOK
  <2> QED
    BY <1>2, <2>3, <2>4, <2>5, LooksFailedCases
<1>3. CASE BatchAborts(k)
  <2>1. /\ worker' = [worker EXCEPT ![k] = NoWork] /\ worker[k].event \in Event
        /\ UNCHANGED job \/ SetJob(worker[k].event, AfterFailure(k))
        /\ incidents' = incidents + 1
        /\ UNCHANGED <<notice, delivery, device, push, uncertain>>
    BY <1>3 DEF BatchAborts, Incident, TypeOK
  <2>2. AfterFailure(k) \in {"failed", "pending"}
    BY DEF AfterFailure
  <2>3. job' \in [Event -> JobRow]
    BY <2>1, <2>2, SetJobSets DEF TypeOK
  <2>4. Moved(k) /\ Equipped(k)
    BY <2>1, IdleMoves DEF Equipped
  <2> QED
    BY <2>1, <2>3, <2>4, WorkersTyped DEF TypeOK
<1>4. CASE Crash(k)
  <2>1. push' \in [Event \X Device -> PushState]
    BY <1>4, CrashCases, UnrecordedTyped DEF TypeOK
  <2>2. Moved(k) /\ Equipped(k)
    BY <1>4, CrashCases, IdleMoves DEF Equipped
  <2>3. UNCHANGED <<job, notice, delivery, device, uncertain>> /\ incidents' = incidents + 1
    BY <1>4, CrashCases
  <2> QED
    BY <2>1, <2>2, <2>3, WorkersTyped DEF TypeOK
<1> QED
  BY <1>1, <1>2, <1>3, <1>4 DEF WorkerFault

\* Every step keeps the types.
LEMMA TypeStep == TypeOK /\ [Next]_vars => TypeOK'
<1> SUFFICES ASSUME TypeOK, [Next]_vars PROVE TypeOK'
  OBVIOUS
<1>1. CASE UNCHANGED vars
  BY <1>1 DEF vars, TypeOK
<1>2. ASSUME NEW u \in User, UserStep(u) PROVE TypeOK'
  <2>1. CASE DeleteAccount(u)
    <3> DEFINE events == {e \in Event : Owner[e] = u /\ JobExists(e)}
               devices == {d \in Device : device[d].user = u}
    <3>1. Cascade(events, devices)
      BY <2>1 DEF DeleteAccount
    <3> QED
      BY <3>1, CascadeTypes
  <2> QED
    BY <1>2, <2>1, UserTypes DEF UserStep
<1>3. ASSUME NEW e \in Event, EventStep(e) PROVE TypeOK'
  <2>1. CASE DeleteWallet(e)
    BY <2>1, CascadeTypes DEF DeleteWallet
  <2> QED
    BY <1>3, <2>1, EventTypes DEF EventStep
<1>4. ASSUME NEW k \in Worker, WorkerStep(k) PROVE TypeOK'
  BY <1>4, ClaimMoves, AttemptTypes, FaultTypes DEF WorkerStep
<1> QED
  BY <1>1, <1>2, <1>3, <1>4 DEF Next

THEOREM TypeCorrect == Spec => []TypeOK
<1>1. Init => TypeOK
  BY InitType
<1>2. TypeOK /\ [Next]_vars => TypeOK'
  BY TypeStep
<1> QED
  BY <1>1, <1>2, PTL DEF Spec

-----------------------------------------------------------------------------
(* What no step takes back.                                                *)

\* What a worker does to the rows it shares with others.
LEMMA WorkerKeepsRows ==
  ASSUME TypeOK, NEW k \in Worker, WorkerStep(k)
  PROVE  /\ \A p \in Event \X Device : delivery[p] = "delivered" => delivery'[p] = "delivered"
         /\ \A e \in Event : notice[e] = "read" => notice'[e] = "read"
         /\ \A d \in Device :
              device[d].active /\ ~device'[d].active =>
                worker[k].listed[d] = device[d].version /\ worker[k].result = "invalid"
<1> DEFINE Kept ==
      /\ \A p \in Event \X Device : delivery[p] = "delivered" => delivery'[p] = "delivered"
      /\ \A e \in Event : notice[e] = "read" => notice'[e] = "read"
      /\ \A d \in Device :
           device[d].active /\ ~device'[d].active =>
             worker[k].listed[d] = device[d].version /\ worker[k].result = "invalid"
<1>1. ASSUME UNCHANGED <<notice, delivery, device>> PROVE Kept
  BY <1>1
<1>2. ASSUME NEW d \in Device, worker[k].event \in Event, UNCHANGED <<notice, device>>,
             delivery' = [delivery EXCEPT ![<<worker[k].event, d>>] =
                            Upserted(<<worker[k].event, d>>, "pending")]
      PROVE  Kept
  BY <1>2, ReservationMade
<1>3. ASSUME worker[k].pc = "record", RecordResult(k), UNCHANGED notice PROVE Kept
  BY <1>3, ResultRecorded
<1>4. CASE EnsureNotification(k)
  <2>1. \A e \in Event : notice[e] = "read" => notice'[e] = "read"
    BY <1>4 DEF EnsureNotification, NoticeEnsured, TypeOK
  <2> QED
    BY <1>4, <2>1 DEF EnsureNotification
<1> HIDE DEF Kept
<1>5. ASSUME NEW d \in Device, ReserveDelivery(k, d) PROVE Kept
  <2>1. worker[k].event \in Event /\ UNCHANGED <<notice, device>>
    BY <1>5 DEF ReserveDelivery, TypeOK
  <2>2. \/ delivery' = delivery
        \/ delivery' = [delivery EXCEPT ![<<worker[k].event, d>>] =
                          Upserted(<<worker[k].event, d>>, "pending")]
    BY <1>5 DEF ReserveDelivery
  <2> QED
    BY <1>1, <1>2, <2>1, <2>2
<1>6. ASSUME RecordDelivery(k) PROVE Kept
  <2>1. /\ worker[k].pc = "record" /\ UNCHANGED notice
        /\ RecordResult(k) \/ UNCHANGED <<delivery, device>>
    BY <1>6 DEF RecordDelivery
  <2> QED
    BY <1>1, <1>3, <2>1
<1>7. ASSUME StatementLooksFailed(k) PROVE Kept
  <2>1. worker[k].queue \subseteq Device
    BY DEF TypeOK, WorkState
  <2>2. worker[k].event \in Event /\ UNCHANGED notice
    BY <1>7, LooksFailedCases
  <2>3. \/ \E d \in worker[k].queue :
             /\ delivery' = [delivery EXCEPT ![<<worker[k].event, d>>] =
                               Upserted(<<worker[k].event, d>>, "pending")]
             /\ UNCHANGED device
        \/ worker[k].pc = "record" /\ RecordResult(k)
        \/ UNCHANGED <<delivery, device>>
    BY <1>7, LooksFailedCases
  <2> QED
    BY <1>1, <1>2, <1>3, <2>1, <2>2, <2>3
<1>8. CASE \/ \E jobs \in SUBSET Event : ClaimJobs(k, jobs)
           \/ \E e \in Event : PickJob(k, e)
           \/ ReadContext(k) \/ ListDevices(k) \/ ReadDeliveries(k)
           \/ SendPush(k) \/ MarkSent(k) \/ RetryOrFail(k)
           \/ StatementFails(k) \/ BatchAborts(k) \/ Crash(k)
  <2>1. UNCHANGED <<notice, delivery, device>>
    BY <1>8 DEF ClaimJobs, PickJob, ReadContext, ListDevices, ReadDeliveries, SendPush,
                MarkSent, RetryOrFail, StatementFails, BatchAborts, Crash
  <2> QED
    BY <1>1, <2>1
<1>9. Kept
  BY <1>4, <1>5, <1>6, <1>7, <1>8 DEF WorkerStep, BatchStep, WorkerFault, Kept
<1> QED
  BY <1>9 DEF Kept

THEOREM NothingIsTakenBack == Spec => NothingTakenBack
<1> DEFINE Kept ==
      /\ \A p \in Event \X Device :
           delivery[p] = "delivered" /\ delivery'[p] # "delivered" =>
             job'[p[1]].status = "deleted" \/ device'[p[2]].user = Nobody
      /\ \A e \in Event :
           notice[e] = "read" /\ job'[e].status # "deleted" => notice'[e] = "read"
<1>1. ASSUME TypeOK, [Next]_vars PROVE Kept
  <2>1. CASE UNCHANGED vars
    BY <2>1 DEF vars
  <2>2. ASSUME NEW events \in SUBSET Event, NEW devices \in SUBSET Device,
               Cascade(events, devices)
        PROVE  Kept
    <3>1. GoneJob.status = "deleted"
      BY DEF GoneJob, NoJob
    <3>2. ASSUME NEW p \in Event \X Device, delivery[p] = "delivered", delivery'[p] # "delivered"
          PROVE  job'[p[1]].status = "deleted" \/ device'[p[2]].user = Nobody
      <4>1. PICK e \in Event, d \in Device : p = <<e, d>>
        OBVIOUS
      <4>2. e \in events \/ d \in devices
        BY <1>1, <2>2, <3>2, <4>1, CascadeTypes
      <4>3. job'[e].status = "deleted" \/ device'[d].user = Nobody
        BY <1>1, <2>2, <3>1, <4>2, CascadeTypes
      <4> QED
        BY <4>1, <4>3
    <3>3. \A e \in Event : notice[e] = "read" /\ job'[e].status # "deleted" => notice'[e] = "read"
      BY <2>2, <3>1 DEF Cascade
    <3> QED
      BY <3>2, <3>3
  <2>3. ASSUME NEW u \in User, UserStep(u) PROVE Kept
    <3>1. CASE DeleteAccount(u)
      <4> DEFINE events == {e \in Event : Owner[e] = u /\ JobExists(e)}
                 devices == {d \in Device : device[d].user = u}
      <4>1. Cascade(events, devices)
        BY <3>1 DEF DeleteAccount
      <4> HIDE DEF Kept
      <4> QED
        BY <2>2, <4>1
    <3>2. CASE \E d \in Device : RegisterDevice(u, d) \/ UnregisterDevice(u, d)
      BY <3>2 DEF RegisterDevice, UnregisterDevice
    <3>3. CASE MarkAllNotificationsRead(u)
      BY <3>3 DEF MarkAllNotificationsRead
    <3> QED
      BY <2>3, <3>1, <3>2, <3>3 DEF UserStep
  <2>4. ASSUME NEW e \in Event, EventStep(e) PROVE Kept
    <3>1. CASE DeleteWallet(e)
      BY <2>2, <3>1 DEF DeleteWallet
    <3>2. CASE MarkNotificationRead(e)
      BY <3>2 DEF MarkNotificationRead
    <3>3. CASE \/ InsertWalletEvent(e) \/ BackoffElapses(e)
               \/ AbandonedGoesStale(e) \/ AttendedGoesStale(e)
      BY <3>3 DEF InsertWalletEvent, BackoffElapses, AbandonedGoesStale, AttendedGoesStale, GoesStale
    <3> QED
      BY <2>4, <3>1, <3>2, <3>3 DEF EventStep
  <2>5. ASSUME NEW k \in Worker, WorkerStep(k) PROVE Kept
    BY <1>1, <2>5, WorkerKeepsRows
  <2> QED
    BY <1>1, <2>1, <2>3, <2>4, <2>5 DEF Next
<1>2. TypeOK /\ [Next]_vars => [Kept]_vars
  BY <1>1
<1>3. Spec => [][Kept]_vars
  BY <1>2, TypeCorrect, PTL DEF Spec
<1> QED
  BY <1>3 DEF NothingTakenBack

THEOREM NewRegistrationsAreKept == Spec => NewerRegistrationKept
<1> DEFINE Kept ==
      \A d \in Device :
        device[d].active /\ ~device'[d].active /\ worker' # worker =>
          \E k \in Worker : /\ worker[k].listed[d] = device[d].version
                            /\ worker[k].result = "invalid"
<1>1. ASSUME TypeOK, [Next]_vars PROVE Kept
  <2>1. CASE UNCHANGED vars
    BY <2>1 DEF vars
  <2>2. ASSUME NEW u \in User, UserStep(u) PROVE Kept
    <3>1. UNCHANGED worker
      BY <2>2 DEF UserStep, RegisterDevice, UnregisterDevice, MarkAllNotificationsRead,
                  DeleteAccount, Cascade
    <3> QED
      BY <3>1
  <2>3. ASSUME NEW e \in Event, EventStep(e) PROVE Kept
    <3>1. UNCHANGED worker
      BY <2>3 DEF EventStep, InsertWalletEvent, MarkNotificationRead, DeleteWallet, Cascade,
                  BackoffElapses, AbandonedGoesStale, AttendedGoesStale, GoesStale
    <3> QED
      BY <3>1
  <2>4. ASSUME NEW k \in Worker, WorkerStep(k) PROVE Kept
    BY <1>1, <2>4, WorkerKeepsRows
  <2> QED
    BY <1>1, <2>1, <2>2, <2>3, <2>4 DEF Next
<1>2. TypeOK /\ [Next]_vars => [Kept]_vars
  BY <1>1
<1>3. Spec => [][Kept]_vars
  BY <1>2, TypeCorrect, PTL DEF Spec
<1> QED
  BY <1>3 DEF NewerRegistrationKept

-----------------------------------------------------------------------------
(* Claims.                                                                 *)

\* What the claims are about: who holds which, and the jobs.
ClaimsInv == TypeOK /\ BatchesHeld /\ ClaimsNumbered /\ OneAtAJob

\* The worker goes on with its job, and neither claims nor jobs change.
GoesOn(k) ==
  /\ Keeps(k) /\ UNCHANGED <<job, uncertain, incidents>>
  /\ worker'[k].pc \notin {"idle", "batch"}
  /\ worker'[k].event \in Event /\ worker'[k].batch[worker'[k].event] > 0

\* The worker ends its job, which it gives a status if the job still exists.
Ends(k) ==
  /\ worker[k].event \in Event /\ worker[k].pc \notin {"idle", "batch"}
  /\ FinishJob(k) /\ UNCHANGED <<push, uncertain, incidents>>
  /\ \/ ~JobExists(worker[k].event) /\ UNCHANGED job
     \/ worker[k].pc = "sent" /\ SetJob(worker[k].event, "sent")
     \/ worker[k].pc = "catch" /\ SetJob(worker[k].event, AfterFailure(k))

\* The job is marked sent and the worker does not learn of it.
SendsUnaware(k) ==
  /\ Keeps(k) /\ SetJob(worker[k].event, "sent") /\ UNCHANGED <<push, incidents>>
  /\ worker[k].pc = "sent" /\ worker[k].event \in Event
  /\ uncertain' = uncertain \union {worker[k].event}
  /\ worker'[k].pc = "catch" /\ worker'[k].event = worker[k].event

\* Only the history of the event and device a worker is at changes.
PushesAtMost(k) ==
  \A e \in Event, d \in Device :
    push'[<<e, d>>] # push[<<e, d>>] =>
      worker[k].pc \in {"send", "record"} /\ worker[k].event = e /\ worker[k].target = d

LEMMA UnrecordedAtMost ==
  ASSUME TypeOK, NEW k \in Worker, worker[k].pc \in {"send", "record"},
         NEW accepted \in BOOLEAN, NEW doubtful \in BOOLEAN, NEW failed \in BOOLEAN,
         push' = Pushed(Pair(k), accepted, doubtful, failed)
  PROVE  PushesAtMost(k)
<1> DEFINE p == <<worker[k].event, worker[k].target>>
<1>1. p \in Event \X Device /\ p = Pair(k)
  BY DEF TypeOK, Pair
<1>2. \A q \in (Event \X Device) \ {p} : push'[q] = push[q]
  <2> HIDE DEF p
  <2> QED
    BY <1>1, PushedAdds
<1> QED
  BY <1>2 DEF PushesAtMost

LEMMA AttemptKinds ==
  ASSUME TypeOK, BatchesHeld, NEW k \in Worker,
         BatchStep(k) \/ StatementFails(k) \/ StatementLooksFailed(k)
  PROVE  /\ GoesOn(k) \/ Ends(k) \/ SendsUnaware(k)
         /\ PushesAtMost(k)
<1> DEFINE Kinds == (GoesOn(k) \/ Ends(k) \/ SendsUnaware(k)) /\ PushesAtMost(k)
<1>0. /\ UNCHANGED push => PushesAtMost(k)
      /\ worker[k].pc \notin {"idle", "batch"} =>
           worker[k].event \in Event /\ worker[k].batch[worker[k].event] > 0
  BY DEF PushesAtMost, TypeOK, BatchesHeld
<1>a. ASSUME worker[k].pc \notin {"idle", "batch"}, Throw(k),
             UNCHANGED <<job, uncertain, incidents>>
      PROVE  GoesOn(k)
  BY <1>0, <1>a, ThrowMoves DEF GoesOn, Keeps
<1>b. ASSUME worker[k].pc = "record", push' = Unrecorded(k) PROVE PushesAtMost(k)
  <2> DEFINE lost == worker[k].result = "delivered"
  <2>1. lost \in BOOLEAN /\ push' = Pushed(Pair(k), FALSE, lost, FALSE)
    BY <1>b DEF Unrecorded
  <2> HIDE DEF lost
  <2> QED
    BY <1>b, <2>1, UnrecordedAtMost
<1> HIDE DEF Kinds
<1>1. ASSUME NEW e \in Event, PickJob(k, e) PROVE Kinds
  <2>1. worker[k].batch[e] > 0 /\ UNCHANGED <<job, push, uncertain, incidents>>
    BY <1>1 DEF PickJob
  <2> QED
    BY <1>0, <1>1, <2>1, PickMoves DEF Kinds, GoesOn, Keeps
<1>2. ASSUME ReadContext(k) PROVE Kinds
  <2>1. worker[k].pc = "context" /\ UNCHANGED <<job, push, uncertain, incidents>>
    BY <1>2 DEF ReadContext
  <2>2. CASE JobExists(worker[k].event)
    <3>1. Goto(k, "ensure")
      BY <1>2, <2>2 DEF ReadContext
    <3> QED
      BY <1>0, <2>1, <3>1, GotoMoves DEF Kinds, GoesOn, Keeps
  <2>3. CASE ~JobExists(worker[k].event)
    <3>1. FinishJob(k)
      BY <1>2, <2>3 DEF ReadContext
    <3> QED
      BY <1>0, <2>1, <2>3, <3>1 DEF Kinds, Ends
  <2> QED
    BY <2>2, <2>3
<1>3. ASSUME EnsureNotification(k) PROVE Kinds
  <2>1. worker[k].pc = "ensure" /\ UNCHANGED <<job, push, uncertain, incidents>>
    BY <1>3 DEF EnsureNotification
  <2>2. Goto(k, "list") \/ Throw(k)
    BY <1>3 DEF EnsureNotification
  <2> QED
    BY <1>0, <1>a, <2>1, <2>2, GotoMoves DEF Kinds, GoesOn, Keeps
<1>4. ASSUME ListDevices(k) PROVE Kinds
  <2>1. worker[k].pc = "list" /\ UNCHANGED <<job, push, uncertain, incidents>>
    BY <1>4 DEF ListDevices
  <2> QED
    BY <1>0, <1>4, <2>1, ListMoves DEF Kinds, GoesOn, Keeps
<1>5. ASSUME ReadDeliveries(k) PROVE Kinds
  <2>1. worker[k].pc = "states" /\ UNCHANGED <<job, push, uncertain, incidents>>
    BY <1>5 DEF ReadDeliveries
  <2> QED
    BY <1>0, <1>5, <2>1, ReadDeliveriesMoves DEF Kinds, GoesOn, Keeps
<1>6. ASSUME NEW d \in Device, ReserveDelivery(k, d) PROVE Kinds
  <2>1. worker[k].pc = "reserve" /\ UNCHANGED <<job, push, uncertain, incidents>>
    BY <1>6 DEF ReserveDelivery
  <2>2. CASE JobExists(worker[k].event) /\ SameRow(k, d)
    <3>1. worker'[k].pc \in {"reserve", "catch", "sent", "send"}
      BY <1>6, <2>2, ReserveMoves DEF NextStep
    <3> QED
      BY <1>0, <1>6, <2>1, <2>2, <3>1, ReserveMoves DEF Kinds, GoesOn, Keeps
  <2>3. CASE ~(JobExists(worker[k].event) /\ SameRow(k, d))
    <3>1. Throw(k)
      BY <1>6, <2>3 DEF ReserveDelivery
    <3> QED
      BY <1>0, <1>a, <2>1, <3>1 DEF Kinds
  <2> QED
    BY <2>2, <2>3
<1>7. ASSUME SendPush(k) PROVE Kinds
  <2>1. worker[k].pc = "send" /\ UNCHANGED <<job, uncertain, incidents>>
    BY <1>7 DEF SendPush
  <2>2. PICK accepted \in BOOLEAN :
          push' = Pushed(Pair(k), accepted, accepted /\ worker'[k].result = "transient",
                         worker'[k].result = "transient")
    BY <1>7, SendMoves
  <2> DEFINE lost == accepted /\ worker'[k].result = "transient"
             failed == worker'[k].result = "transient"
  <2>3. lost \in BOOLEAN /\ failed \in BOOLEAN /\ push' = Pushed(Pair(k), accepted, lost, failed)
    BY <2>2
  <2> HIDE DEF lost, failed
  <2>4. PushesAtMost(k)
    BY <2>1, <2>3, UnrecordedAtMost
  <2> QED
    BY <1>0, <1>7, <2>1, <2>4, SendMoves DEF Kinds, GoesOn, Keeps
<1>8. ASSUME RecordDelivery(k) PROVE Kinds
  <2>1. worker[k].pc = "record" /\ UNCHANGED <<job, uncertain, incidents>>
    BY <1>8 DEF RecordDelivery
  <2>2. CASE RowsExist(k)
    <3> DEFINE retry == worker[k].retry \/ worker[k].result = "transient"
    <3>1. UNCHANGED push /\ retry \in BOOLEAN
      BY <1>8, <2>2 DEF RecordDelivery
    <3>2. NextStep(worker[k].queue, retry) = "catch" => Throw(k)
      BY <1>8, <2>2 DEF RecordDelivery
    <3> HIDE DEF retry
    <3>3. CASE NextStep(worker[k].queue, retry) # "catch"
      BY <1>0, <1>8, <2>1, <2>2, <3>1, <3>3, RecordMoves DEF Kinds, GoesOn, Keeps, retry
    <3> QED
      BY <1>0, <1>a, <2>1, <3>1, <3>2, <3>3 DEF Kinds
  <2>3. CASE ~RowsExist(k)
    <3>1. Throw(k) /\ push' = Unrecorded(k)
      BY <1>8, <2>3 DEF RecordDelivery
    <3> QED
      BY <1>a, <1>b, <2>1, <3>1 DEF Kinds
  <2> QED
    BY <2>2, <2>3
<1>9. ASSUME MarkSent(k) \/ RetryOrFail(k) PROVE Kinds
  <2>1. worker[k].pc \in {"sent", "catch"} /\ UNCHANGED <<push, uncertain, incidents>> /\ FinishJob(k)
    BY <1>9 DEF MarkSent, RetryOrFail
  <2>2. \/ worker[k].pc = "sent" /\ SetJob(worker[k].event, "sent")
        \/ worker[k].pc = "catch" /\ SetJob(worker[k].event, AfterFailure(k))
    BY <1>9 DEF MarkSent, RetryOrFail
  <2> QED
    BY <1>0, <2>1, <2>2 DEF Kinds, Ends
<1>10. ASSUME StatementFails(k) PROVE Kinds
  <2>1. /\ worker[k].pc \notin {"idle", "batch"} /\ Throw(k)
        /\ UNCHANGED <<job, uncertain, incidents>>
        /\ (worker[k].pc = "record" /\ push' = Unrecorded(k)) \/ UNCHANGED push
    BY <1>10 DEF StatementFails
  <2> QED
    BY <1>0, <1>a, <1>b, <2>1 DEF Kinds
<1>11. ASSUME StatementLooksFailed(k) PROVE Kinds
  <2>1. /\ Throw(k) /\ worker[k].event \in Event /\ UNCHANGED <<push, incidents>>
        /\ worker[k].pc \in {"reserve", "record", "sent"}
        /\ \/ UNCHANGED <<job, uncertain>>
           \/ /\ worker[k].pc = "sent" /\ SetJob(worker[k].event, "sent")
              /\ uncertain' = uncertain \union {worker[k].event}
    BY <1>11, LooksFailedCases
  <2> QED
    BY <1>0, <1>a, <2>1, ThrowMoves DEF Kinds, SendsUnaware
<1>12. Kinds
  BY <1>1, <1>2, <1>3, <1>4, <1>5, <1>6, <1>7, <1>8, <1>9, <1>10, <1>11 DEF BatchStep
<1> QED
  BY <1>12 DEF Kinds

\* The batches after each kind of step, for every worker and event.
LEMMA EndsMoves ==
  ASSUME ClaimsInv, NEW k \in Worker, Ends(k)
  PROVE  /\ Moved(k) /\ worker'[k].pc \in {"idle", "batch"}
         /\ worker'[k].pc = "idle" => \A e \in Event : worker'[k].batch[e] = 0
         /\ \A e \in Event : worker'[k].batch[e] =
              IF e = worker[k].event THEN 0 ELSE worker[k].batch[e]
         /\ worker[k].event \in Event /\ worker[k].batch[worker[k].event] > 0
         /\ job' \in [Event -> JobRow]
         /\ \A e \in Event : job'[e].attempts = job[e].attempts
         /\ \A e \in Event \ {worker[k].event} : job'[e] = job[e]
         /\ ~JobExists(worker[k].event) => job'[worker[k].event] = job[worker[k].event]
         /\ JobExists(worker[k].event) =>
              /\ ~job'[worker[k].event].ready
              /\ job'[worker[k].event].status \in {"sent", AfterFailure(k)}
<1>1. /\ worker[k].event \in Event /\ worker[k].pc \notin {"idle", "batch"} /\ FinishJob(k)
      /\ \/ ~JobExists(worker[k].event) /\ UNCHANGED job
         \/ SetJob(worker[k].event, "sent")
         \/ SetJob(worker[k].event, AfterFailure(k))
  BY DEF Ends
<1>2. TypeOK /\ worker[k].batch \in [Event -> Nat] /\ worker[k].batch[worker[k].event] > 0
  BY <1>1 DEF ClaimsInv, TypeOK, WorkState, BatchesHeld
<1>3. AfterFailure(k) \in {"failed", "pending"}
  BY DEF AfterFailure
<1>4. /\ job' \in [Event -> JobRow]
      /\ \A e \in Event : job'[e].attempts = job[e].attempts
      /\ \A e \in Event \ {worker[k].event} : job'[e] = job[e]
      /\ ~JobExists(worker[k].event) => job'[worker[k].event] = job[worker[k].event]
      /\ JobExists(worker[k].event) =>
           /\ ~job'[worker[k].event].ready
           /\ job'[worker[k].event].status \in {"sent", AfterFailure(k)}
  BY <1>1, <1>2, <1>3, SetJobSets DEF TypeOK
<1>5. /\ Moved(k) /\ worker'[k].pc \in {"idle", "batch"}
      /\ worker'[k].batch = [worker[k].batch EXCEPT ![worker[k].event] = 0]
      /\ worker'[k].pc = "idle" => \A e \in Event : worker'[k].batch[e] = 0
  BY <1>1, <1>2, FinishMoves
<1> QED
  BY <1>1, <1>2, <1>4, <1>5

\* What a worker that ends or gives up leaves behind.
LEMMA DropMoves ==
  ASSUME ClaimsInv, NEW k \in Worker, BatchAborts(k) \/ Crash(k)
  PROVE  /\ Moved(k) /\ worker'[k].pc = "idle"
         /\ \A e \in Event : worker'[k].batch[e] = 0
         /\ incidents' = incidents + 1 /\ UNCHANGED uncertain
         /\ \/ UNCHANGED job
            \/ /\ worker[k].event \in Event /\ worker[k].batch[worker[k].event] > 0
               /\ job' \in [Event -> JobRow]
               /\ \A e \in Event : job'[e].attempts = job[e].attempts
               /\ \A e \in Event \ {worker[k].event} : job'[e] = job[e]
               /\ ~JobExists(worker[k].event) => job'[worker[k].event] = job[worker[k].event]
               /\ JobExists(worker[k].event) =>
                    /\ ~job'[worker[k].event].ready
                    /\ job'[worker[k].event].status = AfterFailure(k)
         /\ \A e \in Event, d \in Device : job[e].status = "none" => push'[<<e, d>>] = push[<<e, d>>]
<1> USE DEF ClaimsInv
<1>1. CASE BatchAborts(k)
  <2>1. /\ worker[k].pc = "catch" /\ worker' = [worker EXCEPT ![k] = NoWork]
        /\ UNCHANGED job \/ SetJob(worker[k].event, AfterFailure(k))
        /\ incidents' = incidents + 1 /\ UNCHANGED <<uncertain, push>>
    BY <1>1 DEF BatchAborts, Incident
  <2>2. worker[k].event \in Event /\ worker[k].batch[worker[k].event] > 0
    BY <2>1 DEF TypeOK, BatchesHeld
  <2>3. AfterFailure(k) \in {"failed", "pending"}
    BY DEF AfterFailure
  <2> QED
    BY <2>1, <2>2, <2>3, IdleMoves, SetJobSets
<1>2. CASE Crash(k)
  <2>1. /\ worker' = [worker EXCEPT ![k] = NoWork]
        /\ incidents' = incidents + 1 /\ UNCHANGED <<job, uncertain>>
    BY <1>2, CrashCases
  <2>2. PushesAtMost(k)
    <3>1. CASE push' = push
      BY <3>1 DEF PushesAtMost
    <3>2. CASE worker[k].pc = "send" /\ push' = Pushed(Pair(k), TRUE, TRUE, FALSE)
      BY <3>2, UnrecordedAtMost
    <3>3. CASE worker[k].pc = "record" /\ push' = Unrecorded(k)
      <4> DEFINE lost == worker[k].result = "delivered"
      <4>1. lost \in BOOLEAN /\ push' = Pushed(Pair(k), FALSE, lost, FALSE)
        BY <3>3 DEF Unrecorded
      <4> HIDE DEF lost
      <4> QED
        BY <3>3, <4>1, UnrecordedAtMost
    <3> QED
      BY <1>2, <3>1, <3>2, <3>3, CrashCases
  <2>3. \A e \in Event, d \in Device : job[e].status = "none" => push'[<<e, d>>] = push[<<e, d>>]
    BY <2>2 DEF PushesAtMost, BatchesHeld, ClaimsNumbered
  <2> QED
    BY <2>1, <2>3, IdleMoves
<1> QED
  BY <1>1, <1>2

LEMMA GoesOnClaims ==
  ASSUME ClaimsInv, TypeOK', NEW k \in Worker, GoesOn(k), PushesAtMost(k)
  PROVE  ClaimsInv'
<1> USE DEF ClaimsInv
<1>1. /\ \A l \in Worker : worker'[l].batch = worker[l].batch
      /\ UNCHANGED <<job, uncertain, incidents>>
  BY DEF GoesOn, Keeps, Moved
<1>2. BatchesHeld'
  BY DEF BatchesHeld, GoesOn, Keeps, Moved
<1>3. \A e \in Event, d \in Device : job[e].status = "none" => push'[<<e, d>>] = push[<<e, d>>]
  BY DEF PushesAtMost, BatchesHeld, ClaimsNumbered
<1>4. ClaimsNumbered'
  BY <1>1, <1>3 DEF ClaimsNumbered, JobExists
<1>5. OneAtAJob'
  BY <1>1 DEF OneAtAJob, JobExists
<1> QED
  BY <1>2, <1>4, <1>5

LEMMA EndsClaims ==
  ASSUME ClaimsInv, TypeOK', NEW k \in Worker, Ends(k)
  PROVE  ClaimsInv'
<1> USE DEF ClaimsInv
<1>1. BatchesHeld'
  BY EndsMoves DEF BatchesHeld, Moved
<1>2. UNCHANGED <<push, uncertain, incidents>>
  BY DEF Ends
<1>3. \A l \in Worker, e \in Event : worker'[l].batch[e] \in {0, worker[l].batch[e]}
  BY EndsMoves DEF Moved
<1>4. \A e \in Event : /\ job'[e].status = "none" <=> job[e].status = "none"
                       /\ JobExists(e)' <=> JobExists(e)
  BY EndsMoves DEF JobExists, AfterFailure
<1>5. ClaimsNumbered'
  BY <1>2, <1>3, <1>4, EndsMoves DEF ClaimsNumbered
<1>6. OneAtAJob'
  <2> SUFFICES ASSUME NEW e \in Event \ uncertain, NEW l \in Worker, worker'[l].batch[e] > 0
               PROVE  /\ JobExists(e) => /\ job'[e].status = "processing" /\ ~job'[e].ready
                                         /\ worker'[l].batch[e] = job'[e].attempts
                      /\ \A m \in Worker \ {l} : worker'[m].batch[e] = 0
    BY <1>2, <1>4 DEF OneAtAJob
  <2>1. worker'[l].batch[e] = worker[l].batch[e] /\ worker[l].batch[e] > 0
    BY <1>3
  <2>2. e # worker[k].event
    BY <2>1, EndsMoves DEF OneAtAJob, Moved
  <2>3. job'[e] = job[e]
    BY <2>2, EndsMoves
  <2> QED
    BY <1>3, <2>1, <2>3 DEF OneAtAJob
<1> QED
  BY <1>1, <1>5, <1>6

LEMMA UnawareClaims ==
  ASSUME ClaimsInv, TypeOK', NEW k \in Worker, SendsUnaware(k)
  PROVE  ClaimsInv'
<1> USE DEF ClaimsInv
<1>1. /\ \A l \in Worker : worker'[l].batch = worker[l].batch
      /\ uncertain' = uncertain \union {worker[k].event} /\ UNCHANGED push
      /\ worker[k].event \in Event
  BY DEF SendsUnaware, Keeps, Moved
<1>2. BatchesHeld'
  BY DEF BatchesHeld, SendsUnaware, Keeps, Moved
<1>3. /\ \A e \in Event : job'[e].attempts = job[e].attempts
      /\ \A e \in Event \ {worker[k].event} : job'[e] = job[e]
      /\ \A e \in Event : /\ job'[e].status = "none" <=> job[e].status = "none"
                          /\ JobExists(e)' <=> JobExists(e)
  BY <1>1, SetJobSets DEF SendsUnaware, JobExists
<1>4. ClaimsNumbered'
  BY <1>1, <1>3 DEF ClaimsNumbered
<1>5. OneAtAJob'
  BY <1>1, <1>3 DEF OneAtAJob
<1> QED
  BY <1>2, <1>4, <1>5

LEMMA DropClaims ==
  ASSUME ClaimsInv, TypeOK', NEW k \in Worker, BatchAborts(k) \/ Crash(k)
  PROVE  ClaimsInv'
<1> USE DEF ClaimsInv
<1>1. BatchesHeld'
  BY DropMoves DEF BatchesHeld, Moved
<1>2. \A l \in Worker, e \in Event : worker'[l].batch[e] \in {0, worker[l].batch[e]}
  BY DropMoves DEF Moved
<1>3. \A e \in Event : /\ job'[e].status = "none" <=> job[e].status = "none"
                       /\ JobExists(e)' <=> JobExists(e)
                       /\ job'[e].attempts = job[e].attempts
  BY DropMoves DEF JobExists, AfterFailure
<1>4. ClaimsNumbered'
  BY <1>2, <1>3, DropMoves DEF ClaimsNumbered
<1>5. OneAtAJob'
  <2> SUFFICES ASSUME NEW e \in Event \ uncertain, NEW l \in Worker, worker'[l].batch[e] > 0
               PROVE  /\ JobExists(e) => /\ job'[e].status = "processing" /\ ~job'[e].ready
                                         /\ worker'[l].batch[e] = job'[e].attempts
                      /\ \A m \in Worker \ {l} : worker'[m].batch[e] = 0
    BY <1>3, DropMoves DEF OneAtAJob
  <2>1. worker'[l].batch[e] = worker[l].batch[e] /\ worker[l].batch[e] > 0 /\ l # k
    BY <1>2, DropMoves
  <2>2. worker[k].batch[e] = 0
    BY <2>1 DEF OneAtAJob
  <2>3. job'[e] = job[e]
    BY <2>2, DropMoves
  <2> QED
    BY <1>2, <2>1, <2>3 DEF OneAtAJob
<1> QED
  BY <1>1, <1>4, <1>5

LEMMA ClaimClaims ==
  ASSUME ClaimsInv, NEW k \in Worker, NEW jobs \in SUBSET Event, ClaimJobs(k, jobs)
  PROVE  ClaimsInv'
<1> USE DEF ClaimsInv
<1>1. TypeOK' /\ UNCHANGED <<push, uncertain, incidents>> /\ worker[k].pc = "idle"
  BY ClaimMoves DEF ClaimJobs
<1>2. \A e \in Event : worker[k].batch[e] = 0
  BY <1>1 DEF BatchesHeld
<1>3. BatchesHeld'
  BY ClaimMoves DEF BatchesHeld, Moved
<1>4. ClaimsNumbered'
  <2>1. ASSUME NEW l \in Worker, NEW e \in Event, worker'[l].batch[e] > 0
        PROVE  job'[e].status # "none" /\ (JobExists(e)' => worker'[l].batch[e] <= job'[e].attempts)
    <3>1. job[e].attempts \in Nat /\ worker[l].batch[e] \in Nat
      BY DEF TypeOK, JobRow, WorkState
    <3>2. CASE e \in jobs
      <4>1. JobExists(e) /\ job'[e].status = "processing" /\ job'[e].attempts = job[e].attempts + 1
        BY <3>2, ClaimMoves DEF JobExists
      <4>2. worker'[l].batch[e] = job[e].attempts + 1 \/ worker'[l].batch[e] = worker[l].batch[e]
        BY <3>2, ClaimMoves DEF Moved
      <4>3. worker[l].batch[e] <= job[e].attempts
        BY <3>1, <4>1 DEF ClaimsNumbered
      <4> QED
        BY <3>1, <4>1, <4>2, <4>3
    <3>3. CASE e \notin jobs
      <4>1. job'[e] = job[e] /\ worker'[l].batch[e] = worker[l].batch[e]
        BY <1>2, <2>1, <3>3, ClaimMoves DEF Moved
      <4> QED
        BY <2>1, <4>1 DEF ClaimsNumbered, JobExists
    <3> QED
      BY <3>2, <3>3
  <2>2. ASSUME NEW e \in Event, NEW d \in Device, job'[e].status = "none"
        PROVE  push'[<<e, d>>] = NoPush
    <3>1. e \notin jobs /\ job[e].status = "none"
      BY <2>2, ClaimMoves
    <3> QED
      BY <1>1, <3>1 DEF ClaimsNumbered
  <2> QED
    BY <2>1, <2>2 DEF ClaimsNumbered
<1>5. OneAtAJob'
  <2> SUFFICES ASSUME NEW e \in Event \ uncertain, NEW l \in Worker, worker'[l].batch[e] > 0
               PROVE  /\ JobExists(e)' => /\ job'[e].status = "processing" /\ ~job'[e].ready
                                          /\ worker'[l].batch[e] = job'[e].attempts
                      /\ \A m \in Worker \ {l} : worker'[m].batch[e] = 0
    BY <1>1 DEF OneAtAJob
  <2>1. CASE e \in jobs
    <3>1. JobExists(e) /\ job[e].ready
      BY <2>1, ClaimMoves DEF JobExists
    <3>2. \A m \in Worker : worker[m].batch[e] = 0
      BY <3>1 DEF OneAtAJob, TypeOK, WorkState
    <3>3. l = k
      BY <3>2, ClaimMoves DEF Moved
    <3> QED
      BY <2>1, <3>2, <3>3, ClaimMoves DEF Moved
  <2>2. CASE e \notin jobs
    <3>1. job'[e] = job[e] /\ \A m \in Worker : worker'[m].batch[e] = worker[m].batch[e]
      BY <1>2, <2>2, ClaimMoves DEF Moved
    <3> QED
      BY <3>1 DEF OneAtAJob, JobExists
  <2> QED
    BY <2>1, <2>2
<1> QED
  BY <1>1, <1>3, <1>4, <1>5

\* Deletions: what is deleted is never claimed again.
LEMMA CascadeClaims ==
  ASSUME ClaimsInv, NEW events \in SUBSET Event, NEW devices \in SUBSET Device,
         Cascade(events, devices), \A e \in events : JobExists(e)
  PROVE  ClaimsInv'
<1> USE DEF ClaimsInv
<1>1. TypeOK' /\ UNCHANGED <<worker, uncertain, incidents>>
  BY CascadeTypes DEF Cascade
<1>2. GoneJob.status = "deleted"
  BY DEF GoneJob, NoJob
<1>3. \A e \in Event : /\ JobExists(e)' => JobExists(e) /\ job'[e] = job[e]
                       /\ job'[e].status = "none" => job[e].status = "none"
                       /\ job[e].status # "none" => job'[e].status # "none"
  BY <1>2, CascadeTypes DEF JobExists
<1>4. BatchesHeld'
  BY <1>1 DEF BatchesHeld
<1>5. \A e \in Event, d \in Device : job'[e].status = "none" => push'[<<e, d>>] = NoPush
  <2> SUFFICES ASSUME NEW e \in Event, NEW d \in Device, job'[e].status = "none"
               PROVE  push'[<<e, d>>] = NoPush
    OBVIOUS
  <2>1. push[<<e, d>>] = NoPush
    BY <1>3 DEF ClaimsNumbered
  <2>2. push'[<<e, d>>] \in {NoPush, push[<<e, d>>]}
    BY DEF Cascade
  <2> QED
    BY <2>1, <2>2
<1>6. ClaimsNumbered'
  BY <1>1, <1>3, <1>5 DEF ClaimsNumbered
<1>7. OneAtAJob'
  BY <1>1, <1>3 DEF OneAtAJob
<1> QED
  BY <1>1, <1>4, <1>6, <1>7

\* The steps of events and of time.
LEMMA EventClaims ==
  ASSUME ClaimsInv, NEW e \in Event,
         InsertWalletEvent(e) \/ BackoffElapses(e) \/ AbandonedGoesStale(e) \/ AttendedGoesStale(e)
  PROVE  ClaimsInv'
<1> USE DEF ClaimsInv
<1>1. TypeOK' /\ UNCHANGED <<push, worker>>
  BY EventTypes DEF InsertWalletEvent, BackoffElapses, AbandonedGoesStale, AttendedGoesStale, GoesStale
<1>2. BatchesHeld'
  BY <1>1 DEF BatchesHeld
<1>3. \A f \in Event \ {e} : job'[f] = job[f]
  BY DEF InsertWalletEvent, BackoffElapses, AbandonedGoesStale, AttendedGoesStale, GoesStale, TypeOK
<1>4. CASE InsertWalletEvent(e)
  <2>1. job[e].status = "none" /\ job'[e].status = "pending" /\ UNCHANGED uncertain
    BY <1>4 DEF InsertWalletEvent, TypeOK
  <2>2. \A k \in Worker : worker[k].batch[e] = 0
    BY <2>1 DEF ClaimsNumbered, TypeOK, WorkState
  <2>3. ClaimsNumbered'
    BY <1>1, <1>3, <2>1, <2>2 DEF ClaimsNumbered, JobExists
  <2>4. OneAtAJob'
    BY <1>1, <1>3, <2>1, <2>2 DEF OneAtAJob, JobExists
  <2> QED
    BY <1>1, <1>2, <2>3, <2>4
<1>5. CASE BackoffElapses(e)
  <2>1. /\ job[e].status = "pending" /\ job'[e].status = "pending" /\ UNCHANGED uncertain
        /\ job'[e].attempts = job[e].attempts
    BY <1>5 DEF BackoffElapses, TypeOK, JobRow
  <2>2. ClaimsNumbered'
    BY <1>1, <1>3, <2>1 DEF ClaimsNumbered, JobExists
  <2>3. e \notin uncertain => \A k \in Worker : worker[k].batch[e] = 0
    BY <2>1 DEF OneAtAJob, JobExists, TypeOK, WorkState
  <2>4. OneAtAJob'
    BY <1>1, <1>3, <2>1, <2>3 DEF OneAtAJob, JobExists
  <2> QED
    BY <1>1, <1>2, <2>2, <2>4
<1>6. CASE AbandonedGoesStale(e) \/ AttendedGoesStale(e)
  <2>1. GoesStale(e) /\ \/ ~Attended(e) /\ UNCHANGED uncertain
                        \/ uncertain' = uncertain \union {e}
    BY <1>6 DEF AbandonedGoesStale, AttendedGoesStale
  <2>2. /\ job[e].status = "processing" /\ job'[e].status = "processing"
        /\ job'[e].attempts = job[e].attempts
    BY <2>1 DEF GoesStale, TypeOK, JobRow
  <2>3. ClaimsNumbered'
    BY <1>1, <1>3, <2>2 DEF ClaimsNumbered, JobExists
  <2>4. e \notin uncertain' => \A k \in Worker : worker[k].batch[e] = 0
    BY <2>1, <2>2 DEF OneAtAJob, JobExists, TypeOK, WorkState, Attended
  <2>5. OneAtAJob'
    BY <1>1, <1>3, <2>1, <2>2, <2>4 DEF OneAtAJob, JobExists
  <2> QED
    BY <1>1, <1>2, <2>3, <2>5
<1> QED
  BY <1>4, <1>5, <1>6

\* Steps about devices and alerts.
LEMMA OtherClaims ==
  ASSUME ClaimsInv, TypeOK', UNCHANGED <<job, push, worker, uncertain>>
  PROVE  ClaimsInv'
BY DEF ClaimsInv, BatchesHeld, ClaimsNumbered, OneAtAJob, JobExists

\* The steps that leave jobs, pushes and workers alone.
Aside ==
  \/ \E u \in User, d \in Device : RegisterDevice(u, d) \/ UnregisterDevice(u, d)
  \/ \E u \in User : MarkAllNotificationsRead(u)
  \/ \E e \in Event : MarkNotificationRead(e)

LEMMA AsideLeaves ==
  ASSUME Aside
  PROVE  UNCHANGED <<job, delivery, push, worker, uncertain, incidents>>
BY DEF Aside, RegisterDevice, UnregisterDevice, MarkAllNotificationsRead, MarkNotificationRead

\* Every step is of one of these kinds.
LEMMA StepKinds ==
  ASSUME ClaimsInv, [Next]_vars
  PROVE  \/ UNCHANGED vars \/ Aside
         \/ \E events \in SUBSET Event, devices \in SUBSET Device :
              Cascade(events, devices) /\ \A e \in events : JobExists(e)
         \/ \E e \in Event : \/ InsertWalletEvent(e) \/ BackoffElapses(e)
                             \/ AbandonedGoesStale(e) \/ AttendedGoesStale(e)
         \/ \E k \in Worker, jobs \in SUBSET Event : ClaimJobs(k, jobs)
         \/ \E k \in Worker :
              /\ BatchStep(k) \/ StatementFails(k) \/ StatementLooksFailed(k)
              /\ GoesOn(k) \/ Ends(k) \/ SendsUnaware(k)
              /\ PushesAtMost(k)
         \/ \E k \in Worker : BatchAborts(k) \/ Crash(k)
<1> DEFINE Deletion == \E events \in SUBSET Event, devices \in SUBSET Device :
                         Cascade(events, devices) /\ \A e \in events : JobExists(e)
<1>1. ASSUME NEW u \in User, UserStep(u) PROVE Aside \/ Deletion
  <2>1. CASE DeleteAccount(u)
    <3> DEFINE events == {e \in Event : Owner[e] = u /\ JobExists(e)}
               devices == {d \in Device : device[d].user = u}
    <3>1. Cascade(events, devices) /\ \A e \in events : JobExists(e)
      BY <2>1 DEF DeleteAccount
    <3> QED
      BY <3>1
  <2> QED
    BY <1>1, <2>1 DEF UserStep, Aside
<1>2. ASSUME NEW e \in Event, DeleteWallet(e) PROVE Deletion
  <2>1. Cascade({e}, {}) /\ JobExists(e)
    BY <1>2 DEF DeleteWallet
  <2> QED
    BY <2>1
<1>3. ASSUME NEW k \in Worker, BatchStep(k) \/ StatementFails(k) \/ StatementLooksFailed(k)
      PROVE  (GoesOn(k) \/ Ends(k) \/ SendsUnaware(k)) /\ PushesAtMost(k)
  BY <1>3, AttemptKinds DEF ClaimsInv
<1> HIDE DEF Deletion
<1>4. CASE \E u \in User : UserStep(u)
  <2>1. Aside \/ Deletion
    BY <1>1, <1>4
  <2> QED
    BY <2>1 DEF Deletion
<1>5. CASE \E e \in Event : EventStep(e)
  <2>1. PICK e \in Event : EventStep(e)
    BY <1>5
  <2>2. \/ Aside \/ Deletion
        \/ InsertWalletEvent(e) \/ BackoffElapses(e) \/ AbandonedGoesStale(e) \/ AttendedGoesStale(e)
    BY <1>2, <2>1 DEF EventStep, Aside
  <2> QED
    BY <2>2 DEF Deletion
<1>6. CASE \E k \in Worker : WorkerStep(k)
  BY <1>3, <1>6 DEF WorkerStep, WorkerFault
<1> QED
  BY <1>4, <1>5, <1>6 DEF Next

LEMMA ClaimsStep ==
  ASSUME ClaimsInv, [Next]_vars
  PROVE  ClaimsInv'
<1>1. TypeOK'
  BY TypeStep DEF ClaimsInv
<1>2. UNCHANGED vars \/ Aside => ClaimsInv'
  BY <1>1, OtherClaims, AsideLeaves DEF vars
<1> QED
  BY <1>1, <1>2, StepKinds, CascadeClaims, EventClaims, ClaimClaims, GoesOnClaims, EndsClaims,
     UnawareClaims, DropClaims

LEMMA InitClaims == Init => ClaimsInv
<1> SUFFICES ASSUME Init PROVE ClaimsInv
  OBVIOUS
<1>1. TypeOK
  BY InitType
<1>2. \A k \in Worker : worker[k].pc = "idle" /\ \A e \in Event : worker[k].batch[e] = 0
  BY DEF Init, NoWork
<1>3. \A e \in Event, d \in Device : push[<<e, d>>] = NoPush
  BY DEF Init
<1> QED
  BY <1>1, <1>2, <1>3 DEF ClaimsInv, BatchesHeld, ClaimsNumbered, OneAtAJob

\* A finished job is taken up again only where two workers may be at it.
THEOREM FinishedJobsStay == Spec => FinishedStaysFinished
<1> DEFINE Stays ==
      \A e \in Event :
        job[e].status \in {"sent", "failed"} /\ job'[e].status # job[e].status =>
          job'[e].status = "deleted" \/ e \in uncertain
<1>1. ASSUME ClaimsInv, [Next]_vars PROVE Stays
  <2> SUFFICES ASSUME NEW e \in Event, job[e].status \in {"sent", "failed"},
                      job'[e].status # job[e].status, e \notin uncertain
               PROVE  job'[e].status = "deleted"
    OBVIOUS
  <2>1. \A k \in Worker : worker[k].batch[e] = 0
    BY <1>1 DEF ClaimsInv, OneAtAJob, JobExists, TypeOK, WorkState
  <2>2. ASSUME NEW events \in SUBSET Event, NEW devices \in SUBSET Device, Cascade(events, devices)
        PROVE  job'[e].status = "deleted"
    BY <2>2 DEF Cascade, GoneJob, NoJob
  <2>3. ASSUME NEW f \in Event,
               InsertWalletEvent(f) \/ BackoffElapses(f) \/ AbandonedGoesStale(f) \/ AttendedGoesStale(f)
        PROVE  FALSE
    <3>1. job[f].status \in {"none", "pending", "processing"} /\ job'[e] # job[e]
      BY <2>3 DEF InsertWalletEvent, BackoffElapses, AbandonedGoesStale, AttendedGoesStale, GoesStale
    <3>2. \A g \in Event \ {f} : job'[g] = job[g]
      BY <1>1, <2>3 DEF InsertWalletEvent, BackoffElapses, AbandonedGoesStale, AttendedGoesStale,
                        GoesStale, ClaimsInv, TypeOK
    <3> QED
      BY <3>1, <3>2
  <2>4. ASSUME NEW k \in Worker, NEW jobs \in SUBSET Event, ClaimJobs(k, jobs) PROVE FALSE
    BY <1>1, <2>4, ClaimMoves DEF ClaimsInv
  <2>5. ASSUME NEW k \in Worker, GoesOn(k) PROVE FALSE
    BY <2>5 DEF GoesOn
  <2>6. ASSUME NEW k \in Worker, Ends(k) PROVE FALSE
    BY <1>1, <2>1, <2>6, EndsMoves
  <2>7. ASSUME NEW k \in Worker, SendsUnaware(k) PROVE FALSE
    <3>1. worker[k].event \in Event /\ worker[k].batch[worker[k].event] > 0
      BY <1>1, <2>7 DEF SendsUnaware, ClaimsInv, BatchesHeld
    <3> QED
      BY <1>1, <2>1, <2>7, <3>1, SetJobSets DEF SendsUnaware, ClaimsInv
  <2>8. ASSUME NEW k \in Worker, BatchAborts(k) \/ Crash(k) PROVE FALSE
    BY <1>1, <2>1, <2>8, DropMoves
  <2>9. ~(UNCHANGED vars \/ Aside)
    BY AsideLeaves DEF vars
  <2> QED
    BY <1>1, <2>2, <2>3, <2>4, <2>5, <2>6, <2>7, <2>8, <2>9, StepKinds
<1>2. ClaimsInv /\ [Next]_vars => [Stays]_vars
  BY <1>1
<1>3. ClaimsInv /\ [Next]_vars => ClaimsInv'
  BY ClaimsStep
<1>4. Spec => [][Stays]_vars
  BY <1>2, <1>3, InitClaims, PTL DEF Spec
<1> QED
  BY <1>4 DEF FinishedStaysFinished

-----------------------------------------------------------------------------
(* Attempts are bounded.                                                   *)

LEMMA WorkerSets ==
  ASSUME NEW S \in SUBSET Worker
  PROVE  /\ IsFiniteSet(S) /\ Cardinality(S) \in Nat
         /\ \A T \in SUBSET S : Cardinality(T) <= Cardinality(S)
         /\ \A k \in S : Cardinality(S \ {k}) = Cardinality(S) - 1
         /\ \A k \in Worker : Cardinality(S \union {k}) <= Cardinality(S) + 1
<1>1. IsFiniteSet(S)
  BY ConstantsAssumption, FS_Subset
<1>2. Cardinality(S) \in Nat
  BY <1>1, FS_CardinalityType
<1>3. \A T \in SUBSET S : Cardinality(T) <= Cardinality(S)
  BY <1>1, FS_Subset
<1>4. \A k \in S : Cardinality(S \ {k}) = Cardinality(S) - 1
  BY <1>1, FS_RemoveElement
<1>5. ASSUME NEW k \in Worker PROVE Cardinality(S \union {k}) <= Cardinality(S) + 1
  <2>1. Cardinality(S \union {k}) = IF k \in S THEN Cardinality(S) ELSE Cardinality(S) + 1
    BY <1>1, FS_AddElement
  <2> QED
    BY <1>2, <2>1
<1> QED
  BY <1>1, <1>2, <1>3, <1>4, <1>5

LEMMA RenewableSets ==
  ASSUME NEW e \in Event
  PROVE  /\ Renewable(e) \in SUBSET Worker /\ Cardinality(Renewable(e)) \in Nat
         /\ Renewable(e)' \in SUBSET Worker /\ Cardinality(Renewable(e)') \in Nat
         /\ Claims(e) \in {0, 1} /\ Claims(e)' \in {0, 1}
<1>1. Renewable(e) \in SUBSET Worker /\ Renewable(e)' \in SUBSET Worker
  BY DEF Renewable
<1>2. Cardinality(Renewable(e)) \in Nat /\ Cardinality(Renewable(e)') \in Nat
  BY <1>1, WorkerSets
<1>3. Claims(e) \in {0, 1} /\ Claims(e)' \in {0, 1}
  BY DEF Claims
<1> QED
  BY <1>1, <1>2, <1>3

\* What AttemptsPaid says of one job.
Paid(e) ==
  /\ Cardinality(Renewable(e)) + Claims(e) <= 1 + incidents
  /\ job[e].attempts >= MaxAttempts =>
       job[e].attempts + Cardinality(Renewable(e)) + Claims(e) <= MaxAttempts + incidents

\* Claims may be lost, and made only as far as incidents pay for them.
LEMMA PaidOn ==
  ASSUME TypeOK, TypeOK', NEW e \in Event, Paid(e),
         job'[e].attempts = job[e].attempts,
         Cardinality(Renewable(e)') + Claims(e)' + incidents
           <= Cardinality(Renewable(e)) + Claims(e) + incidents',
         incidents <= incidents'
  PROVE  Paid(e)'
<1>1. /\ job[e].attempts \in Nat /\ incidents \in Nat /\ incidents' \in Nat /\ MaxAttempts \in Nat
      /\ Cardinality(Renewable(e)) \in Nat /\ Cardinality(Renewable(e)') \in Nat
      /\ Claims(e) \in Nat /\ Claims(e)' \in Nat
  BY ConstantsAssumption, RenewableSets DEF TypeOK, JobRow
<1>2. Cardinality(Renewable(e)') + Claims(e)' <= 1 + incidents'
  BY <1>1 DEF Paid
<1>3. job'[e].attempts >= MaxAttempts =>
        job'[e].attempts + Cardinality(Renewable(e)') + Claims(e)' <= MaxAttempts + incidents'
  BY <1>1 DEF Paid
<1> QED
  BY <1>2, <1>3 DEF Paid

\* Nothing about the job changes but the passing of time.
LEMMA PaidSame ==
  ASSUME TypeOK, TypeOK', NEW e \in Event, Paid(e), job'[e] = job[e],
         \A k \in Worker : worker'[k].batch[e] = worker[k].batch[e],
         incidents <= incidents'
  PROVE  Paid(e)'
<1>1. Renewable(e)' = Renewable(e)
  BY DEF Renewable
<1>2. Claims(e)' = Claims(e)
  BY DEF Claims, Attended
<1>3. Cardinality(Renewable(e)) \in Nat /\ Claims(e) \in Nat /\ incidents \in Nat /\ incidents' \in Nat
  BY RenewableSets DEF TypeOK
<1> QED
  BY <1>1, <1>2, <1>3, PaidOn

LEMMA ClaimPaid ==
  ASSUME ClaimsInv, NEW k \in Worker, NEW jobs \in SUBSET Event, ClaimJobs(k, jobs),
         NEW e \in jobs, Paid(e)
  PROVE  Paid(e)'
<1>0. /\ TypeOK /\ UNCHANGED incidents /\ worker[k].batch[e] = 0
  BY DEF ClaimJobs, ClaimsInv, BatchesHeld
<1>1. /\ TypeOK /\ TypeOK' /\ UNCHANGED incidents /\ worker[k].batch[e] = 0
      /\ job[e].status \in {"pending", "processing"} /\ job[e].ready
      /\ job'[e].status = "processing" /\ ~job'[e].ready
      /\ job'[e].attempts = job[e].attempts + 1
      /\ worker'[k].batch[e] = job[e].attempts + 1
      /\ \A l \in Worker \ {k} : worker'[l].batch[e] = worker[l].batch[e]
  BY <1>0, ClaimMoves DEF Moved
<1>2. /\ job[e].attempts \in Nat /\ incidents \in Nat /\ MaxAttempts \in Nat \ {0}
      /\ Cardinality(Renewable(e)) \in Nat /\ Cardinality(Renewable(e)') \in Nat
  BY <1>1, ConstantsAssumption, RenewableSets DEF TypeOK, JobRow
<1>3. Claims(e) = 1 /\ Claims(e)' = 0
  BY <1>1, <1>2 DEF Claims, Attended
<1>4. CASE job[e].attempts + 1 < MaxAttempts
  <2>1. Renewable(e)' = Renewable(e) \union {k}
    BY <1>1, <1>2, <1>4 DEF Renewable
  <2>2. Cardinality(Renewable(e)') <= Cardinality(Renewable(e)) + 1
    BY <2>1, RenewableSets, WorkerSets
  <2> QED
    BY <1>1, <1>2, <1>3, <1>4, <2>2 DEF Paid
<1>5. CASE ~(job[e].attempts + 1 < MaxAttempts)
  <2>1. Renewable(e)' = Renewable(e)
    BY <1>1, <1>2, <1>5 DEF Renewable
  <2> QED
    BY <1>1, <1>2, <1>3, <1>5, <2>1 DEF Paid
<1> QED
  BY <1>4, <1>5

LEMMA EndsPaid ==
  ASSUME ClaimsInv, TypeOK', NEW k \in Worker, Ends(k),
         NEW e \in Event, e = worker[k].event, Paid(e), JobExists(e)
  PROVE  Paid(e)'
<1>1. /\ worker[k].batch[e] > 0 /\ worker'[k].batch[e] = 0
      /\ \A l \in Worker \ {k} : worker'[l].batch[e] = worker[l].batch[e]
      /\ job'[e].attempts = job[e].attempts
      /\ job'[e].status \in {"sent", AfterFailure(k)}
  BY EndsMoves DEF Moved
<1>2. /\ TypeOK /\ UNCHANGED incidents
      /\ Cardinality(Renewable(e)) \in Nat /\ Cardinality(Renewable(e)') \in Nat
      /\ Claims(e) \in {0, 1} /\ Claims(e)' \in {0, 1} /\ incidents \in Nat
  BY RenewableSets DEF TypeOK, ClaimsInv, Ends
<1>3. Renewable(e)' = Renewable(e) \ {k}
  BY <1>1 DEF Renewable
<1>4. CASE AfterFailure(k) = "pending"
  <2>1. worker[k].batch[e] < MaxAttempts
    BY <1>1, <1>2, <1>4, ConstantsAssumption DEF AfterFailure, Exhausted, TypeOK, WorkState
  <2>2. k \in Renewable(e)
    BY <1>1, <2>1 DEF Renewable
  <2>3. Cardinality(Renewable(e)') = Cardinality(Renewable(e)) - 1
    BY <1>3, <2>2, RenewableSets, WorkerSets
  <2> QED
    BY <1>1, <1>2, <2>3, PaidOn
<1>5. CASE AfterFailure(k) # "pending"
  <2>1. AfterFailure(k) = "failed"
    BY <1>5 DEF AfterFailure
  <2>2. Claims(e)' = 0
    BY <1>1, <2>1 DEF Claims
  <2>3. Cardinality(Renewable(e)') <= Cardinality(Renewable(e))
    BY <1>3, RenewableSets, WorkerSets
  <2> QED
    BY <1>1, <1>2, <2>2, <2>3, PaidOn
<1> QED
  BY <1>4, <1>5

LEMMA UnawarePaid ==
  ASSUME ClaimsInv, TypeOK', NEW k \in Worker, SendsUnaware(k),
         NEW e \in Event, e = worker[k].event, Paid(e), JobExists(e)
  PROVE  Paid(e)'
<1>1. /\ TypeOK /\ UNCHANGED incidents /\ SetJob(e, "sent")
      /\ \A l \in Worker : worker'[l].batch[e] = worker[l].batch[e]
  BY DEF SendsUnaware, Keeps, Moved, ClaimsInv
<1>2. job'[e].attempts = job[e].attempts /\ job'[e].status = "sent"
  BY <1>1, SetJobSets
<1>3. /\ Cardinality(Renewable(e)) \in Nat /\ Claims(e) \in {0, 1} /\ incidents \in Nat
  BY <1>1, RenewableSets DEF TypeOK
<1>4. Renewable(e)' = Renewable(e)
  BY <1>1 DEF Renewable
<1>5. Claims(e)' = 0
  BY <1>2 DEF Claims
<1> QED
  BY <1>1, <1>2, <1>3, <1>4, <1>5, PaidOn

LEMMA DropPaid ==
  ASSUME ClaimsInv, TypeOK', NEW k \in Worker, BatchAborts(k) \/ Crash(k), NEW e \in Event, Paid(e)
  PROVE  Paid(e)'
<1>1. /\ TypeOK /\ incidents' = incidents + 1 /\ worker'[k].batch[e] = 0
      /\ \A l \in Worker \ {k} : worker'[l].batch[e] = worker[l].batch[e]
      /\ job'[e].attempts = job[e].attempts
  BY DropMoves DEF ClaimsInv, Moved
<1>2. /\ Cardinality(Renewable(e)) \in Nat /\ Cardinality(Renewable(e)') \in Nat
      /\ Claims(e) \in {0, 1} /\ Claims(e)' \in {0, 1} /\ incidents \in Nat
  BY <1>1, RenewableSets DEF TypeOK
<1>3. Renewable(e)' \in SUBSET Renewable(e)
  BY <1>1 DEF Renewable
<1>4. Cardinality(Renewable(e)') <= Cardinality(Renewable(e))
  BY <1>3, RenewableSets, WorkerSets
<1> QED
  BY <1>1, <1>2, <1>4, PaidOn

LEMMA EventPaid ==
  ASSUME ClaimsInv, TypeOK', NEW e \in Event, JobExists(e) => Paid(e),
         InsertWalletEvent(e) \/ BackoffElapses(e) \/ AbandonedGoesStale(e) \/ AttendedGoesStale(e)
  PROVE  Paid(e)'
<1>1. /\ TypeOK /\ UNCHANGED worker /\ job' \in [Event -> JobRow]
      /\ Cardinality(Renewable(e)) \in Nat /\ incidents \in Nat /\ incidents' \in Nat
      /\ Claims(e) \in {0, 1} /\ Claims(e)' \in {0, 1}
  BY RenewableSets DEF ClaimsInv, TypeOK, InsertWalletEvent, BackoffElapses, AbandonedGoesStale,
                       AttendedGoesStale, GoesStale
<1>2. Renewable(e)' = Renewable(e)
  BY <1>1 DEF Renewable
<1>3. CASE InsertWalletEvent(e)
  <2>1. /\ job[e].status = "none" /\ job'[e].attempts = 0 /\ UNCHANGED incidents
    BY <1>1, <1>3 DEF InsertWalletEvent, TypeOK
  <2>2. Renewable(e) = {}
    BY <2>1 DEF Renewable, ClaimsInv, ClaimsNumbered
  <2>3. Cardinality(Renewable(e)') = 0
    BY <1>2, <2>2, FS_EmptySet
  <2> QED
    BY <1>1, <2>1, <2>3, ConstantsAssumption DEF Paid
<1>4. CASE BackoffElapses(e)
  <2>1. /\ job[e].status = "pending" /\ job'[e].status = "pending" /\ UNCHANGED incidents
        /\ job'[e].attempts = job[e].attempts /\ JobExists(e)
    BY <1>1, <1>4 DEF BackoffElapses, TypeOK, JobRow, JobExists
  <2>2. Claims(e) = 1
    BY <2>1 DEF Claims
  <2> QED
    BY <1>1, <1>2, <2>1, <2>2, PaidOn
<1>5. CASE AbandonedGoesStale(e) \/ AttendedGoesStale(e)
  <2>1. /\ GoesStale(e)
        /\ \/ ~Attended(e) /\ UNCHANGED incidents
           \/ incidents' = incidents + 1
    BY <1>5 DEF AbandonedGoesStale, AttendedGoesStale, Incident
  <2>2. /\ job[e].status = "processing" /\ job'[e].attempts = job[e].attempts /\ JobExists(e)
    BY <1>1, <2>1 DEF GoesStale, TypeOK, JobRow, JobExists
  <2>3. ~Attended(e) => Claims(e) = 1
    BY <2>2 DEF Claims
  <2> QED
    BY <1>1, <1>2, <2>1, <2>2, <2>3, PaidOn
<1> QED
  BY <1>3, <1>4, <1>5

LEMMA PaidStep ==
  ASSUME ClaimsInv, AttemptsPaid, [Next]_vars
  PROVE  AttemptsPaid'
<1> SUFFICES ASSUME NEW e \in Event, JobExists(e)' PROVE Paid(e)'
  BY DEF AttemptsPaid, Paid
<1>1. TypeOK /\ TypeOK' /\ incidents \in Nat /\ (JobExists(e) => Paid(e))
  BY TypeStep DEF ClaimsInv, AttemptsPaid, Paid, TypeOK
<1>2. ASSUME job'[e] = job[e], \A k \in Worker : worker'[k].batch[e] = worker[k].batch[e],
             incidents' = incidents
      PROVE  Paid(e)'
  BY <1>1, <1>2, PaidSame DEF JobExists
<1>3. CASE UNCHANGED vars \/ Aside
  BY <1>2, <1>3, AsideLeaves DEF vars
<1>4. ASSUME NEW events \in SUBSET Event, NEW devices \in SUBSET Device, Cascade(events, devices)
      PROVE  Paid(e)'
  <2>1. job'[e] = job[e]
    BY <1>4 DEF Cascade, JobExists, GoneJob, NoJob
  <2> QED
    BY <1>2, <1>4, <2>1 DEF Cascade
<1>5. ASSUME NEW f \in Event,
             InsertWalletEvent(f) \/ BackoffElapses(f) \/ AbandonedGoesStale(f) \/ AttendedGoesStale(f)
      PROVE  Paid(e)'
  <2>1. CASE f = e
    BY <1>1, <1>5, <2>1, EventPaid
  <2>2. CASE f # e
    <3>1. job'[e] = job[e] /\ UNCHANGED worker /\ (incidents' = incidents \/ incidents' = incidents + 1)
      BY <1>1, <1>5, <2>2 DEF InsertWalletEvent, BackoffElapses, AbandonedGoesStale,
                              AttendedGoesStale, GoesStale, Incident, TypeOK
    <3> QED
      BY <1>1, <3>1, PaidSame DEF JobExists
  <2> QED
    BY <2>1, <2>2
<1>6. ASSUME NEW k \in Worker, NEW jobs \in SUBSET Event, ClaimJobs(k, jobs) PROVE Paid(e)'
  <2>1. CASE e \in jobs
    <3>1. JobExists(e)
      BY <1>1, <1>6, <2>1, ClaimMoves DEF JobExists
    <3> QED
      BY <1>1, <1>6, <2>1, <3>1, ClaimPaid
  <2>2. CASE e \notin jobs
    <3>1. worker[k].batch[e] = 0 /\ UNCHANGED incidents
      BY <1>6 DEF ClaimJobs, ClaimsInv, BatchesHeld
    <3>2. job'[e] = job[e] /\ \A l \in Worker : worker'[l].batch[e] = worker[l].batch[e]
      BY <1>1, <1>6, <2>2, <3>1, ClaimMoves DEF Moved
    <3> QED
      BY <1>2, <3>1, <3>2
  <2> QED
    BY <2>1, <2>2
<1>7. ASSUME NEW k \in Worker, GoesOn(k) PROVE Paid(e)'
  BY <1>2, <1>7 DEF GoesOn, Keeps, Moved
<1>8. ASSUME NEW k \in Worker, Ends(k) PROVE Paid(e)'
  <2>1. CASE e = worker[k].event
    <3>1. JobExists(e)
      BY <1>8, <2>1, EndsMoves DEF JobExists
    <3> QED
      BY <1>1, <1>8, <2>1, <3>1, EndsPaid
  <2>2. CASE e # worker[k].event
    <3>1. job'[e] = job[e] /\ \A l \in Worker : worker'[l].batch[e] = worker[l].batch[e]
      BY <1>8, <2>2, EndsMoves DEF Moved
    <3> QED
      BY <1>2, <1>8, <3>1 DEF Ends
  <2> QED
    BY <2>1, <2>2
<1>9. ASSUME NEW k \in Worker, SendsUnaware(k) PROVE Paid(e)'
  <2>1. /\ worker[k].event \in Event /\ SetJob(worker[k].event, "sent") /\ UNCHANGED incidents
        /\ \A l \in Worker : worker'[l].batch[e] = worker[l].batch[e]
    BY <1>9 DEF SendsUnaware, Keeps, Moved
  <2>2. CASE e = worker[k].event
    <3>1. JobExists(e)
      BY <1>1, <2>1, <2>2, SetJobSets DEF JobExists
    <3> QED
      BY <1>1, <1>9, <2>2, <3>1, UnawarePaid
  <2>3. CASE e # worker[k].event
    <3>1. job'[e] = job[e]
      BY <1>1, <2>1, <2>3, SetJobSets
    <3> QED
      BY <1>2, <2>1, <3>1
  <2> QED
    BY <2>2, <2>3
<1>10. ASSUME NEW k \in Worker, BatchAborts(k) \/ Crash(k) PROVE Paid(e)'
  <2>1. JobExists(e)
    BY <1>10, DropMoves DEF JobExists
  <2> QED
    BY <1>1, <1>10, <2>1, DropPaid
<1> QED
  BY <1>3, <1>4, <1>5, <1>6, <1>7, <1>8, <1>9, <1>10, StepKinds

-----------------------------------------------------------------------------
(* Failures are counted by attempts.                                       *)

TurnsInv == ClaimsInv /\ TurnsTaken

\* No worker gets a second turn with a device in one attempt.
LEMMA TurnsPass ==
  ASSUME TurnsInv, NEW k \in Worker,
         BatchStep(k) \/ StatementFails(k) \/ StatementLooksFailed(k)
  PROVE  /\ worker'[k].pc \in {"send", "record"} => worker'[k].target \notin worker'[k].queue
         /\ \A e \in Event, d \in Device : MayStillSend(k, e, d)' =>
              /\ MayStillSend(k, e, d)
              /\ worker[k].pc = "send" /\ worker'[k].pc = "record" =>
                   ~(worker[k].event = e /\ worker[k].target = d)
<1> DEFINE Pass ==
      /\ worker'[k].pc \in {"send", "record"} => worker'[k].target \notin worker'[k].queue
      /\ \A e \in Event, d \in Device : MayStillSend(k, e, d)' =>
           /\ MayStillSend(k, e, d)
           /\ worker[k].pc = "send" /\ worker'[k].pc = "record" =>
                ~(worker[k].event = e /\ worker[k].target = d)
<1> USE DEF TurnsInv, ClaimsInv
<1>a. ASSUME Throw(k), worker[k].pc \notin {"idle", "batch"} PROVE Pass
  BY <1>a, ThrowMoves DEF Keeps, MayStillSend
<1>b. ASSUME worker[k].pc \in {"batch", "context", "ensure", "list", "states"},
             worker'[k].pc \notin {"send", "record"}, Keeps(k)
      PROVE  Pass
  BY <1>b DEF Keeps, MayStillSend
<1>c. ASSUME FinishJob(k), worker[k].event \in Event PROVE Pass
  <2>1. /\ worker'[k].pc \in {"idle", "batch"} /\ worker'[k].event = Nobody
        /\ worker'[k].batch = [worker[k].batch EXCEPT ![worker[k].event] = 0]
    BY <1>c, FinishMoves
  <2>2. \A e \in Event : worker'[k].batch[e] =
          IF e = worker[k].event THEN 0 ELSE worker[k].batch[e]
    BY <2>1 DEF TypeOK, WorkState
  <2> QED
    BY <2>1, <2>2 DEF MayStillSend
<1>d. worker[k].pc \notin {"idle", "batch"} => worker[k].event \in Event
  BY DEF TypeOK
<1> HIDE DEF Pass
<1>1. ASSUME NEW e \in Event, PickJob(k, e) PROVE Pass
  BY <1>1, <1>b, PickMoves DEF PickJob
<1>2. ASSUME ReadContext(k) PROVE Pass
  BY <1>2, <1>b, <1>c, <1>d, GotoMoves DEF ReadContext
<1>3. ASSUME EnsureNotification(k) PROVE Pass
  BY <1>3, <1>a, <1>b, GotoMoves DEF EnsureNotification
<1>4. ASSUME ListDevices(k) PROVE Pass
  <2>1. worker[k].pc = "list"
    BY <1>4 DEF ListDevices
  <2> QED
    BY <1>4, <1>b, <2>1, ListMoves
<1>5. ASSUME ReadDeliveries(k) PROVE Pass
  <2>1. worker[k].pc = "states"
    BY <1>5 DEF ReadDeliveries
  <2> QED
    BY <1>5, <1>b, <2>1, ReadDeliveriesMoves
<1>6. ASSUME NEW d \in Device, ReserveDelivery(k, d) PROVE Pass
  <2>1. worker[k].pc = "reserve" /\ d \in worker[k].queue
    BY <1>6 DEF ReserveDelivery
  <2>2. CASE JobExists(worker[k].event) /\ SameRow(k, d)
    <3>1. /\ Keeps(k) /\ worker'[k].event = worker[k].event
          /\ worker'[k].target = d /\ worker'[k].queue = worker[k].queue \ {d}
          /\ worker'[k].pc \in {"reserve", "catch", "sent", "send"}
      BY <1>6, <2>2, ReserveMoves DEF NextStep
    <3> QED
      BY <2>1, <3>1 DEF Pass, Keeps, MayStillSend
  <2>3. CASE ~(JobExists(worker[k].event) /\ SameRow(k, d))
    BY <1>6, <1>a, <2>1, <2>3 DEF ReserveDelivery
  <2> QED
    BY <2>2, <2>3
<1>7. ASSUME SendPush(k) PROVE Pass
  <2>1. /\ worker[k].pc = "send" /\ worker'[k].pc = "record" /\ Keeps(k)
        /\ worker'[k].event = worker[k].event /\ worker'[k].target = worker[k].target
        /\ worker'[k].queue = worker[k].queue /\ worker[k].target \notin worker[k].queue
    BY <1>7, SendMoves DEF SendPush, TurnsTaken
  <2> QED
    BY <2>1 DEF Pass, Keeps, MayStillSend
<1>8. ASSUME RecordDelivery(k) PROVE Pass
  <2>1. worker[k].pc = "record"
    BY <1>8 DEF RecordDelivery
  <2>2. CASE RowsExist(k)
    <3> DEFINE retry == worker[k].retry \/ worker[k].result = "transient"
    <3>1. retry \in BOOLEAN /\ (NextStep(worker[k].queue, retry) = "catch" => Throw(k))
      BY <1>8, <2>2 DEF RecordDelivery
    <3> HIDE DEF retry
    <3>2. CASE NextStep(worker[k].queue, retry) # "catch"
      <4>1. /\ Keeps(k) /\ worker'[k].event = worker[k].event
            /\ worker'[k].queue = worker[k].queue /\ worker'[k].pc \in {"reserve", "sent"}
        BY <1>8, <2>2, <3>1, <3>2, RecordMoves DEF retry
      <4> QED
        BY <2>1, <4>1 DEF Pass, Keeps, MayStillSend
    <3> QED
      BY <1>a, <2>1, <3>1, <3>2
  <2>3. CASE ~RowsExist(k)
    BY <1>8, <1>a, <2>1, <2>3 DEF RecordDelivery
  <2> QED
    BY <2>2, <2>3
<1>9. ASSUME MarkSent(k) \/ RetryOrFail(k) PROVE Pass
  BY <1>9, <1>c, <1>d DEF MarkSent, RetryOrFail
<1>10. ASSUME StatementFails(k) \/ StatementLooksFailed(k) PROVE Pass
  <2>1. Throw(k) /\ worker[k].pc \notin {"idle", "batch"}
    BY <1>10 DEF StatementFails, StatementLooksFailed
  <2> QED
    BY <1>a, <2>1
<1>11. Pass
  BY <1>1, <1>2, <1>3, <1>4, <1>5, <1>6, <1>7, <1>8, <1>9, <1>10 DEF BatchStep
<1> QED
  BY <1>11 DEF Pass

\* Only a push adds a failure, one to its own event and device.
LEMMA FailuresAdded ==
  ASSUME TypeOK, NEW k \in Worker, WorkerStep(k), NEW e \in Event, NEW d \in Device
  PROVE  \/ push'[<<e, d>>].failures = push[<<e, d>>].failures
         \/ /\ SendPush(k) /\ worker[k].event = e /\ worker[k].target = d
            /\ push'[<<e, d>>].failures = push[<<e, d>>].failures + 1
<1>0. <<e, d>> \in Event \X Device
  OBVIOUS
<1>1. ASSUME worker[k].pc \in {"send", "record"}, NEW accepted \in BOOLEAN, NEW doubtful \in BOOLEAN,
             NEW failed \in BOOLEAN, push' = Pushed(Pair(k), accepted, doubtful, failed)
      PROVE  \/ push'[<<e, d>>].failures = push[<<e, d>>].failures
             \/ /\ failed /\ worker[k].event = e /\ worker[k].target = d
                /\ push'[<<e, d>>].failures = push[<<e, d>>].failures + 1
  <2> DEFINE p == <<worker[k].event, worker[k].target>>
  <2>1. p \in Event \X Device /\ p = Pair(k)
    BY <1>1 DEF TypeOK, Pair
  <2>2. CASE p = <<e, d>>
    <3>1. worker[k].event = e /\ worker[k].target = d
      BY <2>2
    <3> HIDE DEF p
    <3> QED
      BY <1>1, <2>1, <2>2, <3>1, PushedAdds
  <2>3. CASE p # <<e, d>>
    <3> HIDE DEF p
    <3>1. \A q \in (Event \X Device) \ {p} : push'[q] = push[q]
      BY <1>1, <2>1, PushedAdds
    <3>2. push'[<<e, d>>] = push[<<e, d>>]
      BY <1>0, <2>3, <3>1
    <3> QED
      BY <3>2
  <2> QED
    BY <2>2, <2>3
<1>2. CASE SendPush(k)
  <2>1. PICK accepted \in BOOLEAN :
          push' = Pushed(Pair(k), accepted, accepted /\ worker'[k].result = "transient",
                         worker'[k].result = "transient")
    BY <1>2, SendMoves
  <2> DEFINE lost == accepted /\ worker'[k].result = "transient"
             failed == worker'[k].result = "transient"
  <2>2. lost \in BOOLEAN /\ failed \in BOOLEAN /\ push' = Pushed(Pair(k), accepted, lost, failed)
    BY <2>1
  <2> HIDE DEF lost, failed
  <2>3. worker[k].pc = "send"
    BY <1>2 DEF SendPush
  <2> QED
    BY <1>1, <1>2, <2>2, <2>3
<1>3. ASSUME worker[k].pc = "record", push' = Unrecorded(k)
      PROVE  push'[<<e, d>>].failures = push[<<e, d>>].failures
  <2> DEFINE lost == worker[k].result = "delivered"
  <2>1. lost \in BOOLEAN /\ push' = Pushed(Pair(k), FALSE, lost, FALSE)
    BY <1>3 DEF Unrecorded
  <2> HIDE DEF lost
  <2> QED
    BY <1>1, <1>3, <2>1
<1>4. CASE RecordDelivery(k)
  <2>1. worker[k].pc = "record" /\ (push' = push \/ push' = Unrecorded(k))
    BY <1>4 DEF RecordDelivery
  <2> QED
    BY <1>3, <2>1
<1>5. CASE StatementFails(k)
  <2>1. CASE worker[k].pc = "record"
    <3>1. push' = Unrecorded(k)
      BY <1>5, <2>1 DEF StatementFails
    <3> QED
      BY <1>3, <2>1, <3>1
  <2>2. CASE worker[k].pc # "record"
    <3>1. push' = push
      BY <1>5, <2>2 DEF StatementFails
    <3> QED
      BY <3>1
  <2> QED
    BY <2>1, <2>2
<1>6. CASE Crash(k)
  <2>1. \/ push' = push
        \/ worker[k].pc = "send" /\ push' = Pushed(Pair(k), TRUE, TRUE, FALSE)
        \/ worker[k].pc = "record" /\ push' = Unrecorded(k)
    BY <1>6, CrashCases
  <2> QED
    BY <1>1, <1>3, <2>1
<1>7. CASE \/ \E jobs \in SUBSET Event : ClaimJobs(k, jobs)
           \/ \E f \in Event : PickJob(k, f)
           \/ ReadContext(k) \/ EnsureNotification(k) \/ ListDevices(k) \/ ReadDeliveries(k)
           \/ \E f \in Device : ReserveDelivery(k, f)
           \/ MarkSent(k) \/ RetryOrFail(k) \/ StatementLooksFailed(k) \/ BatchAborts(k)
  <2>1. push' = push
    BY <1>7 DEF ClaimJobs, PickJob, ReadContext, EnsureNotification, ListDevices, ReadDeliveries,
                ReserveDelivery, MarkSent, RetryOrFail, StatementLooksFailed, BatchAborts
  <2> QED
    BY <2>1
<1> QED
  BY <1>2, <1>4, <1>5, <1>6, <1>7 DEF WorkerStep, BatchStep, WorkerFault

LEMMA SenderSets ==
  ASSUME NEW e \in Event, NEW d \in Device
  PROVE  /\ Senders(e, d) \in SUBSET Worker /\ Cardinality(Senders(e, d)) \in Nat
         /\ Senders(e, d)' \in SUBSET Worker /\ Cardinality(Senders(e, d)') \in Nat
<1>1. Senders(e, d) \in SUBSET Worker /\ Senders(e, d)' \in SUBSET Worker
  BY DEF Senders
<1> QED
  BY <1>1, WorkerSets

\* What FailuresCounted says of one event and device.
Counted(e, d) == push[<<e, d>>].failures + Cardinality(Senders(e, d)) <= job[e].attempts

LEMMA CountedNumbers ==
  ASSUME TypeOK, TypeOK', NEW e \in Event, NEW d \in Device
  PROVE  /\ push[<<e, d>>].failures \in Nat /\ push'[<<e, d>>].failures \in Nat
         /\ job[e].attempts \in Nat /\ job'[e].attempts \in Nat
         /\ Cardinality(Senders(e, d)) \in Nat /\ Cardinality(Senders(e, d)') \in Nat
<1>1. <<e, d>> \in Event \X Device
  OBVIOUS
<1> QED
  BY <1>1, SenderSets DEF TypeOK, JobRow, PushState

\* Fewer senders, no more failures, no fewer attempts.
LEMMA CountedOn ==
  ASSUME TypeOK, TypeOK', NEW e \in Event, NEW d \in Device, Counted(e, d),
         job'[e].attempts >= job[e].attempts,
         push'[<<e, d>>].failures <= push[<<e, d>>].failures,
         Senders(e, d)' \subseteq Senders(e, d)
  PROVE  Counted(e, d)'
<1>1. Cardinality(Senders(e, d)') <= Cardinality(Senders(e, d))
  BY SenderSets, WorkerSets
<1> QED
  BY <1>1, CountedNumbers DEF Counted

\* An attempt neither adds attempts nor brings a job back.
LEMMA AttemptsStay ==
  ASSUME ClaimsInv, NEW k \in Worker, GoesOn(k) \/ Ends(k) \/ SendsUnaware(k), NEW e \in Event
  PROVE  job'[e].attempts = job[e].attempts /\ (JobExists(e)' => JobExists(e))
<1>1. CASE GoesOn(k)
  BY <1>1 DEF GoesOn, JobExists
<1>2. CASE Ends(k)
  BY <1>2, EndsMoves DEF JobExists
<1>3. CASE SendsUnaware(k)
  <2>1. TypeOK /\ worker[k].event \in Event /\ SetJob(worker[k].event, "sent")
    BY <1>3 DEF SendsUnaware, ClaimsInv
  <2> QED
    BY <2>1, SetJobSets DEF JobExists
<1> QED
  BY <1>1, <1>2, <1>3

LEMMA DropCounted ==
  ASSUME ClaimsInv, TypeOK', NEW k \in Worker, BatchAborts(k) \/ Crash(k),
         NEW e \in Event, NEW d \in Device, JobExists(e) => Counted(e, d), JobExists(e)'
  PROVE  Counted(e, d)'
<1>1. /\ TypeOK /\ worker'[k].batch[e] = 0
      /\ \A l \in Worker \ {k} : worker'[l] = worker[l]
      /\ job'[e].attempts = job[e].attempts /\ JobExists(e)
  BY DropMoves DEF ClaimsInv, Moved, JobExists
<1>2. Senders(e, d)' \subseteq Senders(e, d)
  BY <1>1 DEF Senders, MayStillSend
<1>3. push'[<<e, d>>].failures = push[<<e, d>>].failures
  <2>1. CASE BatchAborts(k)
    BY <2>1 DEF BatchAborts
  <2>2. CASE Crash(k)
    <3>1. ~SendPush(k) \/ worker'[k].pc = "record"
      BY <1>1, SendMoves
    <3>2. worker'[k].pc = "idle"
      BY DropMoves
    <3> QED
      BY <1>1, <2>2, <3>1, <3>2, FailuresAdded DEF WorkerStep, WorkerFault
  <2> QED
    BY <2>1, <2>2
<1> QED
  BY <1>1, <1>2, <1>3, CountedOn, CountedNumbers

LEMMA ClaimCounted ==
  ASSUME ClaimsInv, NEW k \in Worker, NEW jobs \in SUBSET Event, ClaimJobs(k, jobs),
         NEW e \in Event, NEW d \in Device, JobExists(e) => Counted(e, d), JobExists(e)'
  PROVE  Counted(e, d)'
<1>1. TypeOK /\ worker[k].batch[e] = 0 /\ UNCHANGED push
  BY DEF ClaimJobs, ClaimsInv, BatchesHeld
<1>2. TypeOK' /\ \A l \in Worker \ {k} : worker'[l] = worker[l]
  BY <1>1, ClaimMoves DEF Moved
<1>3. CASE e \in jobs
  <2>1. JobExists(e) /\ job'[e].attempts = job[e].attempts + 1
    BY <1>1, <1>3, ClaimMoves DEF JobExists
  <2>2. Senders(e, d)' \in SUBSET (Senders(e, d) \union {k})
    BY <1>2 DEF Senders, MayStillSend
  <2>3. /\ Senders(e, d) \union {k} \in SUBSET Worker
        /\ Cardinality(Senders(e, d) \union {k}) <= Cardinality(Senders(e, d)) + 1
    BY SenderSets, WorkerSets
  <2>4. /\ Cardinality(Senders(e, d)') <= Cardinality(Senders(e, d) \union {k})
        /\ Cardinality(Senders(e, d) \union {k}) \in Nat
    BY <2>2, <2>3, WorkerSets
  <2> QED
    BY <1>1, <1>2, <2>1, <2>3, <2>4, CountedNumbers DEF Counted
<1>4. CASE e \notin jobs
  <2>1. job'[e] = job[e] /\ worker'[k].batch[e] = 0 /\ JobExists(e)
    BY <1>1, <1>4, ClaimMoves DEF JobExists
  <2>2. Senders(e, d)' \subseteq Senders(e, d)
    BY <1>2, <2>1 DEF Senders, MayStillSend
  <2>3. job'[e].attempts >= job[e].attempts /\ push'[<<e, d>>].failures <= push[<<e, d>>].failures
    BY <1>1, <1>2, <2>1, CountedNumbers
  <2> QED
    BY <1>1, <1>2, <2>1, <2>2, <2>3, CountedOn
<1> QED
  BY <1>3, <1>4

LEMMA AttemptCounted ==
  ASSUME TurnsInv, TypeOK', NEW k \in Worker,
         BatchStep(k) \/ StatementFails(k) \/ StatementLooksFailed(k),
         GoesOn(k) \/ Ends(k) \/ SendsUnaware(k),
         NEW e \in Event, NEW d \in Device, JobExists(e) => Counted(e, d), JobExists(e)'
  PROVE  Counted(e, d)'
<1>1. ClaimsInv /\ TypeOK
  BY DEF TurnsInv, ClaimsInv
<1>2. job'[e].attempts = job[e].attempts /\ JobExists(e)
  BY <1>1, AttemptsStay
<1>3. \A l \in Worker \ {k} : worker'[l] = worker[l]
  BY <1>1, EndsMoves DEF GoesOn, SendsUnaware, Keeps, Moved
<1>4. Senders(e, d)' \subseteq Senders(e, d)
  BY <1>3, TurnsPass DEF Senders, MayStillSend
<1>5. CASE push'[<<e, d>>].failures = push[<<e, d>>].failures
  BY <1>1, <1>2, <1>4, <1>5, CountedOn, CountedNumbers
<1>6. CASE /\ SendPush(k) /\ worker[k].event = e /\ worker[k].target = d
           /\ push'[<<e, d>>].failures = push[<<e, d>>].failures + 1
  <2>1. worker[k].pc = "send" /\ worker'[k].pc = "record"
    BY <1>1, <1>6, SendMoves DEF SendPush
  <2>2. k \notin Senders(e, d)'
    BY <1>6, <2>1, TurnsPass DEF Senders
  <2>3. worker[k].batch[e] > 0
    BY <1>1, <1>6, <2>1 DEF ClaimsInv, BatchesHeld
  <2>4. k \in Senders(e, d)
    BY <1>6, <2>1, <2>3 DEF Senders, MayStillSend
  <2>5. Senders(e, d)' \in SUBSET (Senders(e, d) \ {k})
    BY <1>4, <2>2
  <2>6. /\ Senders(e, d) \ {k} \in SUBSET Worker
        /\ Cardinality(Senders(e, d) \ {k}) = Cardinality(Senders(e, d)) - 1
    BY <2>4, SenderSets, WorkerSets
  <2>7. /\ Cardinality(Senders(e, d)') <= Cardinality(Senders(e, d) \ {k})
        /\ Cardinality(Senders(e, d) \ {k}) \in Nat
    BY <2>5, <2>6, WorkerSets
  <2> QED
    BY <1>1, <1>2, <1>6, <2>6, <2>7, CountedNumbers DEF Counted
<1>7. WorkerStep(k)
  BY DEF WorkerStep, WorkerFault
<1> QED
  BY <1>1, <1>5, <1>6, <1>7, FailuresAdded

LEMMA FailuresStep ==
  ASSUME TurnsInv, FailuresCounted, [Next]_vars
  PROVE  FailuresCounted'
<1> SUFFICES ASSUME NEW e \in Event, NEW d \in Device, JobExists(e)' PROVE Counted(e, d)'
  BY DEF FailuresCounted, Counted
<1>1. /\ ClaimsInv /\ TypeOK /\ TypeOK' /\ (JobExists(e) => Counted(e, d))
  BY TypeStep DEF TurnsInv, ClaimsInv, FailuresCounted, Counted
<1>2. ASSUME UNCHANGED <<worker, push>>, job'[e].attempts = job[e].attempts, JobExists(e)
      PROVE  Counted(e, d)'
  BY <1>1, <1>2 DEF Counted, Senders, MayStillSend
<1>3. CASE UNCHANGED vars \/ Aside
  <2>1. UNCHANGED <<job, worker, push>>
    BY <1>3, AsideLeaves DEF vars
  <2> QED
    BY <1>2, <2>1 DEF JobExists
<1>4. ASSUME NEW events \in SUBSET Event, NEW devices \in SUBSET Device, Cascade(events, devices)
      PROVE  Counted(e, d)'
  <2>1. job'[e] = job[e] /\ JobExists(e) /\ UNCHANGED worker
    BY <1>4 DEF Cascade, JobExists, GoneJob, NoJob
  <2>2. push'[<<e, d>>] \in {push[<<e, d>>], NoPush}
    BY <1>4 DEF Cascade
  <2>3. push'[<<e, d>>].failures <= push[<<e, d>>].failures
    BY <1>1, <2>2, CountedNumbers DEF NoPush
  <2>4. Senders(e, d)' = Senders(e, d)
    BY <2>1 DEF Senders, MayStillSend
  <2> QED
    BY <1>1, <2>1, <2>3, <2>4, CountedOn, CountedNumbers
<1>5. ASSUME NEW f \in Event,
             InsertWalletEvent(f) \/ BackoffElapses(f) \/ AbandonedGoesStale(f) \/ AttendedGoesStale(f)
      PROVE  Counted(e, d)'
  <2>0. UNCHANGED <<worker, push>>
    BY <1>5 DEF InsertWalletEvent, BackoffElapses, AbandonedGoesStale, AttendedGoesStale, GoesStale
  <2>1. CASE f = e /\ InsertWalletEvent(f)
    <3>1. job[e].status = "none" /\ job'[e].attempts = 0
      BY <1>1, <2>1 DEF InsertWalletEvent, TypeOK
    <3>2. push'[<<e, d>>] = NoPush /\ Senders(e, d)' = {}
      BY <1>1, <2>0, <3>1 DEF ClaimsInv, ClaimsNumbered, Senders, MayStillSend
    <3>3. Cardinality(Senders(e, d)') = 0
      BY <3>2, FS_EmptySet
    <3> QED
      BY <3>1, <3>2, <3>3 DEF Counted, NoPush
  <2>2. CASE f = e /\ ~InsertWalletEvent(f)
    <3>1. job'[e].attempts = job[e].attempts /\ JobExists(e)
      BY <1>1, <1>5, <2>2 DEF BackoffElapses, AbandonedGoesStale, AttendedGoesStale, GoesStale,
                             TypeOK, JobRow, JobExists
    <3> QED
      BY <1>2, <2>0, <3>1
  <2>3. CASE f # e
    <3>1. job'[e] = job[e]
      BY <1>1, <1>5, <2>3 DEF InsertWalletEvent, BackoffElapses, AbandonedGoesStale,
                             AttendedGoesStale, GoesStale, TypeOK
    <3> QED
      BY <1>2, <2>0, <3>1 DEF JobExists
  <2> QED
    BY <2>1, <2>2, <2>3
<1>6. ASSUME NEW k \in Worker, NEW jobs \in SUBSET Event, ClaimJobs(k, jobs) PROVE Counted(e, d)'
  BY <1>1, <1>6, ClaimCounted
<1>7. ASSUME NEW k \in Worker, BatchStep(k) \/ StatementFails(k) \/ StatementLooksFailed(k),
             GoesOn(k) \/ Ends(k) \/ SendsUnaware(k)
      PROVE  Counted(e, d)'
  BY <1>1, <1>7, AttemptCounted
<1>8. ASSUME NEW k \in Worker, BatchAborts(k) \/ Crash(k) PROVE Counted(e, d)'
  BY <1>1, <1>8, DropCounted
<1> QED
  BY <1>1, <1>3, <1>4, <1>5, <1>6, <1>7, <1>8, StepKinds

LEMMA TurnsStep ==
  ASSUME TurnsInv, [Next]_vars
  PROVE  TurnsTaken'
<1> DEFINE Left(k) == worker[k].pc \in {"send", "record"} => worker[k].target \notin worker[k].queue
<1>1. ClaimsInv /\ TypeOK /\ \A k \in Worker : Left(k)
  BY DEF TurnsInv, ClaimsInv, TurnsTaken
<1>2. ASSUME NEW k \in Worker, \A l \in Worker \ {k} : worker'[l] = worker[l], Left(k)'
      PROVE  TurnsTaken'
  BY <1>1, <1>2 DEF TurnsTaken
<1>3. UNCHANGED worker => TurnsTaken'
  BY DEF TurnsInv, TurnsTaken
<1>4. CASE UNCHANGED vars \/ Aside
  BY <1>3, <1>4, AsideLeaves DEF vars
<1>5. ASSUME NEW events \in SUBSET Event, NEW devices \in SUBSET Device, Cascade(events, devices)
      PROVE  TurnsTaken'
  BY <1>3, <1>5 DEF Cascade
<1>6. ASSUME NEW f \in Event,
             InsertWalletEvent(f) \/ BackoffElapses(f) \/ AbandonedGoesStale(f) \/ AttendedGoesStale(f)
      PROVE  TurnsTaken'
  BY <1>3, <1>6 DEF InsertWalletEvent, BackoffElapses, AbandonedGoesStale, AttendedGoesStale, GoesStale
<1>7. ASSUME NEW k \in Worker, NEW jobs \in SUBSET Event, ClaimJobs(k, jobs) PROVE TurnsTaken'
  BY <1>1, <1>2, <1>7, ClaimMoves DEF Moved
<1>8. ASSUME NEW k \in Worker, BatchStep(k) \/ StatementFails(k) \/ StatementLooksFailed(k),
             GoesOn(k) \/ Ends(k) \/ SendsUnaware(k)
      PROVE  TurnsTaken'
  <2>1. \A l \in Worker \ {k} : worker'[l] = worker[l]
    BY <1>1, <1>8, EndsMoves DEF GoesOn, SendsUnaware, Keeps, Moved
  <2> QED
    BY <1>2, <1>8, <2>1, TurnsPass
<1>9. ASSUME NEW k \in Worker, BatchAborts(k) \/ Crash(k) PROVE TurnsTaken'
  BY <1>1, <1>2, <1>9, DropMoves DEF Moved
<1> QED
  BY <1>1, <1>4, <1>5, <1>6, <1>7, <1>8, <1>9, StepKinds

\* Retries are bounded, and those beyond the limit are paid for by incidents.
THEOREM RetriesArePaidFor == Spec => []RetriesPaidFor
<1> DEFINE Inv == TurnsInv /\ FailuresCounted /\ AttemptsPaid
<1>1. Init => Inv
  <2> SUFFICES ASSUME Init PROVE Inv
    OBVIOUS
  <2>1. ClaimsInv
    BY InitClaims
  <2>2. \A e \in Event : ~JobExists(e)
    BY DEF Init, NoJob, JobExists
  <2>3. TurnsTaken
    BY DEF Init, NoWork, TurnsTaken
  <2> QED
    BY <2>1, <2>2, <2>3 DEF TurnsInv, FailuresCounted, AttemptsPaid
<1>2. Inv /\ [Next]_vars => Inv'
  <2> SUFFICES ASSUME Inv, [Next]_vars PROVE Inv'
    OBVIOUS
  <2>1. ClaimsInv' /\ TurnsTaken'
    BY ClaimsStep, TurnsStep DEF TurnsInv
  <2>2. FailuresCounted' /\ AttemptsPaid'
    BY FailuresStep, PaidStep DEF TurnsInv
  <2> QED
    BY <2>1, <2>2 DEF TurnsInv
<1>3. Inv => RetriesPaidFor
  <2> SUFFICES ASSUME Inv, NEW e \in Event, NEW d \in Device, JobExists(e)
               PROVE  /\ push[<<e, d>>].failures <= job[e].attempts
                      /\ job[e].attempts <= MaxAttempts + incidents
    BY DEF RetriesPaidFor
  <2>1. /\ push[<<e, d>>].failures \in Nat /\ job[e].attempts \in Nat /\ incidents \in Nat
        /\ MaxAttempts \in Nat
    <3>1. <<e, d>> \in Event \X Device /\ TypeOK
      BY DEF TurnsInv, ClaimsInv
    <3> QED
      BY <3>1, ConstantsAssumption DEF TypeOK, JobRow, PushState
  <2>2. Cardinality(Senders(e, d)) \in Nat /\ Cardinality(Renewable(e)) \in Nat /\ Claims(e) \in Nat
    BY SenderSets, RenewableSets
  <2> QED
    BY <2>1, <2>2 DEF FailuresCounted, AttemptsPaid
<1> HIDE DEF Inv
<1> QED
  BY <1>1, <1>2, <1>3, PTL DEF Spec

-----------------------------------------------------------------------------
(* Pushes are recorded.                                                    *)

\* The worker is about to push, or to record that Firebase accepted the push.
Sending(k, e, d) == worker[k].pc = "send" /\ worker[k].event = e /\ worker[k].target = d
Delivering(k, e, d) ==
  /\ worker[k].pc = "record" /\ worker[k].result = "delivered"
  /\ worker[k].event = e /\ worker[k].target = d

\* What PushesRecorded says of one event and device.
Recorded(e, d) ==
  ~push[<<e, d>>].doubtful =>
    /\ push[<<e, d>>].accepted <= 1
    /\ push[<<e, d>>].accepted = 1 =>
         delivery[<<e, d>>] = "delivered" \/ \E k \in Worker : Delivering(k, e, d)
    /\ \A k \in Worker : Sending(k, e, d) => push[<<e, d>>].accepted = 0

LEMMA RecordedEach ==
  PushesRecorded <=> \A e \in Event \ uncertain, d \in Device : Recorded(e, d)
BY DEF PushesRecorded, Recorded, Sending, Delivering

\* A step of the worker does no push for the device, and leaves no accepted push unrecorded.
PushKept(k, e, d) ==
  /\ push'[<<e, d>>].accepted = push[<<e, d>>].accepted
  /\ push'[<<e, d>>].doubtful = push[<<e, d>>].doubtful
  /\ Delivering(k, e, d) => delivery'[<<e, d>>] = "delivered"
  /\ Sending(k, e, d)' => /\ worker[k].pc = "reserve" /\ worker[k].event = e
                          /\ delivery[<<e, d>>] # "delivered"

\* It pushes, and knows whether the push was accepted.
PushMade(k, e, d) ==
  /\ Sending(k, e, d) /\ ~Sending(k, e, d)'
  /\ push[<<e, d>>].doubtful => push'[<<e, d>>].doubtful
  /\ \/ push'[<<e, d>>].accepted = push[<<e, d>>].accepted
     \/ /\ Delivering(k, e, d)'
        /\ push'[<<e, d>>].accepted <= push[<<e, d>>].accepted + 1

LEMMA NoPushMade ==
  ASSUME NEW k \in Worker, NEW e \in Event, NEW d \in Device,
         UNCHANGED push, worker[k].pc # "record", worker'[k].pc # "send"
  PROVE  PushKept(k, e, d)
BY DEF PushKept, Delivering, Sending

LEMMA PushedNow ==
  ASSUME TypeOK, NEW p \in Event \X Device,
         NEW accepted \in BOOLEAN, NEW doubtful \in BOOLEAN, NEW failed \in BOOLEAN,
         push' = Pushed(p, accepted, doubtful, failed)
  PROVE  /\ \A q \in (Event \X Device) \ {p} : push'[q] = push[q]
         /\ push'[p].doubtful = (push[p].doubtful \/ doubtful)
         /\ push'[p].accepted = IF accepted /\ push[p].accepted < 2
                                THEN push[p].accepted + 1 ELSE push[p].accepted
BY PushedAdds

LEMMA RecordLost ==
  ASSUME TypeOK, NEW k \in Worker, NEW e \in Event, NEW d \in Device,
         worker[k].pc = "record", push' = Unrecorded(k), worker'[k].pc # "send"
  PROVE  PushKept(k, e, d) \/ push'[<<e, d>>].doubtful
<1> DEFINE lost == worker[k].result = "delivered"
           p == <<worker[k].event, worker[k].target>>
<1>1. lost \in BOOLEAN /\ push' = Pushed(p, FALSE, lost, FALSE) /\ p \in Event \X Device
  BY DEF Unrecorded, Pair, TypeOK
<1>2. p # <<e, d>> => ~Delivering(k, e, d)
  BY DEF Delivering
<1>3. Delivering(k, e, d) => lost
  BY DEF Delivering
<1>4. <<e, d>> \in Event \X Device /\ ~Sending(k, e, d)'
  BY DEF Sending
<1> HIDE DEF lost, p
<1>5. CASE p = <<e, d>>
  <2>1. /\ push'[p].accepted = push[p].accepted
        /\ push'[p].doubtful = (push[p].doubtful \/ lost)
    BY <1>1, PushedNow
  <2>2. push[p].doubtful \in BOOLEAN
    BY <1>1 DEF TypeOK, PushState
  <2>3. CASE lost
    BY <1>5, <2>1, <2>3
  <2>4. CASE ~lost
    <3>1. push'[p].doubtful = push[p].doubtful
      BY <2>1, <2>2, <2>4
    <3> QED
      BY <1>3, <1>4, <1>5, <2>1, <2>4, <3>1 DEF PushKept
  <2> QED
    BY <2>3, <2>4
<1>6. CASE p # <<e, d>>
  <2>1. \A q \in (Event \X Device) \ {p} : push'[q] = push[q]
    BY <1>1, PushedNow
  <2>2. push'[<<e, d>>] = push[<<e, d>>]
    BY <1>4, <1>6, <2>1
  <2> QED
    BY <1>2, <1>4, <1>6, <2>2 DEF PushKept
<1> QED
  BY <1>5, <1>6

LEMMA ResultPushes ==
  ASSUME TypeOK, NEW k \in Worker, NEW e \in Event, NEW d \in Device,
         worker[k].pc = "record", RecordResult(k), UNCHANGED push, worker'[k].pc # "send"
  PROVE  PushKept(k, e, d)
<1>1. Delivering(k, e, d) => delivery'[<<e, d>>] = "delivered"
  BY ResultRecorded DEF Delivering
<1> QED
  BY <1>1 DEF PushKept, Sending

LEMMA SendPushes ==
  ASSUME TypeOK, NEW k \in Worker, NEW e \in Event, NEW d \in Device, SendPush(k)
  PROVE  PushKept(k, e, d) \/ PushMade(k, e, d) \/ push'[<<e, d>>].doubtful
<1>1. PICK accepted \in BOOLEAN :
        /\ accepted => worker'[k].result \in {"delivered", "transient"}
        /\ push' = Pushed(Pair(k), accepted, accepted /\ worker'[k].result = "transient",
                          worker'[k].result = "transient")
  BY SendMoves
<1> DEFINE lost == accepted /\ worker'[k].result = "transient"
           failed == worker'[k].result = "transient"
           p == <<worker[k].event, worker[k].target>>
<1>2. /\ lost \in BOOLEAN /\ failed \in BOOLEAN /\ push' = Pushed(p, accepted, lost, failed)
      /\ p \in Event \X Device /\ worker[k].pc = "send"
  BY <1>1 DEF Pair, TypeOK, SendPush
<1>3. accepted => lost \/ worker'[k].result = "delivered"
  BY <1>1
<1>4. /\ worker'[k].pc = "record" /\ worker'[k].event = worker[k].event
      /\ worker'[k].target = worker[k].target
  BY SendMoves
<1>5. /\ ~Delivering(k, e, d) /\ ~Sending(k, e, d)' /\ <<e, d>> \in Event \X Device
      /\ p = <<e, d>> => Sending(k, e, d)
      /\ p = <<e, d>> /\ worker'[k].result = "delivered" => Delivering(k, e, d)'
  BY <1>2, <1>4 DEF Delivering, Sending
<1> HIDE DEF lost, failed, p
<1>6. CASE p = <<e, d>>
  <2>1. /\ push'[p].doubtful = (push[p].doubtful \/ lost)
        /\ push'[p].accepted = IF accepted /\ push[p].accepted < 2
                               THEN push[p].accepted + 1 ELSE push[p].accepted
    BY <1>1, <1>2, PushedAdds
  <2>2. push[p].accepted \in Nat /\ (push[p].doubtful => push'[p].doubtful)
    BY <1>2, <2>1 DEF TypeOK, PushState
  <2>3. CASE lost
    BY <1>6, <2>1, <2>3
  <2>4. CASE accepted /\ ~lost
    BY <1>3, <1>5, <1>6, <2>1, <2>2, <2>4 DEF PushMade
  <2>5. CASE ~accepted
    BY <1>5, <1>6, <2>1, <2>2, <2>5 DEF PushMade
  <2> QED
    BY <2>3, <2>4, <2>5
<1>7. CASE p # <<e, d>>
  <2>1. \A q \in (Event \X Device) \ {p} : push'[q] = push[q]
    BY <1>1, <1>2, PushedAdds
  <2>2. push'[<<e, d>>] = push[<<e, d>>]
    BY <1>5, <1>7, <2>1
  <2> QED
    BY <1>5, <2>2 DEF PushKept
<1> QED
  BY <1>6, <1>7

LEMMA AttemptPushes ==
  ASSUME TypeOK, NEW k \in Worker, NEW e \in Event, NEW d \in Device,
         BatchStep(k) \/ StatementFails(k) \/ StatementLooksFailed(k)
  PROVE  PushKept(k, e, d) \/ PushMade(k, e, d) \/ push'[<<e, d>>].doubtful
<1> DEFINE Fine == PushKept(k, e, d) \/ PushMade(k, e, d) \/ push'[<<e, d>>].doubtful
<1>a. ASSUME UNCHANGED push, worker[k].pc # "record", worker'[k].pc # "send" PROVE Fine
  BY <1>a, NoPushMade
<1>b. worker[k].pc \notin {"idle", "batch"} => worker[k].event \in Event
  BY DEF TypeOK
<1> HIDE DEF Fine
<1>1. ASSUME NEW f \in Event, PickJob(k, f) PROVE Fine
  BY <1>1, <1>a, PickMoves DEF PickJob
<1>2. ASSUME ReadContext(k) PROVE Fine
  BY <1>2, <1>a, <1>b, GotoMoves, FinishMoves DEF ReadContext
<1>3. ASSUME EnsureNotification(k) PROVE Fine
  BY <1>3, <1>a, <1>b, GotoMoves, ThrowMoves DEF EnsureNotification
<1>4. ASSUME ListDevices(k) PROVE Fine
  <2>1. worker[k].pc = "list" /\ UNCHANGED push
    BY <1>4 DEF ListDevices
  <2> QED
    BY <1>4, <1>a, <2>1, ListMoves
<1>5. ASSUME ReadDeliveries(k) PROVE Fine
  <2>1. worker[k].pc = "states" /\ UNCHANGED push
    BY <1>5 DEF ReadDeliveries
  <2> QED
    BY <1>5, <1>a, <2>1, ReadDeliveriesMoves
<1>6. ASSUME NEW f \in Device, ReserveDelivery(k, f) PROVE Fine
  <2>1. worker[k].pc = "reserve" /\ UNCHANGED push
    BY <1>6 DEF ReserveDelivery
  <2>2. CASE JobExists(worker[k].event) /\ SameRow(k, f)
    <3>1. /\ worker'[k].event = worker[k].event /\ worker'[k].target = f
          /\ worker'[k].pc = "send" => delivery[<<worker[k].event, f>>] # "delivered"
      BY <1>6, <2>2, ReserveMoves DEF NextStep
    <3> QED
      BY <2>1, <3>1 DEF Fine, PushKept, Delivering, Sending
  <2>3. CASE ~(JobExists(worker[k].event) /\ SameRow(k, f))
    BY <1>6, <1>a, <2>1, <2>3, ThrowMoves DEF ReserveDelivery
  <2> QED
    BY <2>2, <2>3
<1>7. ASSUME SendPush(k) PROVE Fine
  BY <1>7, SendPushes DEF Fine
<1>8. ASSUME RecordDelivery(k) PROVE Fine
  <2>1. worker[k].pc = "record"
    BY <1>8 DEF RecordDelivery
  <2>2. CASE RowsExist(k)
    <3> DEFINE retry == worker[k].retry \/ worker[k].result = "transient"
    <3>1. /\ retry \in BOOLEAN /\ RecordResult(k) /\ UNCHANGED push
          /\ NextStep(worker[k].queue, retry) = "catch" => Throw(k)
      BY <1>8, <2>2 DEF RecordDelivery
    <3> HIDE DEF retry
    <3>2. worker'[k].pc # "send"
      <4>1. CASE NextStep(worker[k].queue, retry) = "catch"
        BY <3>1, <4>1, ThrowMoves
      <4>2. CASE NextStep(worker[k].queue, retry) # "catch"
        BY <1>8, <2>2, <3>1, <4>2, RecordMoves DEF retry
      <4> QED
        BY <4>1, <4>2
    <3> QED
      BY <2>1, <3>1, <3>2, ResultPushes DEF Fine
  <2>3. CASE ~RowsExist(k)
    <3>1. push' = Unrecorded(k) /\ worker'[k].pc # "send"
      BY <1>8, <2>3, ThrowMoves DEF RecordDelivery
    <3> QED
      BY <2>1, <3>1, RecordLost DEF Fine
  <2> QED
    BY <2>2, <2>3
<1>9. ASSUME MarkSent(k) \/ RetryOrFail(k) PROVE Fine
  <2>1. worker[k].pc \in {"sent", "catch"} /\ FinishJob(k) /\ UNCHANGED push
    BY <1>9 DEF MarkSent, RetryOrFail
  <2> QED
    BY <1>a, <1>b, <2>1, FinishMoves
<1>10. ASSUME StatementFails(k) PROVE Fine
  <2>1. /\ worker'[k].pc # "send"
        /\ worker[k].pc = "record" => push' = Unrecorded(k)
        /\ worker[k].pc # "record" => push' = push
    BY <1>10, ThrowMoves DEF StatementFails
  <2> QED
    BY <1>a, <2>1, RecordLost DEF Fine
<1>11. ASSUME StatementLooksFailed(k) PROVE Fine
  <2>1. /\ worker'[k].pc # "send" /\ UNCHANGED push
        /\ worker[k].pc = "record" => RecordResult(k)
    BY <1>11, LooksFailedCases, ThrowMoves
  <2> QED
    BY <1>a, <2>1, ResultPushes DEF Fine
<1>12. Fine
  BY <1>1, <1>2, <1>3, <1>4, <1>5, <1>6, <1>7, <1>8, <1>9, <1>10, <1>11 DEF BatchStep
<1> QED
  BY <1>12 DEF Fine

\* The step of one worker keeps what is known of the pushes for a device.
LEMMA WorkerRecords ==
  ASSUME ClaimsInv, NEW k \in Worker, WorkerStep(k),
         \A l \in Worker \ {k} : worker'[l] = worker[l],
         NEW e \in Event, e \notin uncertain, NEW d \in Device, Recorded(e, d),
         PushKept(k, e, d) \/ PushMade(k, e, d) \/ push'[<<e, d>>].doubtful
  PROVE  Recorded(e, d)'
<1>1. /\ TypeOK /\ BatchesHeld /\ OneAtAJob /\ <<e, d>> \in Event \X Device
      /\ push[<<e, d>>].accepted \in Nat
  BY DEF ClaimsInv, TypeOK, PushState
<1>2. delivery[<<e, d>>] = "delivered" => delivery'[<<e, d>>] = "delivered"
  BY <1>1, WorkerKeepsRows
<1>3. \A l \in Worker : worker[l].pc \notin {"idle", "batch"} /\ worker[l].event = e =>
        worker[l].batch[e] > 0
  BY <1>1 DEF BatchesHeld
<1>4. \A l \in Worker : worker[l].batch[e] > 0 => \A j \in Worker \ {l} : worker[j].batch[e] = 0
  BY <1>1 DEF OneAtAJob
<1>5. \A l \in Worker : \A j \in Worker \ {l} :
        Sending(l, e, d) \/ (worker[l].pc = "reserve" /\ worker[l].event = e) =>
          ~Sending(j, e, d) /\ ~Delivering(j, e, d)
  BY <1>3, <1>4 DEF Sending, Delivering
<1>6. \A l \in Worker \ {k} : /\ Sending(l, e, d)' <=> Sending(l, e, d)
                              /\ Delivering(l, e, d)' <=> Delivering(l, e, d)
  BY DEF Sending, Delivering
<1>7. CASE PushKept(k, e, d)
  <2> SUFFICES ASSUME ~push'[<<e, d>>].doubtful PROVE Recorded(e, d)'
    BY DEF Recorded
  <2>1. /\ ~push[<<e, d>>].doubtful
        /\ push'[<<e, d>>].accepted = push[<<e, d>>].accepted
        /\ push[<<e, d>>].accepted <= 1
    BY <1>7 DEF PushKept, Recorded
  <2>2. push'[<<e, d>>].accepted = 1 =>
          delivery'[<<e, d>>] = "delivered" \/ \E l \in Worker : Delivering(l, e, d)'
    BY <1>2, <1>6, <1>7, <2>1 DEF PushKept, Recorded
  <2>3. ASSUME NEW l \in Worker, Sending(l, e, d)' PROVE push'[<<e, d>>].accepted = 0
    <3>1. CASE l # k
      BY <1>6, <2>1, <2>3, <3>1 DEF Recorded
    <3>2. CASE l = k
      <4>1. /\ worker[k].pc = "reserve" /\ worker[k].event = e
            /\ delivery[<<e, d>>] # "delivered"
        BY <1>7, <2>3, <3>2 DEF PushKept
      <4>2. ~Delivering(k, e, d) /\ \A j \in Worker \ {k} : ~Delivering(j, e, d)
        BY <1>5, <4>1 DEF Delivering
      <4>3. push[<<e, d>>].accepted # 1
        BY <2>1, <4>1, <4>2 DEF Recorded
      <4> QED
        BY <1>1, <2>1, <4>3
    <3> QED
      BY <3>1, <3>2
  <2> QED
    BY <2>1, <2>2, <2>3 DEF Recorded
<1>8. CASE PushMade(k, e, d) /\ ~push'[<<e, d>>].doubtful
  <2>1. Sending(k, e, d) /\ ~Sending(k, e, d)' /\ push[<<e, d>>].accepted = 0
    BY <1>8 DEF PushMade, Recorded
  <2>2. \A l \in Worker : ~Sending(l, e, d)'
    BY <1>5, <1>6, <2>1
  <2>3. /\ push'[<<e, d>>].accepted <= 1
        /\ push'[<<e, d>>].accepted = 1 => Delivering(k, e, d)'
    BY <1>8, <2>1 DEF PushMade
  <2> QED
    BY <2>2, <2>3 DEF Recorded
<1>9. CASE push'[<<e, d>>].doubtful
  BY <1>9 DEF Recorded
<1> QED
  BY <1>7, <1>8, <1>9

LEMMA DropRecords ==
  ASSUME ClaimsInv, NEW k \in Worker, BatchAborts(k) \/ Crash(k),
         NEW e \in Event, NEW d \in Device
  PROVE  PushKept(k, e, d) \/ push'[<<e, d>>].doubtful
<1>1. TypeOK /\ worker'[k].pc = "idle" /\ <<e, d>> \in Event \X Device
  BY DropMoves DEF ClaimsInv
<1>2. CASE BatchAborts(k)
  BY <1>1, <1>2, NoPushMade DEF BatchAborts
<1>3. CASE Crash(k) /\ worker[k].pc = "record"
  <2>1. push' = Unrecorded(k)
    BY <1>1, <1>3, CrashCases
  <2> QED
    BY <1>1, <1>3, <2>1, RecordLost
<1>4. CASE Crash(k) /\ worker[k].pc # "record" /\ push' = push
  BY <1>1, <1>4, NoPushMade
<1>5. CASE /\ Crash(k) /\ worker[k].pc = "send"
           /\ push' = Pushed(Pair(k), TRUE, TRUE, FALSE)
  <2> DEFINE p == <<worker[k].event, worker[k].target>>
  <2>1. push' = Pushed(p, TRUE, TRUE, FALSE) /\ p \in Event \X Device
    BY <1>1, <1>5 DEF Pair, TypeOK
  <2> HIDE DEF p
  <2>2. push'[p].doubtful /\ \A q \in (Event \X Device) \ {p} : push'[q] = push[q]
    BY <1>1, <2>1, PushedNow
  <2>3. CASE p = <<e, d>>
    BY <2>2, <2>3
  <2>4. CASE p # <<e, d>>
    <3>1. push'[<<e, d>>] = push[<<e, d>>]
      BY <1>1, <2>2, <2>4
    <3> QED
      BY <1>1, <1>5, <3>1 DEF PushKept, Delivering, Sending
  <2> QED
    BY <2>3, <2>4
<1> QED
  BY <1>1, <1>2, <1>3, <1>4, <1>5, CrashCases

LEMMA UncertainGrows ==
  ASSUME ClaimsInv, [Next]_vars
  PROVE  uncertain \subseteq uncertain'
<1>1. ASSUME NEW k \in Worker, BatchStep(k) \/ StatementFails(k) \/ StatementLooksFailed(k)
      PROVE  uncertain \subseteq uncertain'
  BY <1>1, AttemptKinds DEF ClaimsInv, GoesOn, Ends, SendsUnaware
<1>2. ASSUME NEW k \in Worker, BatchAborts(k) \/ Crash(k) PROVE uncertain \subseteq uncertain'
  BY <1>2, DropMoves
<1>3. ASSUME NEW k \in Worker, NEW jobs \in SUBSET Event, ClaimJobs(k, jobs)
      PROVE  uncertain \subseteq uncertain'
  BY <1>3 DEF ClaimJobs
<1>4. ASSUME NEW f \in Event,
             InsertWalletEvent(f) \/ BackoffElapses(f) \/ AbandonedGoesStale(f) \/ AttendedGoesStale(f)
      PROVE  uncertain \subseteq uncertain'
  BY <1>4 DEF InsertWalletEvent, BackoffElapses, AbandonedGoesStale, AttendedGoesStale, GoesStale
<1>5. ASSUME NEW events \in SUBSET Event, NEW devices \in SUBSET Device, Cascade(events, devices)
      PROVE  uncertain \subseteq uncertain'
  BY <1>5 DEF Cascade
<1>6. UNCHANGED vars \/ Aside => uncertain \subseteq uncertain'
  BY AsideLeaves DEF vars
<1> QED
  BY <1>1, <1>2, <1>3, <1>4, <1>5, <1>6, StepKinds

LEMMA RecordedStep ==
  ASSUME ClaimsInv, PushesRecorded, [Next]_vars
  PROVE  PushesRecorded'
<1> SUFFICES ASSUME NEW e \in Event, e \notin uncertain', NEW d \in Device PROVE Recorded(e, d)'
  BY DEF PushesRecorded, Recorded, Sending, Delivering
<1>1. TypeOK /\ TypeOK' /\ uncertain \subseteq uncertain'
  BY UncertainGrows, TypeStep DEF ClaimsInv
<1>2. e \notin uncertain /\ Recorded(e, d)
  BY <1>1, RecordedEach
<1>3. ASSUME UNCHANGED <<worker, push, delivery>> PROVE Recorded(e, d)'
  BY <1>2, <1>3 DEF Recorded, Sending, Delivering
<1>4. CASE UNCHANGED vars \/ Aside
  BY <1>3, <1>4, AsideLeaves DEF vars
<1>5. ASSUME NEW events \in SUBSET Event, NEW devices \in SUBSET Device, Cascade(events, devices)
      PROVE  Recorded(e, d)'
  <2>1. UNCHANGED worker
    BY <1>5 DEF Cascade
  <2>2. CASE e \in events \/ d \in devices
    <3>1. push'[<<e, d>>] = NoPush
      BY <1>5, <2>2 DEF Cascade
    <3> QED
      BY <3>1 DEF Recorded, NoPush
  <2>3. CASE ~(e \in events \/ d \in devices)
    <3>1. push'[<<e, d>>] = push[<<e, d>>] /\ delivery'[<<e, d>>] = delivery[<<e, d>>]
      BY <1>5, <2>3 DEF Cascade
    <3> QED
      BY <1>2, <2>1, <3>1 DEF Recorded, Sending, Delivering
  <2> QED
    BY <2>2, <2>3
<1>6. ASSUME NEW f \in Event,
             InsertWalletEvent(f) \/ BackoffElapses(f) \/ AbandonedGoesStale(f) \/ AttendedGoesStale(f)
      PROVE  Recorded(e, d)'
  BY <1>3, <1>6 DEF InsertWalletEvent, BackoffElapses, AbandonedGoesStale, AttendedGoesStale, GoesStale
<1>7. ASSUME NEW k \in Worker, NEW jobs \in SUBSET Event, ClaimJobs(k, jobs) PROVE Recorded(e, d)'
  <2>1. /\ UNCHANGED push /\ worker[k].pc = "idle" /\ WorkerStep(k)
    BY <1>7 DEF ClaimJobs, WorkerStep
  <2>2. worker'[k].pc = "batch" /\ \A l \in Worker \ {k} : worker'[l] = worker[l]
    BY <1>1, <1>7, ClaimMoves DEF Moved
  <2>3. PushKept(k, e, d)
    BY <2>1, <2>2, NoPushMade
  <2> QED
    BY <1>2, <2>1, <2>2, <2>3, WorkerRecords
<1>8. ASSUME NEW k \in Worker, BatchStep(k) \/ StatementFails(k) \/ StatementLooksFailed(k),
             GoesOn(k) \/ Ends(k) \/ SendsUnaware(k)
      PROVE  Recorded(e, d)'
  <2>1. WorkerStep(k) /\ \A l \in Worker \ {k} : worker'[l] = worker[l]
    BY <1>8, EndsMoves DEF WorkerStep, WorkerFault, GoesOn, SendsUnaware, Keeps, Moved
  <2>2. PushKept(k, e, d) \/ PushMade(k, e, d) \/ push'[<<e, d>>].doubtful
    BY <1>1, <1>8, AttemptPushes
  <2> QED
    BY <1>2, <2>1, <2>2, WorkerRecords
<1>9. ASSUME NEW k \in Worker, BatchAborts(k) \/ Crash(k) PROVE Recorded(e, d)'
  <2>1. WorkerStep(k) /\ \A l \in Worker \ {k} : worker'[l] = worker[l]
    BY <1>9, DropMoves DEF WorkerStep, WorkerFault, Moved
  <2>2. PushKept(k, e, d) \/ push'[<<e, d>>].doubtful
    BY <1>9, DropRecords
  <2> QED
    BY <1>2, <2>1, <2>2, WorkerRecords
<1> QED
  BY <1>4, <1>5, <1>6, <1>7, <1>8, <1>9, StepKinds

\* A push is repeated only after one that could not be recorded, or by two workers.
THEOREM DuplicatesAreExplained == Spec => []DuplicatesExplained
<1>1. Init => ClaimsInv /\ PushesRecorded
  <2> SUFFICES ASSUME Init PROVE PushesRecorded
    BY InitClaims
  <2>1. \A e \in Event, d \in Device : push[<<e, d>>] = NoPush
    BY DEF Init
  <2> QED
    BY <2>1 DEF PushesRecorded, NoPush
<1>2. ClaimsInv /\ PushesRecorded /\ [Next]_vars => (ClaimsInv /\ PushesRecorded)'
  BY ClaimsStep, RecordedStep
<1>3. ClaimsInv /\ PushesRecorded => DuplicatesExplained
  <2> SUFFICES ASSUME ClaimsInv, PushesRecorded, NEW p \in Event \X Device,
                      push[p].accepted > 1, ~push[p].doubtful, p[1] \notin uncertain
               PROVE  FALSE
    BY DEF DuplicatesExplained
  <2>1. PICK e \in Event, d \in Device : p = <<e, d>>
    OBVIOUS
  <2>2. push[<<e, d>>].accepted \in Nat /\ e \notin uncertain
    BY <2>1 DEF ClaimsInv, TypeOK, PushState
  <2>3. push[<<e, d>>].accepted <= 1
    BY <2>1, <2>2 DEF PushesRecorded
  <2> QED
    BY <2>1, <2>2, <2>3
<1> QED
  BY <1>1, <1>2, <1>3, PTL DEF Spec

-----------------------------------------------------------------------------
(* A job is sent when its devices are settled.                             *)

\* A worker writes no delivery but of its own event, and replaces no device row.
LEMMA WorkerWrites ==
  ASSUME TypeOK, NEW k \in Worker, WorkerStep(k)
  PROVE  /\ \A e \in Event, d \in Device : delivery'[<<e, d>>] # delivery[<<e, d>>] =>
              worker[k].pc \in {"reserve", "record"} /\ worker[k].event = e
         /\ \A d \in Device : /\ device'[d].user = device[d].user
                             /\ device'[d].version = device[d].version
                             /\ device'[d].born = device[d].born
<1> DEFINE Own ==
      /\ \A e \in Event, d \in Device : delivery'[<<e, d>>] # delivery[<<e, d>>] =>
           worker[k].pc \in {"reserve", "record"} /\ worker[k].event = e
      /\ \A d \in Device : /\ device'[d].user = device[d].user
                          /\ device'[d].version = device[d].version
                          /\ device'[d].born = device[d].born
<1>1. ASSUME UNCHANGED <<delivery, device>> PROVE Own
  BY <1>1
<1>2. ASSUME NEW d \in Device, worker[k].event \in Event, worker[k].pc = "reserve",
             UNCHANGED device,
             delivery' = [delivery EXCEPT ![<<worker[k].event, d>>] =
                            Upserted(<<worker[k].event, d>>, "pending")]
      PROVE  Own
  BY <1>2, ReservationMade
<1>3. ASSUME worker[k].pc = "record", RecordResult(k) PROVE Own
  <2> DEFINE p == <<worker[k].event, worker[k].target>>
  <2>1. /\ \A q \in (Event \X Device) \ {p} : delivery'[q] = delivery[q]
        /\ \A d \in Device : /\ device'[d].user = device[d].user
                            /\ device'[d].version = device[d].version
                            /\ device'[d].born = device[d].born
    BY <1>3, ResultRecorded
  <2>2. ASSUME NEW e \in Event, NEW d \in Device, e # worker[k].event
        PROVE  delivery'[<<e, d>>] = delivery[<<e, d>>]
    <3>1. <<e, d>> \in (Event \X Device) \ {p}
      BY <2>2
    <3> QED
      BY <2>1, <3>1
  <2> QED
    BY <1>3, <2>1, <2>2
<1> HIDE DEF Own
<1>5. ASSUME NEW d \in Device, ReserveDelivery(k, d) PROVE Own
  <2>1. worker[k].event \in Event /\ worker[k].pc = "reserve" /\ UNCHANGED device
    BY <1>5 DEF ReserveDelivery, TypeOK
  <2>2. \/ delivery' = delivery
        \/ delivery' = [delivery EXCEPT ![<<worker[k].event, d>>] =
                          Upserted(<<worker[k].event, d>>, "pending")]
    BY <1>5 DEF ReserveDelivery
  <2> QED
    BY <1>1, <1>2, <2>1, <2>2
<1>6. ASSUME RecordDelivery(k) PROVE Own
  <2>1. /\ worker[k].pc = "record"
        /\ RecordResult(k) \/ UNCHANGED <<delivery, device>>
    BY <1>6 DEF RecordDelivery
  <2> QED
    BY <1>1, <1>3, <2>1
<1>7. ASSUME StatementLooksFailed(k) PROVE Own
  <2>1. worker[k].queue \subseteq Device /\ worker[k].event \in Event
    BY <1>7, LooksFailedCases DEF TypeOK, WorkState
  <2>2. \/ /\ worker[k].pc = "reserve" /\ UNCHANGED device
           /\ \E d \in worker[k].queue :
                delivery' = [delivery EXCEPT ![<<worker[k].event, d>>] =
                               Upserted(<<worker[k].event, d>>, "pending")]
        \/ worker[k].pc = "record" /\ RecordResult(k)
        \/ UNCHANGED <<delivery, device>>
    BY <1>7, LooksFailedCases
  <2> QED
    BY <1>1, <1>2, <1>3, <2>1, <2>2
<1>8. CASE \/ \E jobs \in SUBSET Event : ClaimJobs(k, jobs)
           \/ \E e \in Event : PickJob(k, e)
           \/ ReadContext(k) \/ EnsureNotification(k) \/ ListDevices(k) \/ ReadDeliveries(k)
           \/ SendPush(k) \/ MarkSent(k) \/ RetryOrFail(k)
           \/ StatementFails(k) \/ BatchAborts(k) \/ Crash(k)
  <2>1. UNCHANGED <<delivery, device>>
    BY <1>8 DEF ClaimJobs, PickJob, ReadContext, EnsureNotification, ListDevices, ReadDeliveries,
                SendPush, MarkSent, RetryOrFail, StatementFails, BatchAborts, Crash
  <2> QED
    BY <1>1, <2>1
<1>9. Own
  BY <1>5, <1>6, <1>7, <1>8 DEF WorkerStep, BatchStep, WorkerFault, Own
<1> QED
  BY <1>9 DEF Own

\* A row that was replaced is newer than anything listed before.
LEMMA RowsStay ==
  ASSUME TypeOK, [Next]_vars, NEW d \in Device, NEW listed \in Nat, listed <= device[d].version
  PROVE  /\ listed <= device'[d].version
         /\ device'[d].user # Nobody /\ device'[d].born <= listed =>
              device[d].user # Nobody /\ device[d].born <= listed
<1> DEFINE Stays ==
      /\ listed <= device'[d].version
      /\ device'[d].user # Nobody /\ device'[d].born <= listed =>
           device[d].user # Nobody /\ device[d].born <= listed
<1>1. device \in [Device -> DeviceRow] /\ device[d].version \in Nat /\ device[d].born \in Nat
  BY DEF TypeOK, DeviceRow
<1>2. ASSUME device'[d] = device[d] PROVE Stays
  BY <1>2
<1>3. ASSUME NEW u \in User, NEW f \in Device, RegisterDevice(u, f) PROVE Stays
  <2>1. CASE f = d
    <3>1. /\ device'[d].version = device[d].version + 1
          /\ device'[d].born = IF device[d].user = Nobody THEN device[d].version + 1
                                                          ELSE device[d].born
      BY <1>1, <1>3, <2>1 DEF RegisterDevice
    <3> QED
      BY <1>1, <3>1
  <2>2. CASE f # d
    <3>1. device'[d] = device[d]
      BY <1>1, <1>3, <2>2 DEF RegisterDevice
    <3> QED
      BY <1>2, <3>1
  <2> QED
    BY <2>1, <2>2
<1>4. ASSUME NEW u \in User, NEW f \in Device, UnregisterDevice(u, f) PROVE Stays
  <2>1. CASE f = d
    <3>1. /\ device'[d].version = device[d].version /\ device'[d].born = device[d].born
          /\ device'[d].user = device[d].user
      BY <1>1, <1>4, <2>1 DEF UnregisterDevice, DeviceRow
    <3> QED
      BY <1>1, <3>1
  <2>2. CASE f # d
    <3>1. device'[d] = device[d]
      BY <1>1, <1>4, <2>2 DEF UnregisterDevice
    <3> QED
      BY <1>2, <3>1
  <2> QED
    BY <2>1, <2>2
<1>5. ASSUME NEW events \in SUBSET Event, NEW devices \in SUBSET Device, Cascade(events, devices)
      PROVE  Stays
  <2>1. /\ device'[d].version = device[d].version
        /\ IF d \in devices THEN device'[d].user = Nobody ELSE device'[d] = device[d]
    BY <1>5, CascadeTypes
  <2> QED
    BY <1>1, <2>1
<1>6. ASSUME NEW k \in Worker, WorkerStep(k) PROVE Stays
  BY <1>1, <1>6, WorkerWrites
<1> HIDE DEF Stays
<1>7. ASSUME NEW u \in User, MarkAllNotificationsRead(u) \/ DeleteAccount(u) PROVE Stays
  <2>1. CASE MarkAllNotificationsRead(u)
    BY <1>2, <2>1 DEF MarkAllNotificationsRead
  <2>2. CASE DeleteAccount(u)
    <3> DEFINE events == {e \in Event : Owner[e] = u /\ JobExists(e)}
               devices == {f \in Device : device[f].user = u}
    <3>1. events \in SUBSET Event /\ devices \in SUBSET Device /\ Cascade(events, devices)
      BY <2>2 DEF DeleteAccount
    <3> HIDE DEF events, devices
    <3> QED
      BY <1>5, <3>1
  <2> QED
    BY <1>7, <2>1, <2>2
<1>8. ASSUME NEW e \in Event, EventStep(e) PROVE Stays
  <2>1. CASE DeleteWallet(e)
    <3>1. Cascade({e}, {}) /\ {e} \in SUBSET Event /\ {} \in SUBSET Device
      BY <2>1 DEF DeleteWallet
    <3> QED
      BY <1>5, <3>1
  <2>2. CASE ~DeleteWallet(e)
    <3>1. UNCHANGED device
      BY <1>8, <2>2 DEF EventStep, InsertWalletEvent, MarkNotificationRead, BackoffElapses,
                        AbandonedGoesStale, AttendedGoesStale, GoesStale
    <3> QED
      BY <1>2, <3>1
  <2> QED
    BY <2>1, <2>2
<1>9. Stays
  BY <1>2, <1>3, <1>4, <1>6, <1>7, <1>8 DEF Next, UserStep, vars
<1> QED
  BY <1>9 DEF Stays

LEMMA ListsMove ==
  ASSUME TypeOK, NEW k \in Worker,
         BatchStep(k) \/ StatementFails(k) \/ StatementLooksFailed(k), NEW d \in Device
  PROVE  worker'[k].listed[d] \in {0, worker[k].listed[d], device[d].version}
<1> DEFINE Listed == worker'[k].listed[d] \in {0, worker[k].listed[d], device[d].version}
<1>a. worker[k].pc \notin {"idle", "batch"} => worker[k].event \in Event
  BY DEF TypeOK
<1>1. ASSUME NEW f \in Event, PickJob(k, f) PROVE Listed
  BY <1>1, PickMoves
<1>2. ASSUME ReadContext(k) PROVE Listed
  BY <1>2, <1>a, GotoMoves, FinishMoves DEF ReadContext
<1>3. ASSUME EnsureNotification(k) PROVE Listed
  BY <1>3, GotoMoves, ThrowMoves DEF EnsureNotification
<1>4. ASSUME ListDevices(k) PROVE Listed
  BY <1>4, ListMoves
<1>5. ASSUME ReadDeliveries(k) PROVE Listed
  BY <1>5, ReadDeliveriesMoves
<1>6. ASSUME NEW f \in Device, ReserveDelivery(k, f) PROVE Listed
  <2>1. CASE JobExists(worker[k].event) /\ SameRow(k, f)
    BY <1>6, <2>1, ReserveMoves
  <2>2. CASE ~(JobExists(worker[k].event) /\ SameRow(k, f))
    BY <1>6, <2>2, ThrowMoves DEF ReserveDelivery
  <2> QED
    BY <2>1, <2>2
<1>7. ASSUME SendPush(k) PROVE Listed
  BY <1>7, SendMoves
<1>8. ASSUME RecordDelivery(k) PROVE Listed
  <2> DEFINE retry == worker[k].retry \/ worker[k].result = "transient"
  <2>1. retry \in BOOLEAN
    BY DEF TypeOK, WorkState
  <2>2. CASE RowsExist(k) /\ NextStep(worker[k].queue, retry) # "catch"
    BY <1>8, <2>1, <2>2, RecordMoves
  <2>3. CASE ~(RowsExist(k) /\ NextStep(worker[k].queue, retry) # "catch")
    <3>1. Throw(k)
      BY <1>8, <2>3 DEF RecordDelivery
    <3> QED
      BY <3>1, ThrowMoves
  <2> QED
    BY <2>2, <2>3
<1>9. ASSUME MarkSent(k) \/ RetryOrFail(k) PROVE Listed
  BY <1>9, <1>a, FinishMoves DEF MarkSent, RetryOrFail
<1>10. ASSUME StatementFails(k) \/ StatementLooksFailed(k) PROVE Listed
  BY <1>10, ThrowMoves DEF StatementFails, StatementLooksFailed
<1> HIDE DEF Listed
<1>11. Listed
  BY <1>1, <1>2, <1>3, <1>4, <1>5, <1>6, <1>7, <1>8, <1>9, <1>10 DEF BatchStep
<1> QED
  BY <1>11 DEF Listed

LEMMA ListedStep ==
  ASSUME ClaimsInv, ListedBehind, [Next]_vars
  PROVE  ListedBehind'
<1> SUFFICES ASSUME NEW k \in Worker, NEW d \in Device
             PROVE  worker'[k].listed[d] <= device'[d].version
  BY DEF ListedBehind
<1>1. /\ TypeOK /\ TypeOK' /\ device[d].version \in Nat /\ worker[k].listed[d] \in Nat
      /\ device'[d].version \in Nat /\ worker[k].listed[d] <= device[d].version
  BY TypeStep DEF ClaimsInv, TypeOK, DeviceRow, WorkState, ListedBehind
<1>2. worker'[k].listed[d] \in {0, worker[k].listed[d], device[d].version}
  <2>1. ASSUME worker'[k] = worker[k] PROVE worker'[k].listed[d] = worker[k].listed[d]
    BY <2>1
  <2>2. CASE UNCHANGED vars \/ Aside
    BY <2>2, AsideLeaves DEF vars
  <2>3. ASSUME NEW events \in SUBSET Event, NEW devices \in SUBSET Device, Cascade(events, devices)
        PROVE  UNCHANGED worker
    BY <2>3 DEF Cascade
  <2>4. ASSUME NEW f \in Event,
               InsertWalletEvent(f) \/ BackoffElapses(f) \/ AbandonedGoesStale(f) \/ AttendedGoesStale(f)
        PROVE  UNCHANGED worker
    BY <2>4 DEF InsertWalletEvent, BackoffElapses, AbandonedGoesStale, AttendedGoesStale, GoesStale
  <2>5. ASSUME NEW l \in Worker, NEW jobs \in SUBSET Event, ClaimJobs(l, jobs)
        PROVE  worker'[k].listed[d] \in {0, worker[k].listed[d]}
    BY <1>1, <2>5, ClaimMoves DEF Moved
  <2>6. ASSUME NEW l \in Worker, BatchStep(l) \/ StatementFails(l) \/ StatementLooksFailed(l),
               GoesOn(l) \/ Ends(l) \/ SendsUnaware(l)
        PROVE  worker'[k].listed[d] \in {0, worker[k].listed[d], device[d].version}
    <3>1. l # k => worker'[k] = worker[k]
      BY <2>6, EndsMoves DEF GoesOn, SendsUnaware, Keeps, Moved
    <3> QED
      BY <1>1, <2>6, <3>1, ListsMove
  <2>7. ASSUME NEW l \in Worker, BatchAborts(l) \/ Crash(l)
        PROVE  worker'[k].listed[d] \in {0, worker[k].listed[d]}
    <3>1. worker' = [worker EXCEPT ![l] = NoWork]
      BY <1>1, <2>7, CrashCases DEF BatchAborts
    <3> QED
      BY <1>1, <3>1, IdleMoves DEF Moved
  <2> QED
    BY <2>2, <2>3, <2>4, <2>5, <2>6, <2>7, StepKinds
<1>3. 0 <= device'[d].version /\ device[d].version <= device'[d].version
  BY <1>1, RowsStay
<1> QED
  BY <1>1, <1>2, <1>3

Late == {"reserve", "send", "record", "sent"}

\* What DevicesHandled says of one worker and device.
HandledOrLeft(k, d) ==
  worker[k].listed[d] > 0 /\ SameRow(k, d) =>
    \/ delivery[<<worker[k].event, d>>] \in Settled
    \/ d \in worker[k].queue
    \/ worker[k].pc \in {"send", "record"} /\ d = worker[k].target
    \/ worker[k].retry

Handled(k) ==
  /\ worker[k].pc \in {"idle", "batch", "context", "ensure", "list", "states"} => ~worker[k].retry
  /\ worker[k].pc = "sent" => worker[k].queue = {} /\ ~worker[k].retry
  /\ worker[k].pc \in Late /\ worker[k].event \notin uncertain /\ JobExists(worker[k].event) =>
       \A d \in Device : HandledOrLeft(k, d)

LEMMA HandledEach == DevicesHandled <=> \A k \in Worker : Handled(k)
BY DEF DevicesHandled, Handled, HandledOrLeft, Late

LEMMA HandledEachNext == DevicesHandled' <=> \A k \in Worker : Handled(k)'
BY DEF DevicesHandled, Handled, HandledOrLeft, Late

\* A listed row that is still there was there before the step.
LEMMA ListedRowsStay ==
  ASSUME TypeOK, ListedBehind, [Next]_vars, NEW k \in Worker, NEW d \in Device,
         worker'[k].listed[d] = worker[k].listed[d], SameRow(k, d)'
  PROVE  SameRow(k, d)
<1>1. worker[k].listed[d] \in Nat /\ worker[k].listed[d] <= device[d].version
  BY DEF TypeOK, WorkState, ListedBehind
<1> DEFINE listed == worker[k].listed[d]
<1>2. listed \in Nat /\ listed <= device[d].version
  BY <1>1
<1>3. device'[d].user # Nobody /\ device'[d].born <= listed
  BY DEF SameRow
<1> HIDE DEF listed
<1>4. device[d].user # Nobody /\ device[d].born <= listed
  BY <1>2, <1>3, RowsStay
<1> QED
  BY <1>4 DEF SameRow, listed

\* A worker that does not move keeps what it handled: no other worker is at its job.
LEMMA OthersHandled ==
  ASSUME ClaimsInv, ListedBehind, [Next]_vars, NEW k \in Worker, Handled(k),
         worker'[k] = worker[k],
         worker[k].pc \in Late /\ worker[k].event \notin uncertain /\ JobExists(worker[k].event)' =>
           /\ JobExists(worker[k].event)
           /\ \A d \in Device : SameRow(k, d)' =>
                delivery'[<<worker[k].event, d>>] = delivery[<<worker[k].event, d>>]
  PROVE  Handled(k)'
<1>1. uncertain \subseteq uncertain'
  BY UncertainGrows
<1>2. ASSUME worker[k].pc \in Late, worker[k].event \notin uncertain', JobExists(worker[k].event)',
             NEW d \in Device
      PROVE  HandledOrLeft(k, d)'
  <2>1. /\ HandledOrLeft(k, d)
        /\ SameRow(k, d)' =>
             delivery'[<<worker[k].event, d>>] = delivery[<<worker[k].event, d>>]
    BY <1>1, <1>2 DEF Handled
  <2>2. SameRow(k, d)' => SameRow(k, d)
    BY ListedRowsStay DEF ClaimsInv
  <2> QED
    BY <2>1, <2>2 DEF HandledOrLeft
<1>3. worker'[k].event = worker[k].event /\ worker'[k].pc = worker[k].pc
  OBVIOUS
<1>4. worker[k].pc \in Late /\ worker[k].event \notin uncertain' /\ JobExists(worker[k].event)' =>
        \A d \in Device : HandledOrLeft(k, d)'
  BY <1>2
<1> QED
  BY <1>3, <1>4 DEF Handled, JobExists

LEMMA ReadHandled ==
  ASSUME TypeOK, NEW k \in Worker, Handled(k), ReadDeliveries(k)
  PROVE  Handled(k)'
<1>1. /\ worker'[k].pc \in {"reserve", "sent"} /\ worker'[k].event = worker[k].event
      /\ worker'[k].listed = worker[k].listed /\ worker'[k].retry = worker[k].retry
      /\ worker'[k].pc = "sent" => worker'[k].queue = {}
      /\ \A d \in Device :
           worker[k].listed[d] > 0 /\ delivery[<<worker[k].event, d>>] \notin Settled =>
             d \in worker'[k].queue
  BY ReadDeliveriesMoves
<1>2. worker[k].pc = "states" /\ UNCHANGED delivery
  BY DEF ReadDeliveries
<1>3. ~worker[k].retry
  BY <1>2 DEF Handled
<1>4. \A d \in Device : HandledOrLeft(k, d)'
  BY <1>1, <1>2 DEF HandledOrLeft
<1> QED
  BY <1>1, <1>3, <1>4 DEF Handled

LEMMA ReserveHandled ==
  ASSUME ClaimsInv, ListedBehind, [Next]_vars, NEW k \in Worker, Handled(k),
         NEW f \in Device, ReserveDelivery(k, f), JobExists(worker[k].event) /\ SameRow(k, f)
  PROVE  Handled(k)'
<1>1. /\ worker'[k].event = worker[k].event /\ worker'[k].listed = worker[k].listed
      /\ worker'[k].retry = worker[k].retry /\ worker'[k].target = f
      /\ worker'[k].queue = worker[k].queue \ {f}
      /\ worker'[k].pc = IF delivery[<<worker[k].event, f>>] = "delivered"
                         THEN NextStep(worker[k].queue \ {f}, worker[k].retry) ELSE "send"
  BY ReserveMoves DEF ClaimsInv
<1>2. /\ TypeOK /\ worker[k].pc = "reserve" /\ UNCHANGED <<job, uncertain>>
      /\ worker[k].event \in Event
      /\ delivery' = [delivery EXCEPT ![<<worker[k].event, f>>] =
                        Upserted(<<worker[k].event, f>>, "pending")]
  BY DEF ReserveDelivery, ClaimsInv, TypeOK
<1>3. /\ \A d \in Device \ {f} :
           delivery'[<<worker[k].event, d>>] = delivery[<<worker[k].event, d>>]
      /\ delivery[<<worker[k].event, f>>] = "delivered" =>
           delivery'[<<worker[k].event, f>>] = "delivered"
  BY <1>2, ReservationMade
<1>4. ASSUME worker[k].event \notin uncertain, NEW d \in Device, worker'[k].pc \in Late
      PROVE  HandledOrLeft(k, d)'
  <2>1. HandledOrLeft(k, d) /\ (SameRow(k, d)' => SameRow(k, d))
    BY <1>1, <1>2, <1>4, ListedRowsStay DEF Handled, Late
  <2>2. CASE d = f
    <3>1. worker'[k].pc = "send" \/ delivery[<<worker[k].event, f>>] = "delivered"
      BY <1>1
    <3> QED
      BY <1>1, <1>3, <2>2, <3>1 DEF HandledOrLeft, Settled
  <2>3. CASE d # f
    <3>1. ~(worker[k].pc \in {"send", "record"})
      BY <1>2
    <3> QED
      BY <1>1, <1>3, <2>1, <2>3, <3>1 DEF HandledOrLeft
  <2> QED
    BY <2>2, <2>3
<1>5. worker'[k].pc = "sent" => worker'[k].queue = {} /\ ~worker'[k].retry
  BY <1>1 DEF NextStep
<1>6. worker'[k].pc \notin {"idle", "batch", "context", "ensure", "list", "states"}
  BY <1>1 DEF NextStep
<1> QED
  BY <1>1, <1>2, <1>4, <1>5, <1>6 DEF Handled

LEMMA SendHandled ==
  ASSUME ClaimsInv, ListedBehind, [Next]_vars, NEW k \in Worker, Handled(k), SendPush(k)
  PROVE  Handled(k)'
<1>1. /\ worker'[k].pc = "record" /\ worker'[k].event = worker[k].event
      /\ worker'[k].listed = worker[k].listed /\ worker'[k].retry = worker[k].retry
      /\ worker'[k].target = worker[k].target /\ worker'[k].queue = worker[k].queue
  BY SendMoves DEF ClaimsInv
<1>2. worker[k].pc = "send" /\ UNCHANGED <<job, uncertain, delivery, device>>
  BY DEF SendPush
<1>3. \A d \in Device : HandledOrLeft(k, d) => HandledOrLeft(k, d)'
  BY <1>1, <1>2 DEF HandledOrLeft, SameRow
<1> QED
  BY <1>1, <1>2, <1>3 DEF Handled, Late, JobExists

LEMMA RecordHandled ==
  ASSUME ClaimsInv, ListedBehind, [Next]_vars, NEW k \in Worker, Handled(k), RecordDelivery(k),
         RowsExist(k),
         NEW retry \in BOOLEAN, retry = (worker[k].retry \/ worker[k].result = "transient"),
         NextStep(worker[k].queue, retry) # "catch"
  PROVE  Handled(k)'
<1>1. /\ worker'[k].event = worker[k].event /\ worker'[k].listed = worker[k].listed
      /\ worker'[k].retry = retry /\ worker'[k].queue = worker[k].queue
      /\ worker'[k].pc = NextStep(worker[k].queue, retry)
      /\ worker'[k].pc \in {"reserve", "sent"}
  BY RecordMoves DEF ClaimsInv
<1>2. /\ TypeOK /\ worker[k].pc = "record" /\ UNCHANGED <<job, uncertain>> /\ RecordResult(k)
      /\ JobExists(worker[k].event) /\ worker[k].event \in Event
  BY DEF RecordDelivery, RowsExist, ClaimsInv, TypeOK
<1> DEFINE p == <<worker[k].event, worker[k].target>>
<1>3. /\ p \in Event \X Device
      /\ \A q \in (Event \X Device) \ {p} : delivery'[q] = delivery[q]
      /\ worker[k].result # "transient" => delivery'[p] \in Settled
  BY <1>2, ResultRecorded
<1>4. ASSUME worker[k].event \notin uncertain, NEW d \in Device
      PROVE  HandledOrLeft(k, d)'
  <2>1. HandledOrLeft(k, d) /\ (SameRow(k, d)' => SameRow(k, d))
    BY <1>1, <1>2, <1>4, ListedRowsStay DEF Handled, Late
  <2>2. CASE d = worker[k].target
    BY <1>1, <1>3, <2>2 DEF HandledOrLeft
  <2>3. CASE d # worker[k].target
    <3>1. <<worker[k].event, d>> \in (Event \X Device) \ {p}
      BY <1>2, <2>3
    <3>2. delivery'[<<worker[k].event, d>>] = delivery[<<worker[k].event, d>>]
      BY <1>3, <3>1
    <3> QED
      BY <1>1, <2>1, <2>3, <3>2 DEF HandledOrLeft
  <2> QED
    BY <2>2, <2>3
<1>5. worker'[k].pc = "sent" => worker'[k].queue = {} /\ ~worker'[k].retry
  BY <1>1 DEF NextStep
<1> QED
  BY <1>1, <1>2, <1>4, <1>5 DEF Handled

LEMMA AttemptHandled ==
  ASSUME ClaimsInv, ListedBehind, [Next]_vars, NEW k \in Worker, Handled(k),
         BatchStep(k) \/ StatementFails(k) \/ StatementLooksFailed(k)
  PROVE  Handled(k)'
<1> DEFINE Fine == Handled(k)'
           Early == {"idle", "batch", "context", "ensure", "list", "states"}
<1>0. TypeOK /\ (worker[k].pc \in Early => ~worker[k].retry)
  BY DEF ClaimsInv, Handled
<1>a. ASSUME worker'[k].pc = "catch" PROVE Fine
  BY <1>a DEF Handled, Late
<1>b. ASSUME worker'[k].pc \in Early, ~worker'[k].retry PROVE Fine
  BY <1>b DEF Handled, Late
<1>c. ASSUME Throw(k) PROVE Fine
  BY <1>0, <1>a, <1>c, ThrowMoves
<1>d. ASSUME FinishJob(k), worker[k].pc \notin {"idle", "batch"} PROVE Fine
  <2>1. worker[k].event \in Event
    BY <1>0, <1>d DEF TypeOK
  <2> QED
    BY <1>0, <1>b, <1>d, <2>1, FinishMoves
<1> HIDE DEF Fine
<1>1. ASSUME NEW f \in Event, PickJob(k, f) PROVE Fine
  BY <1>0, <1>1, <1>b, PickMoves DEF PickJob
<1>2. ASSUME ReadContext(k) PROVE Fine
  BY <1>0, <1>2, <1>b, <1>d, GotoMoves DEF ReadContext
<1>3. ASSUME EnsureNotification(k) PROVE Fine
  BY <1>0, <1>3, <1>b, <1>c, GotoMoves DEF EnsureNotification
<1>4. ASSUME ListDevices(k) PROVE Fine
  <2>1. worker[k].pc = "list"
    BY <1>4 DEF ListDevices
  <2> QED
    BY <1>0, <1>4, <1>b, <2>1, ListMoves
<1>5. ASSUME ReadDeliveries(k) PROVE Fine
  BY <1>0, <1>5, ReadHandled DEF Fine
<1>6. ASSUME NEW f \in Device, ReserveDelivery(k, f) PROVE Fine
  <2>1. CASE JobExists(worker[k].event) /\ SameRow(k, f)
    BY <1>6, <2>1, ReserveHandled DEF Fine
  <2>2. CASE ~(JobExists(worker[k].event) /\ SameRow(k, f))
    BY <1>6, <1>c, <2>2 DEF ReserveDelivery
  <2> QED
    BY <2>1, <2>2
<1>7. ASSUME SendPush(k) PROVE Fine
  BY <1>7, SendHandled DEF Fine
<1>8. ASSUME RecordDelivery(k) PROVE Fine
  <2> DEFINE retry == worker[k].retry \/ worker[k].result = "transient"
  <2>1. retry \in BOOLEAN
    BY <1>0 DEF TypeOK, WorkState
  <2>2. CASE RowsExist(k) /\ NextStep(worker[k].queue, retry) # "catch"
    BY <1>8, <2>1, <2>2, RecordHandled DEF Fine
  <2>3. CASE ~(RowsExist(k) /\ NextStep(worker[k].queue, retry) # "catch")
    <3>1. Throw(k)
      BY <1>8, <2>3 DEF RecordDelivery
    <3> QED
      BY <1>c, <3>1
  <2> QED
    BY <2>2, <2>3
<1>9. ASSUME MarkSent(k) \/ RetryOrFail(k) PROVE Fine
  BY <1>9, <1>d DEF MarkSent, RetryOrFail
<1>10. ASSUME StatementFails(k) \/ StatementLooksFailed(k) PROVE Fine
  BY <1>10, <1>c DEF StatementFails, StatementLooksFailed
<1>11. Fine
  BY <1>1, <1>2, <1>3, <1>4, <1>5, <1>6, <1>7, <1>8, <1>9, <1>10 DEF BatchStep
<1> QED
  BY <1>11 DEF Fine

\* A step of one worker disturbs none of the others.
LEMMA WorkerHandled ==
  ASSUME ClaimsInv, ListedBehind, [Next]_vars, DevicesHandled, NEW l \in Worker, WorkerStep(l),
         \A k \in Worker \ {l} : worker'[k] = worker[k],
         \A e \in Event : JobExists(e)' => JobExists(e),
         Handled(l)'
  PROVE  DevicesHandled'
<1> SUFFICES ASSUME NEW k \in Worker, k # l PROVE Handled(k)'
  BY HandledEachNext
<1>1. TypeOK /\ BatchesHeld /\ OneAtAJob /\ Handled(k)
  BY HandledEach DEF ClaimsInv
<1>2. ASSUME worker[k].pc \in Late, worker[k].event \notin uncertain, NEW d \in Device
      PROVE  delivery'[<<worker[k].event, d>>] = delivery[<<worker[k].event, d>>]
  <2>1. worker[k].event \in Event /\ worker[k].batch[worker[k].event] > 0
    BY <1>1, <1>2 DEF TypeOK, BatchesHeld, Late
  <2>2. worker[l].batch[worker[k].event] = 0
    BY <1>1, <1>2, <2>1 DEF OneAtAJob
  <2>3. ~(worker[l].pc \in {"reserve", "record"} /\ worker[l].event = worker[k].event)
    BY <1>1, <2>2 DEF BatchesHeld
  <2> QED
    BY <1>1, <2>1, <2>3, WorkerWrites
<1>3. worker[k].pc \in Late => worker[k].event \in Event
  BY <1>1 DEF TypeOK, Late
<1> QED
  BY <1>1, <1>2, <1>3, OthersHandled

LEMMA HandledStep ==
  ASSUME ClaimsInv, ListedBehind, DevicesHandled, [Next]_vars
  PROVE  DevicesHandled'
<1>1. /\ TypeOK /\ TypeOK' /\ \A k \in Worker : Handled(k)
      /\ \A k \in Worker : worker[k].pc \in Late => worker[k].event \in Event
  BY TypeStep, HandledEach DEF ClaimsInv, TypeOK, Late
<1>2. ASSUME UNCHANGED <<worker, delivery>>, \A e \in Event : JobExists(e)' =>
               JobExists(e) \/ job[e].status = "none"
      PROVE  DevicesHandled'
  <2> SUFFICES ASSUME NEW k \in Worker PROVE Handled(k)'
    BY HandledEachNext
  <2>1. worker[k].pc \in Late => job[worker[k].event].status # "none"
    BY <1>1 DEF ClaimsInv, BatchesHeld, ClaimsNumbered, Late
  <2> QED
    BY <1>1, <1>2, <2>1, OthersHandled
<1>3. CASE UNCHANGED vars \/ Aside
  BY <1>2, <1>3, AsideLeaves DEF vars, JobExists
<1>4. ASSUME NEW events \in SUBSET Event, NEW devices \in SUBSET Device, Cascade(events, devices)
      PROVE  DevicesHandled'
  <2> SUFFICES ASSUME NEW k \in Worker PROVE Handled(k)'
    BY HandledEachNext
  <2>1. UNCHANGED worker
    BY <1>4 DEF Cascade
  <2>2. ASSUME worker[k].pc \in Late, JobExists(worker[k].event)'
        PROVE  worker[k].event \notin events /\ JobExists(worker[k].event)
    BY <1>1, <1>4, <2>2 DEF Cascade, JobExists, GoneJob, NoJob
  <2>3. ASSUME worker[k].pc \in Late, JobExists(worker[k].event)', NEW d \in Device, SameRow(k, d)'
        PROVE  delivery'[<<worker[k].event, d>>] = delivery[<<worker[k].event, d>>]
    <3>1. device'[d].user # Nobody
      BY <2>3 DEF SameRow
    <3>2. d \notin devices
      BY <1>1, <1>4, <3>1, CascadeTypes
    <3> QED
      BY <1>1, <1>4, <2>2, <2>3, <3>2 DEF Cascade
  <2> QED
    BY <1>1, <2>1, <2>2, <2>3, OthersHandled
<1>5. ASSUME NEW f \in Event,
             InsertWalletEvent(f) \/ BackoffElapses(f) \/ AbandonedGoesStale(f) \/ AttendedGoesStale(f)
      PROVE  DevicesHandled'
  <2>1. UNCHANGED <<worker, delivery>>
    BY <1>5 DEF InsertWalletEvent, BackoffElapses, AbandonedGoesStale, AttendedGoesStale, GoesStale
  <2>2. ASSUME NEW e \in Event, JobExists(e)' PROVE JobExists(e) \/ job[e].status = "none"
    BY <1>1, <1>5, <2>2 DEF InsertWalletEvent, BackoffElapses, AbandonedGoesStale,
                            AttendedGoesStale, GoesStale, TypeOK, JobExists
  <2> QED
    BY <1>2, <2>1, <2>2
<1>6. ASSUME NEW k \in Worker, NEW jobs \in SUBSET Event, ClaimJobs(k, jobs) PROVE DevicesHandled'
  <2>1. /\ WorkerStep(k) /\ \A l \in Worker \ {k} : worker'[l] = worker[l]
        /\ worker'[k].pc = "batch" /\ ~worker'[k].retry
        /\ \A e \in Event : JobExists(e)' => JobExists(e)
    BY <1>1, <1>6, ClaimMoves DEF WorkerStep, Moved, JobExists
  <2>2. Handled(k)'
    BY <2>1 DEF Handled, Late
  <2> QED
    BY <2>1, <2>2, WorkerHandled
<1>7. ASSUME NEW k \in Worker, BatchStep(k) \/ StatementFails(k) \/ StatementLooksFailed(k),
             GoesOn(k) \/ Ends(k) \/ SendsUnaware(k)
      PROVE  DevicesHandled'
  <2>1. /\ WorkerStep(k) /\ \A l \in Worker \ {k} : worker'[l] = worker[l]
        /\ \A e \in Event : JobExists(e)' => JobExists(e)
    BY <1>7, EndsMoves, AttemptsStay DEF WorkerStep, WorkerFault, GoesOn, SendsUnaware, Keeps, Moved
  <2>2. Handled(k)'
    BY <1>1, <1>7, AttemptHandled
  <2> QED
    BY <2>1, <2>2, WorkerHandled
<1>8. ASSUME NEW k \in Worker, BatchAborts(k) \/ Crash(k) PROVE DevicesHandled'
  <2>1. /\ WorkerStep(k) /\ \A l \in Worker \ {k} : worker'[l] = worker[l]
        /\ worker'[k].pc = "idle" /\ \A e \in Event : JobExists(e)' => JobExists(e)
    BY <1>8, DropMoves DEF WorkerStep, WorkerFault, Moved, JobExists
  <2>2. worker' = [worker EXCEPT ![k] = NoWork]
    BY <1>1, <1>8, CrashCases DEF BatchAborts
  <2>3. Handled(k)'
    BY <1>1, <2>1, <2>2, IdleMoves DEF Handled, Late
  <2> QED
    BY <2>1, <2>3, WorkerHandled
<1> QED
  BY <1>3, <1>4, <1>5, <1>6, <1>7, <1>8, StepKinds

LEMMA InitHandled == Init => ListedBehind /\ DevicesHandled
<1> SUFFICES ASSUME Init PROVE ListedBehind /\ DevicesHandled
  OBVIOUS
<1>1. /\ \A k \in Worker : worker[k].pc = "idle" /\ ~worker[k].retry
      /\ \A k \in Worker, d \in Device : worker[k].listed[d] = 0 /\ device[d].version = 0
  BY DEF Init, NoWork, NoDevice
<1>2. \A k \in Worker : Handled(k)
  BY <1>1 DEF Handled, Late
<1> QED
  BY <1>1, <1>2, HandledEach DEF ListedBehind

\* A job that becomes sent was ended by a worker that had come to the end of its attempt.
LEMMA SentByWorker ==
  ASSUME ClaimsInv, [Next]_vars, NEW e \in Event,
         job[e].status # "sent", job'[e].status = "sent"
  PROVE  JobExists(e) /\ \E k \in Worker : worker[k].pc = "sent" /\ worker[k].event = e
<1>0. TypeOK
  BY DEF ClaimsInv
<1>1. ASSUME NEW k \in Worker, worker[k].event \in Event, worker[k].pc = "sent",
             SetJob(worker[k].event, "sent")
      PROVE  worker[k].event = e /\ JobExists(e)
  BY <1>0, <1>1, SetJobSets
<1>2. ASSUME NEW k \in Worker, Ends(k) PROVE /\ JobExists(e)
                                             /\ worker[k].pc = "sent" /\ worker[k].event = e
  <2>1. CASE worker[k].pc = "sent" /\ SetJob(worker[k].event, "sent")
    BY <1>1, <1>2, <2>1 DEF Ends
  <2>2. CASE SetJob(worker[k].event, AfterFailure(k))
    <3>1. AfterFailure(k) \in {"failed", "pending"} /\ worker[k].event \in Event
      BY <1>2 DEF AfterFailure, Ends
    <3> QED
      BY <1>0, <2>2, <3>1, SetJobSets
  <2> QED
    BY <1>2, <2>1, <2>2 DEF Ends
<1>3. ASSUME NEW k \in Worker, SendsUnaware(k) PROVE /\ JobExists(e)
                                                     /\ worker[k].pc = "sent" /\ worker[k].event = e
  BY <1>1, <1>3 DEF SendsUnaware
<1>4. ASSUME NEW k \in Worker, BatchAborts(k) \/ Crash(k) PROVE FALSE
  <2>1. AfterFailure(k) # "sent"
    BY DEF AfterFailure
  <2> QED
    BY <1>4, <2>1, DropMoves
<1>5. ASSUME NEW k \in Worker, NEW jobs \in SUBSET Event, ClaimJobs(k, jobs) PROVE FALSE
  BY <1>0, <1>5, ClaimMoves
<1>6. ASSUME NEW f \in Event,
             InsertWalletEvent(f) \/ BackoffElapses(f) \/ AbandonedGoesStale(f) \/ AttendedGoesStale(f)
      PROVE  FALSE
  <2>1. CASE f = e
    BY <1>0, <1>6, <2>1 DEF InsertWalletEvent, BackoffElapses, AbandonedGoesStale,
                            AttendedGoesStale, GoesStale, TypeOK, JobRow
  <2>2. CASE f # e
    BY <1>0, <1>6, <2>2 DEF InsertWalletEvent, BackoffElapses, AbandonedGoesStale,
                            AttendedGoesStale, GoesStale, TypeOK
  <2> QED
    BY <2>1, <2>2
<1>7. ASSUME NEW events \in SUBSET Event, NEW devices \in SUBSET Device, Cascade(events, devices)
      PROVE  FALSE
  BY <1>7 DEF Cascade, GoneJob, NoJob
<1>8. ~(UNCHANGED vars \/ Aside)
  BY AsideLeaves DEF vars
<1>9. ASSUME NEW k \in Worker, GoesOn(k) PROVE FALSE
  BY <1>9 DEF GoesOn
<1> QED
  BY <1>2, <1>3, <1>4, <1>5, <1>6, <1>7, <1>8, <1>9, StepKinds

\* A job is marked sent only when its devices are settled, unless two workers were at it.
THEOREM SentWhenSettled == Spec => SentOnlyWhenSettled
<1> DEFINE Inv == ClaimsInv /\ ListedBehind /\ DevicesHandled
           Settles == \A e \in Event \ uncertain :
             job[e].status # "sent" /\ job'[e].status = "sent" =>
               \E k \in Worker :
                 /\ worker[k].event = e
                 /\ \A d \in Device :
                      worker[k].listed[d] > 0 /\ SameRow(k, d) => delivery[<<e, d>>] \in Settled
<1>1. ASSUME Inv, [Next]_vars PROVE Settles
  <2> SUFFICES ASSUME NEW e \in Event \ uncertain, job[e].status # "sent", job'[e].status = "sent"
               PROVE  \E k \in Worker :
                        /\ worker[k].event = e
                        /\ \A d \in Device : worker[k].listed[d] > 0 /\ SameRow(k, d) =>
                             delivery[<<e, d>>] \in Settled
    OBVIOUS
  <2>1. PICK k \in Worker : worker[k].pc = "sent" /\ worker[k].event = e /\ JobExists(e)
    BY <1>1, SentByWorker
  <2>2. /\ worker[k].queue = {} /\ ~worker[k].retry
        /\ \A d \in Device : HandledOrLeft(k, d)
    BY <1>1, <2>1, HandledEach DEF Handled, Late
  <2> QED
    BY <2>1, <2>2 DEF HandledOrLeft
<1>2. Init => Inv
  BY InitClaims, InitHandled
<1>3. Inv /\ [Next]_vars => Inv'
  BY ClaimsStep, ListedStep, HandledStep
<1>4. Inv /\ [Next]_vars => [Settles]_vars
  BY <1>1
<1> HIDE DEF Inv
<1>5. Spec => [][Settles]_vars
  BY <1>2, <1>3, <1>4, PTL DEF Spec
<1> QED
  BY <1>5 DEF SentOnlyWhenSettled

\* All that is known of the outbox.
THEOREM OutboxInvariant == Spec => []OutboxInv
<1> DEFINE Inv == /\ ClaimsInv /\ TurnsTaken /\ FailuresCounted /\ AttemptsPaid
                  /\ PushesRecorded /\ ListedBehind /\ DevicesHandled
<1>1. Init => Inv
  <2> SUFFICES ASSUME Init PROVE Inv
    OBVIOUS
  <2>1. ClaimsInv /\ ListedBehind /\ DevicesHandled
    BY InitClaims, InitHandled
  <2>2. /\ \A e \in Event : ~JobExists(e)
        /\ \A e \in Event, d \in Device : push[<<e, d>>] = NoPush
    BY DEF Init, NoJob, JobExists
  <2>3. TurnsTaken
    BY DEF Init, NoWork, TurnsTaken
  <2> QED
    BY <2>1, <2>2, <2>3 DEF FailuresCounted, AttemptsPaid, PushesRecorded, NoPush
<1>2. Inv /\ [Next]_vars => Inv'
  <2> SUFFICES ASSUME Inv, [Next]_vars PROVE Inv'
    OBVIOUS
  <2>1. ClaimsInv' /\ TurnsTaken' /\ FailuresCounted' /\ AttemptsPaid'
    BY ClaimsStep, TurnsStep, FailuresStep, PaidStep DEF TurnsInv
  <2>2. PushesRecorded' /\ ListedBehind' /\ DevicesHandled'
    BY RecordedStep, ListedStep, HandledStep
  <2> QED
    BY <2>1, <2>2
<1>3. Inv => OutboxInv
  BY DEF OutboxInv, ClaimsInv
<1> HIDE DEF Inv
<1> QED
  BY <1>1, <1>2, <1>3, PTL DEF Spec
=============================================================================
