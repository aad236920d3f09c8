------------------------- MODULE NotificationOutbox -------------------------
(***************************************************************************)
(* How a stored wallet event becomes one alert in the user's history and   *)
(* at most one push per registered device.                                 *)
(*                                                                         *)
(* The transaction that stores an event also stores its outbox job         *)
(* (events.repository.js). Workers claim batches of jobs, write the alert, *)
(* list the user's active devices and, device by device, reserve a         *)
(* delivery row, call Firebase and record the outcome; then the job is     *)
(* marked sent, or given back for a retry, or failed                       *)
(* (notifications.service.js, notifications.repository.js). A claim that   *)
(* is not finished in five minutes is taken over by any worker, and no     *)
(* statement checks that the job is still the worker's own.                *)
(*                                                                         *)
(* One action is one statement, one committed transaction or one Firebase  *)
(* request. A job is named by its event (one row each, migration 010).     *)
(***************************************************************************)
EXTENDS Integers, FiniteSets

CONSTANTS
  User,             \* accounts
  Event,            \* wallet events, each on a wallet of its own
  Owner,            \* the account of an event's wallet
  Device,           \* FCM registration tokens
  Worker,           \* outbox workers, one per running API process
  Nobody,           \* no account, event or device
  Faults,           \* which failures of FaultKinds this instance suffers
  MaxAttempts,      \* NOTIFICATION_OUTBOX_MAX_ATTEMPTS
  BatchSize,        \* NOTIFICATION_OUTBOX_BATCH_SIZE
  MaxRegistrations, \* bound: registrations of one token
  MaxIncidents      \* bound: claims abandoned or overlapped

FaultKinds == {"crash", "database", "answer", "slow"}

ASSUME ConstantsAssumption ==
  /\ Owner \in [Event -> User]
  /\ Nobody \notin User \union Event \union Device
  /\ IsFiniteSet(Worker)
  /\ Faults \subseteq FaultKinds
  /\ MaxAttempts \in Nat \ {0}
  /\ BatchSize \in Nat \ {0}
  /\ MaxRegistrations \in Nat
  /\ MaxIncidents \in Nat

VARIABLES
  job,        \* the notification_outbox rows, and with them the events
  notice,     \* the notifications rows
  delivery,   \* the notification_deliveries rows
  device,     \* the device_tokens rows
  worker,     \* what each worker is doing
  push,       \* history: what Firebase did for each event and device row
  uncertain,  \* history: events of which two workers may have worked at once,
              \* or that were marked sent by a statement thought to have failed
  incidents   \* history: claims that were abandoned or overlapped

vars == <<job, notice, delivery, device, worker, push, uncertain, incidents>>

-----------------------------------------------------------------------------
(* Rows.                                                                   *)

\* "ready": next_attempt_at has come, or locked_at is five minutes ago.
NoJob == [status |-> "none", attempts |-> 0, ready |-> FALSE]
GoneJob == [NoJob EXCEPT !.status = "deleted"]
JobExists(e) == job[e].status \in {"pending", "processing", "sent", "failed"}

\* "version" stands for updated_at and "born" for the row's id: a token that was
\* deleted with its account and registered again has a new row.
NoDevice == [user |-> Nobody, active |-> FALSE, version |-> 0, born |-> 0]

\* A failed delivery is "transient" if retryable and "refused" if not.
Settled == {"refused", "delivered"}

NoPush == [accepted |-> 0, doubtful |-> FALSE, failures |-> 0]

NoWork == [pc |-> "idle", event |-> Nobody, batch |-> [e \in Event |-> 0],
           listed |-> [d \in Device |-> 0], queue |-> {}, target |-> Nobody,
           result |-> "none", retry |-> FALSE]

Init ==
  /\ job = [e \in Event |-> NoJob]
  /\ notice = [e \in Event |-> "none"]
  /\ delivery = [p \in Event \X Device |-> "none"]
  /\ device = [d \in Device |-> NoDevice]
  /\ worker = [k \in Worker |-> NoWork]
  /\ push = [p \in Event \X Device |-> NoPush]
  /\ uncertain = {}
  /\ incidents = 0

-----------------------------------------------------------------------------
(* Users and wallets.                                                      *)

\* insertWalletEvents: event and job in one transaction. A replayed webhook
\* conflicts with the event and does nothing.
InsertWalletEvent(e) ==
  /\ job[e].status = "none"
  /\ job' = [job EXCEPT ![e] = [status |-> "pending", attempts |-> 0, ready |-> TRUE]]
  /\ UNCHANGED <<notice, delivery, device, worker, push, uncertain, incidents>>

\* The token moves to whoever registers it last.
RegisterDevice(u, d) ==
  LET version == device[d].version + 1
      born    == IF device[d].user = Nobody THEN version ELSE device[d].born
  IN  /\ device[d].version < MaxRegistrations
      /\ device' = [device EXCEPT ![d] = [user |-> u, active |-> TRUE,
                                          version |-> version, born |-> born]]
      /\ UNCHANGED <<job, notice, delivery, worker, push, uncertain, incidents>>

\* Inactive rows match no later condition on updated_at, so it is left as it is.
UnregisterDevice(u, d) ==
  /\ device[d].user = u
  /\ device[d].active
  /\ device' = [device EXCEPT ![d].active = FALSE]
  /\ UNCHANGED <<job, notice, delivery, worker, push, uncertain, incidents>>

MarkNotificationRead(e) ==
  /\ notice[e] = "unread"
  /\ notice' = [notice EXCEPT ![e] = "read"]
  /\ UNCHANGED <<job, delivery, device, worker, push, uncertain, incidents>>

MarkAllNotificationsRead(u) ==
  LET unread == {e \in Event : Owner[e] = u /\ notice[e] = "unread"}
  IN  /\ unread # {}
      /\ notice' = [e \in Event |-> IF e \in unread THEN "read" ELSE notice[e]]
      /\ UNCHANGED <<job, delivery, device, worker, push, uncertain, incidents>>

\* Deleting events and devices cascades to jobs, alerts and deliveries.
Cascade(events, devices) ==
  /\ job' = [e \in Event |-> IF e \in events THEN GoneJob ELSE job[e]]
  /\ notice' = [e \in Event |-> IF e \in events THEN "none" ELSE notice[e]]
  /\ device' = [d \in Device |->
       IF d \in devices THEN [device[d] EXCEPT !.user = Nobody, !.active = FALSE]
                        ELSE device[d]]
  /\ delivery' = [p \in Event \X Device |->
       IF p[1] \in events \/ p[2] \in devices THEN "none" ELSE delivery[p]]
  /\ push' = [p \in Event \X Device |->
       IF p[1] \in events \/ p[2] \in devices THEN NoPush ELSE push[p]]
  /\ UNCHANGED <<worker, uncertain, incidents>>

DeleteWallet(e) ==
  /\ JobExists(e)
  /\ Cascade({e}, {})

DeleteAccount(u) ==
  LET events  == {e \in Event : Owner[e] = u /\ JobExists(e)}
      devices == {d \in Device : device[d].user = u}
  IN  /\ events \union devices # {}
      /\ Cascade(events, devices)

-----------------------------------------------------------------------------
(* Claiming.                                                               *)

\* Mutated forms: a job in processing is claimable at once, or never again.
ClaimableAtOnce(e)  == job[e].status = "processing" \/ (job[e].status = "pending" /\ job[e].ready)
ClaimableOnlyNew(e) == job[e].status = "pending" /\ job[e].ready

Claimable(e) == job[e].status \in {"pending", "processing"} /\ job[e].ready

\* SKIP LOCKED and LIMIT leave some of the claimable jobs to others.
ClaimJobs(k, jobs) ==
  /\ worker[k].pc = "idle"
  /\ jobs # {}
  /\ Cardinality(jobs) <= BatchSize
  /\ \A e \in jobs : Claimable(e)
  /\ job' = [e \in Event |->
       IF e \in jobs THEN [status |-> "processing", attempts |-> job[e].attempts + 1,
                           ready |-> FALSE]
                     ELSE job[e]]
  /\ worker' = [worker EXCEPT ![k] =
       [NoWork EXCEPT !.pc = "batch",
                      !.batch = [e \in Event |-> IF e \in jobs THEN job'[e].attempts ELSE 0]]]
  /\ UNCHANGED <<notice, delivery, device, push, uncertain, incidents>>

-----------------------------------------------------------------------------
(* One job of a worker's batch.                                            *)

Goto(k, pc) == worker' = [worker EXCEPT ![k].pc = pc]

\* A mutated form: the job is forgotten.
ThrowForgets(k) == worker' = [worker EXCEPT ![k] = [NoWork EXCEPT !.pc = "catch"]]

\* An exception leaves the attempt: only the job and the batch are still known.
Throw(k) ==
  worker' = [worker EXCEPT ![k] = [NoWork EXCEPT !.pc = "catch", !.event = worker[k].event,
                                                 !.batch = worker[k].batch]]

\* The worker goes on with its batch, or is done with it.
FinishJob(k) ==
  LET rest == [worker[k].batch EXCEPT ![worker[k].event] = 0]
  IN  worker' = [worker EXCEPT ![k] =
        IF \A e \in Event : rest[e] = 0 THEN NoWork
        ELSE [NoWork EXCEPT !.pc = "batch", !.batch = rest]]

Pair(k) == <<worker[k].event, worker[k].target>>

\* The row the worker listed is still there: same token, same id.
SameRow(k, d) == device[d].user # Nobody /\ device[d].born <= worker[k].listed[d]

\* The foreign keys of a delivery row.
RowsExist(k) == JobExists(worker[k].event) /\ SameRow(k, worker[k].target)

\* A mutated form: any delivery of the batch is good enough.
NextStepLenient(queue, retry) == IF queue # {} THEN "reserve" ELSE "sent"

\* A retryable failure of any device is thrown after all devices had their turn.
NextStep(queue, retry) ==
  IF queue # {} THEN "reserve" ELSE IF retry THEN "catch" ELSE "sent"

PickJob(k, e) ==
  /\ worker[k].pc = "batch"
  /\ worker[k].batch[e] > 0
  /\ worker' = [worker EXCEPT ![k].pc = "context", ![k].event = e]
  /\ UNCHANGED <<job, notice, delivery, device, push, uncertain, incidents>>

\* Without its event the job row is gone too, and marking it failed finds no row.
ReadContext(k) ==
  /\ worker[k].pc = "context"
  /\ IF JobExists(worker[k].event) THEN Goto(k, "ensure") ELSE FinishJob(k)
  /\ UNCHANGED <<job, notice, delivery, device, push, uncertain, incidents>>

\* ON CONFLICT leaves read_at as it is.
NoticeEnsured(e) == IF notice[e] = "none" THEN "unread" ELSE notice[e]

EnsureNotification(k) ==
  /\ worker[k].pc = "ensure"
  /\ IF JobExists(worker[k].event)
     THEN /\ notice' = [notice EXCEPT ![worker[k].event] = NoticeEnsured(worker[k].event)]
          /\ Goto(k, "list")
     ELSE UNCHANGED notice /\ Throw(k)
  /\ UNCHANGED <<job, delivery, device, push, uncertain, incidents>>

ListDevices(k) ==
  LET owner == Owner[worker[k].event]
  IN  /\ worker[k].pc = "list"
      /\ worker' = [worker EXCEPT
           ![k].pc = "states",
           ![k].listed = [d \in Device |->
              IF device[d].user = owner /\ device[d].active THEN device[d].version ELSE 0]]
      /\ UNCHANGED <<job, notice, delivery, device, push, uncertain, incidents>>

\* Devices with a settled delivery are skipped.
ReadDeliveries(k) ==
  LET queue == {d \in Device : /\ worker[k].listed[d] > 0
                               /\ delivery[<<worker[k].event, d>>] \notin Settled}
  IN  /\ worker[k].pc = "states"
      /\ worker' = [worker EXCEPT ![k].pc = NextStep(queue, FALSE), ![k].queue = queue]
      /\ UNCHANGED <<job, notice, delivery, device, push, uncertain, incidents>>

\* A mutated form: the upsert overwrites whatever is there.
UpsertedAlways(p, status) == status

\* upsertNotificationDelivery never overwrites a delivered row.
Upserted(p, status) == IF delivery[p] = "delivered" THEN "delivered" ELSE status

\* The devices are taken in the order of their registration, here in any order.
ReserveDelivery(k, d) ==
  LET p     == <<worker[k].event, d>>
      queue == worker[k].queue \ {d}
  IN  /\ worker[k].pc = "reserve"
      /\ d \in worker[k].queue
      /\ IF ~(JobExists(worker[k].event) /\ SameRow(k, d))
         THEN UNCHANGED delivery /\ Throw(k)
         ELSE /\ delivery' = [delivery EXCEPT ![p] = Upserted(p, "pending")]
              /\ worker' = [worker EXCEPT
                   ![k].pc = IF delivery[p] = "delivered"
                             THEN NextStep(queue, worker[k].retry) ELSE "send",
                   ![k].queue = queue,
                   ![k].target = d]
      /\ UNCHANGED <<job, notice, device, push, uncertain, incidents>>

\* What a request did at Firebase: "accepted" counts to two, which is enough to
\* tell a repeated push.
Pushed(p, accepted, doubtful, failed) ==
  [push EXCEPT ![p] =
    [accepted |-> IF accepted /\ @.accepted < 2 THEN @.accepted + 1 ELSE @.accepted,
     doubtful |-> @.doubtful \/ doubtful,
     failures |-> IF failed THEN @.failures + 1 ELSE @.failures]]

\* sendPushNotification and classifyFirebaseDeliveryError. "refused" stands for a
\* permanent error and for pushes that are switched off; an accepted push whose
\* answer is lost is a network error, hence transient.
SendPush(k) ==
  \E result \in {"delivered", "transient", "refused", "invalid"}, accepted \in BOOLEAN :
    /\ worker[k].pc = "send"
    /\ accepted => result = "delivered" \/ (result = "transient" /\ "answer" \in Faults)
    /\ result = "delivered" => accepted
    /\ push' = Pushed(Pair(k), accepted, accepted /\ result = "transient",
                      result = "transient")
    /\ worker' = [worker EXCEPT ![k].pc = "record", ![k].result = result]
    /\ UNCHANGED <<job, notice, delivery, device, uncertain, incidents>>

\* A mutated form: the registration is not compared.
StillRegisteredAnyhow(k) ==
  LET d == worker[k].target
  IN  device[d].user = Owner[worker[k].event] /\ device[d].active

\* The row an invalid-token answer may deactivate.
StillRegistered(k) ==
  LET d == worker[k].target
  IN  /\ device[d].user = Owner[worker[k].event]
      /\ device[d].active
      /\ device[d].version = worker[k].listed[d]

\* The delivery row after Firebase answered; an invalid token is deactivated in
\* the same transaction.
RecordResult(k) ==
  LET p == Pair(k)
      status == IF worker[k].result = "invalid" THEN "refused" ELSE worker[k].result
  IN  /\ delivery' = [delivery EXCEPT ![p] = Upserted(p, status)]
      /\ device' = IF worker[k].result = "invalid" /\ StillRegistered(k)
                   THEN [device EXCEPT ![p[2]].active = FALSE] ELSE device

\* A push Firebase accepted and of which no row will tell.
Unrecorded(k) == Pushed(Pair(k), FALSE, worker[k].result = "delivered", FALSE)

RecordDelivery(k) ==
  LET retry == worker[k].retry \/ worker[k].result = "transient"
  IN  /\ worker[k].pc = "record"
      /\ IF RowsExist(k)
         THEN /\ RecordResult(k)
              /\ IF NextStep(worker[k].queue, retry) = "catch" THEN Throw(k)
                 ELSE worker' = [worker EXCEPT ![k].pc = NextStep(worker[k].queue, retry),
                                               ![k].retry = retry, ![k].result = "none",
                                               ![k].target = Nobody]
              /\ UNCHANGED push
         ELSE /\ UNCHANGED <<delivery, device>>
              /\ push' = Unrecorded(k)
              /\ Throw(k)
      /\ UNCHANGED <<job, notice, uncertain, incidents>>

\* The three updates that end an attempt name the job by its id alone.
SetJob(e, status) ==
  job' = IF JobExists(e) THEN [job EXCEPT ![e].status = status, ![e].ready = FALSE] ELSE job

MarkSent(k) ==
  /\ worker[k].pc = "sent"
  /\ SetJob(worker[k].event, "sent")
  /\ FinishJob(k)
  /\ UNCHANGED <<notice, delivery, device, push, uncertain, incidents>>

\* A mutated form: one attempt too many.
ExhaustedLate(k) == worker[k].batch[worker[k].event] > MaxAttempts

Exhausted(k) == worker[k].batch[worker[k].event] >= MaxAttempts

AfterFailure(k) == IF Exhausted(k) THEN "failed" ELSE "pending"

RetryOrFail(k) ==
  /\ worker[k].pc = "catch"
  /\ SetJob(worker[k].event, AfterFailure(k))
  /\ FinishJob(k)
  /\ UNCHANGED <<notice, delivery, device, push, uncertain, incidents>>

-----------------------------------------------------------------------------
(* Failures.                                                               *)

Incident == incidents < MaxIncidents /\ incidents' = incidents + 1

\* A statement inside the attempt fails, and the attempt with it.
StatementFails(k) ==
  /\ "database" \in Faults
  /\ worker[k].pc \in {"context", "ensure", "list", "states", "reserve", "record", "sent"}
  /\ Throw(k)
  /\ push' = IF worker[k].pc = "record" THEN Unrecorded(k) ELSE push
  /\ UNCHANGED <<job, notice, delivery, device, uncertain, incidents>>

\* A statement commits and its acknowledgement is lost, which looks like a failure.
StatementLooksFailed(k) ==
  /\ "database" \in Faults
  /\ Throw(k)
  /\ \/ /\ worker[k].pc = "reserve"
        /\ \E d \in worker[k].queue :
             /\ JobExists(worker[k].event) /\ SameRow(k, d)
             /\ delivery' = [delivery EXCEPT ![<<worker[k].event, d>>] = Upserted(<<worker[k].event, d>>, "pending")]
        /\ UNCHANGED <<job, device, uncertain>>
     \/ /\ worker[k].pc = "record" /\ RowsExist(k)
        /\ RecordResult(k)
        /\ UNCHANGED <<job, uncertain>>
     \/ /\ worker[k].pc = "sent"
        /\ SetJob(worker[k].event, "sent")
        /\ uncertain' = uncertain \union {worker[k].event}
        /\ UNCHANGED <<delivery, device>>
  /\ UNCHANGED <<notice, push, incidents>>

\* A failure of the statement that reschedules or fails the job, applied or not,
\* ends the cycle: what is left of the batch stays in processing.
BatchAborts(k) ==
  /\ "database" \in Faults
  /\ worker[k].pc = "catch"
  /\ Incident
  /\ UNCHANGED job \/ SetJob(worker[k].event, AfterFailure(k))
  /\ worker' = [worker EXCEPT ![k] = NoWork]
  /\ UNCHANGED <<notice, delivery, device, push, uncertain>>

\* The process ends, also by a shutdown, which does not wait for a batch.
Crash(k) ==
  /\ "crash" \in Faults
  /\ worker[k].pc # "idle"
  /\ Incident
  /\ push' \in CASE worker[k].pc = "send"   -> {push, Pushed(Pair(k), TRUE, TRUE, FALSE)}
                 [] worker[k].pc = "record" -> {Unrecorded(k)}
                 [] OTHER                   -> {push}
  /\ worker' = [worker EXCEPT ![k] = NoWork]
  /\ UNCHANGED <<job, notice, delivery, device, uncertain>>

-----------------------------------------------------------------------------
(* Time.                                                                   *)

BackoffElapses(e) ==
  /\ job[e].status = "pending"
  /\ ~job[e].ready
  /\ job' = [job EXCEPT ![e].ready = TRUE]
  /\ UNCHANGED <<notice, delivery, device, worker, push, uncertain, incidents>>

\* Some worker still has the job of the latest claim in its batch.
Attended(e) == \E k \in Worker : worker[k].batch[e] > 0 /\ worker[k].batch[e] = job[e].attempts

GoesStale(e) ==
  /\ job[e].status = "processing"
  /\ ~job[e].ready
  /\ job' = [job EXCEPT ![e].ready = TRUE]
  /\ UNCHANGED <<notice, delivery, device, worker, push>>

AbandonedGoesStale(e) ==
  /\ ~Attended(e)
  /\ GoesStale(e)
  /\ UNCHANGED <<uncertain, incidents>>

\* The worker that has the job needs more than five minutes for its batch.
AttendedGoesStale(e) ==
  /\ "slow" \in Faults
  /\ Attended(e)
  /\ GoesStale(e)
  /\ Incident
  /\ uncertain' = uncertain \union {e}

-----------------------------------------------------------------------------

UserStep(u) ==
  \/ \E d \in Device : RegisterDevice(u, d) \/ UnregisterDevice(u, d)
  \/ MarkAllNotificationsRead(u)
  \/ DeleteAccount(u)

EventStep(e) ==
  \/ InsertWalletEvent(e) \/ MarkNotificationRead(e) \/ DeleteWallet(e)
  \/ BackoffElapses(e) \/ AbandonedGoesStale(e) \/ AttendedGoesStale(e)

\* What a running worker does on its own once it has a batch.
BatchStep(k) ==
  \/ \E e \in Event : PickJob(k, e)
  \/ ReadContext(k) \/ EnsureNotification(k) \/ ListDevices(k) \/ ReadDeliveries(k)
  \/ \E d \in Device : ReserveDelivery(k, d)
  \/ SendPush(k) \/ RecordDelivery(k) \/ MarkSent(k) \/ RetryOrFail(k)

WorkerFault(k) ==
  StatementFails(k) \/ StatementLooksFailed(k) \/ BatchAborts(k) \/ Crash(k)

WorkerStep(k) ==
  \/ \E jobs \in SUBSET Event : ClaimJobs(k, jobs)
  \/ BatchStep(k) \/ WorkerFault(k)

Next ==
  \/ \E u \in User : UserStep(u)
  \/ \E e \in Event : EventStep(e)
  \/ \E k \in Worker : WorkerStep(k)

Spec == Init /\ [][Next]_vars

\* The worker polls and Firebase answers or fails (weak fairness); jobs are
\* claimed in the order of next_attempt_at, so none is passed over for ever
\* (strong fairness); time passes. No user, failure or overlap has to happen.
Fairness ==
  /\ \A k \in Worker : WF_vars(BatchStep(k))
  /\ \A e \in Event :
       /\ SF_vars(\E k \in Worker, jobs \in SUBSET Event : e \in jobs /\ ClaimJobs(k, jobs))
       /\ WF_vars(BackoffElapses(e))
       /\ WF_vars(AbandonedGoesStale(e))

FairSpec == Spec /\ Fairness

-----------------------------------------------------------------------------
(* Correctness.                                                            *)

JobRow == [status : {"none", "pending", "processing", "sent", "failed", "deleted"},
           attempts : Nat, ready : BOOLEAN]
DeviceRow == [user : User \union {Nobody}, active : BOOLEAN, version : Nat, born : Nat]
PushState == [accepted : 0 .. 2, doubtful : BOOLEAN, failures : Nat]
WorkState == [pc : {"idle", "batch", "context", "ensure", "list", "states", "reserve",
                    "send", "record", "sent", "catch"},
              event : Event \union {Nobody}, batch : [Event -> Nat],
              listed : [Device -> Nat], queue : SUBSET Device,
              target : Device \union {Nobody},
              result : {"none", "delivered", "transient", "refused", "invalid"},
              retry : BOOLEAN]

\* Every variable holds a value of its type, and a busy worker has what its step needs.
TypeOK ==
  /\ job \in [Event -> JobRow]
  /\ notice \in [Event -> {"none", "unread", "read"}]
  /\ delivery \in [Event \X Device -> {"none", "pending", "transient", "refused", "delivered"}]
  /\ device \in [Device -> DeviceRow]
  /\ worker \in [Worker -> WorkState]
  /\ push \in [Event \X Device -> PushState]
  /\ uncertain \subseteq Event
  /\ incidents \in Nat
  /\ \A k \in Worker :
       /\ worker[k].pc \notin {"idle", "batch"} => worker[k].event \in Event
       /\ worker[k].pc \in {"send", "record"} => worker[k].target \in Device
       /\ worker[k].pc = "record" => worker[k].result # "none"

\* Firebase accepts a second push for the same event and device only if the first
\* one could not be recorded (a crash, a failed statement, a lost answer, a row
\* deleted under way) or two workers were at the job at once.
DuplicatesExplained ==
  \A p \in Event \X Device :
    push[p].accepted > 1 => push[p].doubtful \/ p[1] \in uncertain

\* Retries are bounded: beyond the attempt limit an event is tried once more for
\* each claim that was abandoned or overlapped, and never otherwise, even though
\* late workers put finished jobs back; transient failures of one device stay
\* within the attempts.
RetriesPaidFor ==
  \A e \in Event, d \in Device :
    JobExists(e) =>
      /\ push[<<e, d>>].failures <= job[e].attempts
      /\ job[e].attempts <= MaxAttempts + incidents

\* A job is marked sent only when every device its last attempt listed has a
\* delivered or finally refused delivery, unless the row is gone or another worker
\* was at the job.
SentOnlyWhenSettled ==
  [][\A e \in Event \ uncertain :
       job[e].status # "sent" /\ job'[e].status = "sent" =>
         \E k \in Worker :
           /\ worker[k].event = e
           /\ \A d \in Device :
                worker[k].listed[d] > 0 /\ SameRow(k, d) => delivery[<<e, d>>] \in Settled]_vars

\* A finished job is never taken up again, except by a worker that was late or did
\* not learn that it had marked the job sent.
FinishedStaysFinished ==
  [][\A e \in Event :
       job[e].status \in {"sent", "failed"} /\ job'[e].status # job[e].status =>
         job'[e].status = "deleted" \/ e \in uncertain]_vars

\* No retry, crash or late worker overwrites a recorded delivery, or makes an alert
\* unread that its user has read.
NothingTakenBack ==
  [][/\ \A p \in Event \X Device :
          delivery[p] = "delivered" /\ delivery'[p] # "delivered" =>
            job'[p[1]].status = "deleted" \/ device'[p[2]].user = Nobody
     /\ \A e \in Event :
          notice[e] = "read" /\ job'[e].status # "deleted" => notice'[e] = "read"]_vars

\* A worker deactivates only the registration it listed: a device that registered
\* again while the rejected push was under way stays active.
NewerRegistrationKept ==
  [][\A d \in Device :
       device[d].active /\ ~device'[d].active /\ worker' # worker =>
         \E k \in Worker : /\ worker[k].listed[d] = device[d].version
                           /\ worker[k].result = "invalid"]_vars

\* Every job ends up sent, failed or deleted, once and for all, however claims were
\* abandoned or overlapped before.
EveryJobFinishes ==
  \A e \in Event : <>[](job[e].status \notin {"pending", "processing"})

\* README.md:563, "Transient FCM failures are retried up to the configured retry
\* limit": no device of an event suffers more transient failures than attempts.
RetryLimit ==
  \A p \in Event \X Device : push[p].failures <= MaxAttempts

-----------------------------------------------------------------------------
(* The invariant the proofs rest on.                                       *)

\* A worker at a job has it in its batch, and an idle worker has nothing.
BatchesHeld ==
  \A k \in Worker :
    /\ worker[k].pc = "idle" => \A e \in Event : worker[k].batch[e] = 0
    /\ worker[k].pc \notin {"idle", "batch"} => worker[k].batch[worker[k].event] > 0

\* A claim has the number of an attempt that was made.
ClaimsNumbered ==
  /\ \A k \in Worker, e \in Event :
       worker[k].batch[e] > 0 => /\ job[e].status # "none"
                                 /\ JobExists(e) => worker[k].batch[e] <= job[e].attempts
  /\ \A e \in Event, d \in Device : job[e].status = "none" => push[<<e, d>>] = NoPush

\* Unless two workers may be at a job, the one that has it is alone, and the job
\* waits for it.
OneAtAJob ==
  \A e \in Event \ uncertain, k \in Worker : worker[k].batch[e] > 0 =>
    /\ JobExists(e) => /\ job[e].status = "processing" /\ ~job[e].ready
                       /\ worker[k].batch[e] = job[e].attempts
    /\ \A l \in Worker \ {k} : worker[l].batch[e] = 0

\* The worker has not yet had its turn with the device in this attempt.
MayStillSend(k, e, d) ==
  /\ worker[k].batch[e] > 0
  /\ worker[k].event = e =>
       \/ worker[k].pc \in {"batch", "context", "ensure", "list", "states"}
       \/ worker[k].pc = "send" /\ worker[k].target = d
       \/ worker[k].pc \in {"reserve", "send", "record"} /\ d \in worker[k].queue

\* A device that has its turn has left the queue.
TurnsTaken ==
  \A k \in Worker : worker[k].pc \in {"send", "record"} => worker[k].target \notin worker[k].queue

Senders(e, d) == {k \in Worker : MayStillSend(k, e, d)}

\* Each attempt fails at most once for each device.
FailuresCounted ==
  \A e \in Event, d \in Device :
    JobExists(e) => push[<<e, d>>].failures + Cardinality(Senders(e, d)) <= job[e].attempts

\* Claims whose failure gives the job back for another attempt.
Renewable(e) == {k \in Worker : worker[k].batch[e] > 0 /\ worker[k].batch[e] < MaxAttempts}

\* 1 if the job can be claimed without another claim or incident coming first.
Claims(e) ==
  IF \/ job[e].status = "pending"
     \/ job[e].status = "processing" /\ (job[e].ready \/ ~Attended(e))
  THEN 1 ELSE 0

\* What can still be claimed, and every attempt beyond the last regular one, is
\* paid for by an incident.
AttemptsPaid ==
  \A e \in Event : JobExists(e) =>
    /\ Cardinality(Renewable(e)) + Claims(e) <= 1 + incidents
    /\ job[e].attempts >= MaxAttempts =>
         job[e].attempts + Cardinality(Renewable(e)) + Claims(e) <= MaxAttempts + incidents

\* A push is recorded as delivered, or about to be.
PushesRecorded ==
  \A e \in Event \ uncertain, d \in Device : ~push[<<e, d>>].doubtful =>
    /\ push[<<e, d>>].accepted <= 1
    /\ push[<<e, d>>].accepted = 1 =>
         \/ delivery[<<e, d>>] = "delivered"
         \/ \E k \in Worker : /\ worker[k].pc = "record" /\ worker[k].result = "delivered"
                              /\ worker[k].event = e /\ worker[k].target = d
    /\ \A k \in Worker :
         worker[k].pc = "send" /\ worker[k].event = e /\ worker[k].target = d =>
           push[<<e, d>>].accepted = 0

\* What a worker listed is no newer than the registration.
ListedBehind == \A k \in Worker, d \in Device : worker[k].listed[d] <= device[d].version

\* A worker has settled, or still has before it, every device it listed, unless the
\* attempt is going to be repeated.
DevicesHandled ==
  \A k \in Worker :
    /\ worker[k].pc \in {"idle", "batch", "context", "ensure", "list", "states"} => ~worker[k].retry
    /\ worker[k].pc = "sent" => worker[k].queue = {} /\ ~worker[k].retry
    /\ /\ worker[k].pc \in {"reserve", "send", "record", "sent"}
       /\ worker[k].event \notin uncertain
       /\ JobExists(worker[k].event)
       => \A d \in Device : worker[k].listed[d] > 0 /\ SameRow(k, d) =>
            \/ delivery[<<worker[k].event, d>>] \in Settled
            \/ d \in worker[k].queue
            \/ worker[k].pc \in {"send", "record"} /\ d = worker[k].target
            \/ worker[k].retry

OutboxInv ==
  /\ TypeOK /\ BatchesHeld /\ ClaimsNumbered /\ OneAtAJob /\ TurnsTaken
  /\ FailuresCounted /\ AttemptsPaid /\ PushesRecorded /\ ListedBehind /\ DevicesHandled
=============================================================================
