-------------------------- MODULE MigrationsRunner --------------------------
(***************************************************************************)
(* The script a deployment runs before it opens traffic                    *)
(* (scripts/runMigrations.js). Under a session advisory lock it reads      *)
(* which migration files are applied and applies the others in the order   *)
(* of their names, each with its row of schema_migrations in one           *)
(* transaction; it ends with the exit code the deployment looks at.        *)
(*                                                                         *)
(* Several runs may overlap, of images that hold more or fewer files. What *)
(* a run believes and what its database session does are apart: a run that *)
(* is killed or loses its connection leaves a session behind, which keeps  *)
(* its lock until the server ends it and may still carry out the COMMIT it *)
(* was sent.                                                               *)
(***************************************************************************)
EXTENDS Integers

CONSTANTS
  Run,       \* executions of the script
  NumFiles,  \* migration files there are; 1..n are the first n in the order of their names
  Last,      \* how many of them the image of a run holds
  Nobody     \* no run

ASSUME MigrationsAssumption ==
  /\ NumFiles \in Nat
  /\ Last \in [Run -> 0 .. NumFiles]
  /\ Nobody \notin Run

VARIABLES
  table,     \* the committed rows of schema_migrations
  schema,    \* history: how often the statements of each file were committed
  lock,      \* the run whose session holds the advisory lock
  session,   \* per run: "none", "open", or "left" by a run that is gone
  sent,      \* per run: the file in the session's transaction, 0 if none
  pc,        \* per run: where the script is
  known,     \* per run: the files it takes for applied
  file,      \* per run: the file it is applying
  exit,      \* per run: the exit code that is set or was returned
  faulted    \* history: runs that met a failure

database == <<table, schema>>
server   == <<lock, session, sent>>
script   == <<pc, known, file, exit>>
vars     == <<database, server, script, faulted>>

File == 1 .. NumFiles

Init ==
  /\ table = {}
  /\ schema = [f \in File |-> 0]
  /\ lock = Nobody
  /\ session = [r \in Run |-> "none"]
  /\ sent = [r \in Run |-> 0]
  /\ pc = [r \in Run |-> "start"]
  /\ known = [r \in Run |-> {}]
  /\ file = [r \in Run |-> 0]
  /\ exit = [r \in Run |-> "none"]
  /\ faulted = {}

Goto(r, step) == pc' = [pc EXCEPT ![r] = step]

\* The script gives up: it gives the lock back if it knows that it has it, and exits with 1.
GiveUp(r) ==
  /\ Goto(r, IF pc[r] \in {"wait", "settings", "unlock"} THEN "end" ELSE "unlock")
  /\ exit' = [exit EXCEPT ![r] = "failed"]
  /\ UNCHANGED <<known, file>>

-----------------------------------------------------------------------------
(* The steps of a run.                                                     *)

Connect(r) ==
  /\ pc[r] = "start"
  /\ session' = [session EXCEPT ![r] = "open"]
  /\ Goto(r, "wait")
  /\ UNCHANGED <<database, lock, sent, known, file, exit, faulted>>

AcquireLockAnyway(r) ==
  /\ pc[r] = "wait"
  /\ lock' = r
  /\ Goto(r, "settings")
  /\ UNCHANGED <<database, session, sent, known, file, exit, faulted>>

AcquireLock(r) ==
  /\ pc[r] = "wait"
  /\ lock = Nobody
  /\ lock' = r
  /\ Goto(r, "settings")
  /\ UNCHANGED <<database, session, sent, known, file, exit, faulted>>

\* The timeouts of the session are set; from here on the script knows that it has the lock.
SetTimeouts(r) ==
  /\ pc[r] = "settings"
  /\ Goto(r, "read")
  /\ UNCHANGED <<database, server, known, file, exit, faulted>>

\* The table is created if it is missing, and the files and the applied ones are listed.
ReadApplied(r) ==
  /\ pc[r] = "read"
  /\ known' = [known EXCEPT ![r] = table]
  /\ Goto(r, "next")
  /\ UNCHANGED <<database, server, file, exit, faulted>>

\* BEGIN and the statements of the first file that is not applied.
ApplyFile(r) ==
  /\ pc[r] = "next"
  /\ \E f \in (1 .. Last[r]) \ known[r] :
       /\ \A g \in (1 .. Last[r]) \ known[r] : f <= g
       /\ sent' = [sent EXCEPT ![r] = f]
       /\ file' = [file EXCEPT ![r] = f]
  /\ Goto(r, "insert")
  /\ UNCHANGED <<database, lock, session, known, exit, faulted>>

\* The filename is the primary key: a second row is an error and ends the run.
InsertRow(r) ==
  /\ pc[r] = "insert"
  /\ \/ /\ file[r] \notin table
        /\ Goto(r, "commit")
        /\ UNCHANGED <<sent, known, file, exit>>
     \/ /\ file[r] \in table
        /\ sent' = [sent EXCEPT ![r] = 0]
        /\ GiveUp(r)
  /\ UNCHANGED <<database, lock, session, faulted>>

SendCommit(r) ==
  /\ pc[r] = "commit"
  /\ Goto(r, "committing")
  /\ UNCHANGED <<database, server, known, file, exit, faulted>>

\* The server carries the COMMIT out, whether its run still waits for the answer or not.
CommitLands(r) ==
  /\ pc[r] \in {"committing", "commit left"}
  /\ sent[r] # 0
  /\ table' = table \union {sent[r]}
  /\ schema' = [schema EXCEPT ![sent[r]] = @ + 1]
  /\ sent' = [sent EXCEPT ![r] = 0]
  /\ UNCHANGED <<lock, session, script, faulted>>

CommitAnswered(r) ==
  /\ pc[r] = "committing"
  /\ sent[r] = 0
  /\ known' = [known EXCEPT ![r] = @ \union {file[r]}]
  /\ Goto(r, "next")
  /\ UNCHANGED <<database, server, file, exit, faulted>>

AllApplied(r) ==
  /\ pc[r] = "next"
  /\ 1 .. Last[r] \subseteq known[r]
  /\ Goto(r, "unlock")
  /\ UNCHANGED <<database, server, known, file, exit, faulted>>

ReleaseLock(r) ==
  /\ pc[r] = "unlock"
  /\ lock' = Nobody
  /\ Goto(r, "end")
  /\ UNCHANGED <<database, session, sent, known, file, exit, faulted>>

\* The server ends a session: an open transaction is rolled back and the lock is free.
CloseSession(r) ==
  /\ session' = [session EXCEPT ![r] = "none"]
  /\ sent' = [sent EXCEPT ![r] = 0]
  /\ lock' = IF lock = r THEN Nobody ELSE lock
  /\ Goto(r, "done")

\* pool.end() closes the connection, and with it goes a lock the script did not know it had.
\* An exit code that is not set by then is 0.
EndPool(r) ==
  /\ pc[r] = "end"
  /\ CloseSession(r)
  /\ exit' = [exit EXCEPT ![r] = IF @ = "none" THEN "ok" ELSE @]
  /\ UNCHANGED <<database, known, file, faulted>>

-----------------------------------------------------------------------------
(* Failures.                                                               *)

ConnectFails(r) ==
  /\ pc[r] = "start"
  /\ Goto(r, "end")
  /\ exit' = [exit EXCEPT ![r] = "failed"]
  /\ faulted' = faulted \union {r}
  /\ UNCHANGED <<database, server, known, file>>

\* A statement fails or exceeds its timeout and the connection is still good; the wait for
\* the lock is such a statement. An open transaction is rolled back.
StatementFails(r) ==
  /\ \/ pc[r] \in {"wait", "settings", "read", "insert", "commit", "unlock"}
     \/ pc[r] = "next" /\ ~ (1 .. Last[r] \subseteq known[r])
     \/ pc[r] = "committing" /\ sent[r] # 0
  /\ sent' = [sent EXCEPT ![r] = 0]
  /\ GiveUp(r)
  /\ faulted' = faulted \union {r}
  /\ UNCHANGED <<database, lock, session>>

\* The connection is lost or the process is killed. ROLLBACK and unlock fail with it.
Gone(r) ==
  /\ session[r] = "open"
  /\ session' = [session EXCEPT ![r] = "left"]
  /\ Goto(r, CASE pc[r] = "wait" -> "wait left"
                [] pc[r] = "committing" -> "commit left"
                [] OTHER -> "done")
  /\ exit' = [exit EXCEPT ![r] = "failed"]
  /\ faulted' = faulted \union {r}
  /\ UNCHANGED <<database, lock, sent, known, file>>

\* The server gives the lock to a session whose run is gone.
LockLandsLate(r) ==
  /\ pc[r] = "wait left"
  /\ lock = Nobody
  /\ lock' = r
  /\ Goto(r, "done")
  /\ UNCHANGED <<database, session, sent, known, file, exit, faulted>>

\* The server notices that the run of a session is gone.
SessionEnds(r) ==
  /\ session[r] = "left"
  /\ CloseSession(r)
  /\ UNCHANGED <<database, known, file, exit, faulted>>

Next == \E r \in Run :
  \/ Connect(r) \/ AcquireLock(r) \/ SetTimeouts(r) \/ ReadApplied(r) \/ ApplyFile(r) \/ InsertRow(r)
  \/ SendCommit(r) \/ CommitLands(r) \/ CommitAnswered(r) \/ AllApplied(r)
  \/ ReleaseLock(r) \/ EndPool(r)
  \/ ConnectFails(r) \/ StatementFails(r) \/ Gone(r) \/ LockLandsLate(r) \/ SessionEnds(r)

Spec == Init /\ [][Next]_vars

-----------------------------------------------------------------------------
TypeOK ==
  /\ table \subseteq File
  /\ schema \in [File -> Nat]
  /\ lock \in Run \union {Nobody}
  /\ session \in [Run -> {"none", "open", "left"}]
  /\ sent \in [Run -> File \union {0}]
  /\ pc \in [Run -> {"start", "wait", "settings", "read", "next", "insert", "commit",
                     "committing", "wait left", "commit left", "unlock", "end", "done"}]
  /\ known \in [Run -> SUBSET File]
  /\ file \in [Run -> File \union {0}]
  /\ exit \in [Run -> {"none", "ok", "failed"}]
  /\ faulted \subseteq Run

\* The applied files are the first ones, and each was applied once: no run applies a file
\* that another applied, or a later one before an earlier one (runMigrations.js:96-125), also
\* when the answer to a COMMIT was lost.
AppliedInOrder ==
  /\ \A f \in table : 1 .. f \subseteq table
  /\ \A f \in File : schema[f] = IF f \in table THEN 1 ELSE 0

\* A deployment may rely on the exit code: 0 means that every file of the image is applied,
\* and 1 that this run met a failure, never that another run got in its way
\* (runMigrations.js:93, 142-153).
ExitIsTrue(r) ==
  /\ exit[r] = "ok" => 1 .. Last[r] \subseteq table
  /\ exit[r] = "failed" => r \in faulted

MigrationsSound == AppliedInOrder /\ \A r \in Run : ExitIsTrue(r)

\* What makes it so: the run that has the lock is the only one with an open transaction, and
\* what it read stays true until its own COMMIT.
Locked == {"settings", "read", "next", "insert", "commit", "committing", "unlock"}

SessionMatches(r) ==
  /\ pc[r] = "wait" => session[r] = "open"
  /\ pc[r] \in Locked => session[r] = "open"
  /\ pc[r] \in {"wait left", "commit left"} => session[r] = "left"
  /\ pc[r] \in {"insert", "commit"} => sent[r] # 0
  /\ pc[r] \in {"start", "wait", "settings", "read", "next", "unlock", "end", "wait left"}
       => sent[r] = 0

LockHeld(r) ==
  /\ pc[r] \in Locked => lock = r
  /\ sent[r] # 0 => lock = r
  /\ session[r] = "none" => lock # r

TransactionExtends(r) == sent[r] # 0 =>
  /\ sent[r] = file[r]
  /\ sent[r] \notin table
  /\ 1 .. (sent[r] - 1) \subseteq table

KnowsTheTable(r) ==
  /\ pc[r] \in {"next", "insert", "commit"} => known[r] = table
  /\ pc[r] = "committing" =>
       table = IF sent[r] = 0 THEN known[r] \union {file[r]} ELSE known[r]
  /\ pc[r] \in {"unlock", "end"} /\ exit[r] = "none" => 1 .. Last[r] \subseteq table

MigrationsInv ==
  /\ TypeOK
  /\ AppliedInOrder
  /\ \A r \in Run : ExitIsTrue(r) /\ SessionMatches(r) /\ LockHeld(r)
                     /\ TransactionExtends(r) /\ KnowsTheTable(r)
=============================================================================
