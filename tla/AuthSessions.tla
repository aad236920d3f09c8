---------------------------- MODULE AuthSessions ----------------------------
(***************************************************************************)
(* The sessions of one account (auth/session.repository.js): sign-in with  *)
(* the password or a provider, refresh with a token that is used once,     *)
(* logout, and the password reset that ends everything that was signed in  *)
(* before it.                                                              *)
(*                                                                         *)
(* Transactions of READ COMMITTED are two steps: the first takes the row   *)
(* lock (SELECT ... FOR UPDATE) and reads, the second writes and commits.  *)
(* What a transaction writes before its commit nobody sees, and a statement*)
(* that meets a locked row waits and then looks at the row again, so its   *)
(* step is enabled when the row is free. Hashes and tokens are numbered in *)
(* the order in which they are made: both are random, hence never equal.   *)
(***************************************************************************)
EXTENDS Integers, FiniteSets

CONSTANTS
  Session,      \* session ids, random UUIDs and never used again
  Request,      \* requests served at the same time
  LegacyIat,    \* issue times of the access tokens older than sessions
  StartTime,    \* when the run begins, after the last of those tokens was issued
  RefreshTtl,   \* JWT_REFRESH_TOKEN_TTL_SECONDS
  MaxPassword,  \* bound: how many password hashes are made
  MaxToken,     \* bound: how many refresh tokens are made
  MaxTime,      \* bound: the clock
  NoSession

Password == 1 .. MaxPassword
Token == 1 .. MaxToken
NoToken == 0
Never == 0

ASSUME SessionsAssumption ==
  /\ NoSession \notin Session
  /\ MaxPassword \in Nat \ {0}
  /\ MaxToken \in Nat /\ MaxTime \in Nat /\ RefreshTtl \in Nat
  /\ StartTime \in Nat \ {0} /\ LegacyIat \subseteq 1 .. StartTime

VARIABLES
  now,       \* the database's clock, in seconds
  password,  \* app_users.password_hash
  cutoff,    \* app_users.legacy_access_revoked_at
  session,   \* the auth_sessions rows
  issued,    \* the last refresh token made
  request,   \* what each request is doing
  uses,      \* history: how often a presented token was exchanged for a new one
  ended      \* history: legacy tokens up to this issue time were ended

vars == <<now, password, cutoff, session, issued, request, uses, ended>>

NoRow == [state |-> "none", digest |-> NoToken, expires |-> 0, born |-> 1]
Idle == [at |-> "idle", hash |-> 1, session |-> NoSession, token |-> NoToken]

Row == [state : {"none", "open", "revoked"}, digest : Token \union {NoToken},
        expires : Nat, born : Password]
Work == [at : {"idle", "verified", "inserting", "resetting", "rotating"},
         hash : Password, session : Session \union {NoSession}, token : Token \union {NoToken}]

Init ==
  /\ now = StartTime
  /\ password = 1
  /\ cutoff = Never
  /\ session = [s \in Session |-> NoRow]
  /\ issued = 0
  /\ request = [r \in Request |-> Idle]
  /\ uses = [t \in Token |-> 0]
  /\ ended = Never

----------------------------------------------------------------------------
(* Locks and checks.                                                       *)

HoldsUser(r) == request[r].at \in {"inserting", "resetting"}
HoldsRow(r, s) == request[r].at = "rotating" /\ request[r].session = s

\* Mutants: the rows are read without FOR UPDATE.
UserNeverLocked == TRUE
RowNeverLocked(s) == TRUE

\* SELECT ... FROM app_users ... FOR UPDATE gets its lock.
UserFree == \A r \in Request : ~HoldsUser(r)

\* A statement that locks or writes the session's row need not wait.
RowFree(s) == \A r \in Request : ~HoldsRow(r, s)

\* The hash that was verified is still the account's.
HashCurrent(r) == request[r].hash = password

\* The checks of rotateRefreshToken.
Rotatable(s, t) ==
  /\ session[s].digest = t
  /\ session[s].state = "open"
  /\ session[s].expires > now

\* What the middleware authenticate lets pass.
AdmitsSession(s) == session[s].state = "open"
AdmitsLegacy(i) == i <= now /\ (cutoff = Never \/ i > cutoff)

----------------------------------------------------------------------------
(* Sign-in.                                                                *)

\* The user is read without a lock and the password verified against the hash.
ReadPassword(r) ==
  /\ request[r].at = "idle"
  /\ request' = [request EXCEPT ![r] = [Idle EXCEPT !.at = "verified", !.hash = password]]
  /\ UNCHANGED <<now, password, cutoff, session, issued, uses, ended>>

\* createSessionForPassword: another hash by now is answered with 401.
LockForPassword(r) ==
  /\ request[r].at = "verified"
  /\ UserFree
  /\ request' = [request EXCEPT ![r] = IF HashCurrent(r) THEN [@ EXCEPT !.at = "inserting"]
                                                         ELSE Idle]
  /\ UNCHANGED <<now, password, cutoff, session, issued, uses, ended>>

\* createSessionForGoogleSubject and createSessionForAppleSubject.
LockForProvider(r) ==
  /\ request[r].at = "idle"
  /\ UserFree
  /\ request' = [request EXCEPT ![r] = [Idle EXCEPT !.at = "inserting", !.hash = password]]
  /\ UNCHANGED <<now, password, cutoff, session, issued, uses, ended>>

\* The session's row, with or without a refresh token. It counts as born under
\* the password that the request checked or found.
InsertSession(s, withToken, hash) ==
  /\ session[s].state = "none"
  /\ withToken => issued < MaxToken
  /\ issued' = IF withToken THEN issued + 1 ELSE issued
  /\ session' = [session EXCEPT ![s] =
       [state |-> "open", digest |-> IF withToken THEN issued' ELSE NoToken,
        expires |-> IF withToken THEN now + RefreshTtl ELSE 0, born |-> hash]]

CommitSignIn(r) ==
  /\ request[r].at = "inserting"
  /\ \E s \in Session, withToken \in BOOLEAN : InsertSession(s, withToken, request[r].hash)
  /\ request' = [request EXCEPT ![r] = Idle]
  /\ UNCHANGED <<now, password, cutoff, uses, ended>>

----------------------------------------------------------------------------
(* Refresh.                                                                *)

\* The row is locked and checked against the token presented, which the request keeps
\* for the history. A token that fails is answered with 401.
LockForRefresh(r, t) ==
  /\ request[r].at = "idle"
  /\ \E s \in Session :
       /\ RowFree(s)
       /\ Rotatable(s, t)
       /\ request' = [request EXCEPT ![r] =
            [Idle EXCEPT !.at = "rotating", !.session = s, !.token = t]]
  /\ UNCHANGED <<now, password, cutoff, session, issued, uses, ended>>

\* The update meets no row if the session was revoked; the answer is the same.
CommitRefresh(r) ==
  LET s == request[r].session IN
  /\ request[r].at = "rotating"
  /\ issued < MaxToken
  /\ issued' = issued + 1
  /\ uses' = [uses EXCEPT ![request[r].token] = @ + 1]
  /\ session' = IF session[s].state = "open"
                THEN [session EXCEPT ![s].digest = issued', ![s].expires = now + RefreshTtl]
                ELSE session
  /\ request' = [request EXCEPT ![r] = Idle]
  /\ UNCHANGED <<now, password, cutoff, ended>>

----------------------------------------------------------------------------
(* Logout and reset.                                                       *)

\* revokeSession, for a token that names its session.
Logout(s) ==
  /\ session[s].state = "open"
  /\ RowFree(s)
  /\ session' = [session EXCEPT ![s].state = "revoked"]
  /\ UNCHANGED <<now, password, cutoff, issued, request, uses, ended>>

\* revokeLegacyAccess leaves a later revocation as it is.
CutoffAfterLogout(i) == IF cutoff = Never \/ cutoff < i THEN now ELSE cutoff

\* logoutUser, for a token without a session.
LegacyLogout(i) ==
  /\ i <= now
  /\ UserFree
  /\ cutoff' = CutoffAfterLogout(i)
  /\ ended' = IF ended < i THEN i ELSE ended
  /\ UNCHANGED <<now, password, session, issued, request, uses>>

\* consumeChallenge for a reset with the right code.
LockForReset(r) ==
  /\ request[r].at = "idle"
  /\ password < MaxPassword
  /\ UserFree
  /\ request' = [request EXCEPT ![r] = [Idle EXCEPT !.at = "resetting"]]
  /\ UNCHANGED <<now, password, cutoff, session, issued, uses, ended>>

Revoked(row) == IF row.state = "open" THEN [row EXCEPT !.state = "revoked"] ELSE row

\* The update of all sessions waits for those that are being refreshed.
CommitReset(r) ==
  /\ request[r].at = "resetting"
  /\ \A s \in Session : session[s].state = "open" => RowFree(s)
  /\ password < MaxPassword
  /\ password' = password + 1
  /\ cutoff' = now
  /\ ended' = now
  /\ session' = [s \in Session |-> Revoked(session[s])]
  /\ request' = [request EXCEPT ![r] = Idle]
  /\ UNCHANGED <<now, issued, uses>>

----------------------------------------------------------------------------
\* Mutant: the request forgets what it works on.
RollbackForgets(r) ==
  /\ request[r].at \in {"inserting", "resetting", "rotating"}
  /\ request' = [request EXCEPT ![r] = [at |-> "idle"]]
  /\ UNCHANGED <<now, password, cutoff, session, issued, uses, ended>>

\* A failing statement, or a signature that fails before the commit.
Rollback(r) ==
  /\ request[r].at \in {"inserting", "resetting", "rotating"}
  /\ request' = [request EXCEPT ![r] = Idle]
  /\ UNCHANGED <<now, password, cutoff, session, issued, uses, ended>>

Tick ==
  /\ now < MaxTime
  /\ now' = now + 1
  /\ UNCHANGED <<password, cutoff, session, issued, request, uses, ended>>

\* A transaction that has its lock ends.
Finish(r) == CommitSignIn(r) \/ CommitRefresh(r) \/ CommitReset(r) \/ Rollback(r)

Next ==
  \/ Tick
  \/ \E r \in Request : ReadPassword(r) \/ LockForPassword(r) \/ LockForProvider(r)
                        \/ LockForReset(r) \/ Finish(r)
  \/ \E r \in Request, t \in Token : LockForRefresh(r, t)
  \/ \E s \in Session : Logout(s)
  \/ \E i \in LegacyIat : LegacyLogout(i)

Spec == Init /\ [][Next]_vars

----------------------------------------------------------------------------
(* Properties.                                                             *)

TypeOK ==
  /\ now \in Nat /\ cutoff \in Nat /\ ended \in Nat
  /\ password \in Password
  /\ session \in [Session -> Row]
  /\ issued \in Token \union {NoToken}
  /\ request \in [Request -> Work]
  /\ uses \in [Token -> Nat]

\* However many requests present a refresh token at the same time, one of them at most
\* is answered with a new one (rotateRefreshToken).
RefreshedOnce == \A t \in Token : uses[t] <= 1

\* Once the password was reset, nothing that was signed in before it is let in:
\* no session that began under an older password, and no token from the time
\* before sessions (createSessionForPassword, consumeChallenge, authenticate).
NothingOutlivesReset ==
  /\ \A s \in Session : AdmitsSession(s) => session[s].born = password
  /\ \A i \in LegacyIat : i <= ended => ~AdmitsLegacy(i)

\* The token a refresh answers with is good: the session was open and still had the
\* token presented, and has the new one from now on; and a row's token goes only in
\* exchange for its successor, so what was answered is never overwritten. It works
\* until it is presented, expires, or its session ends (rotateRefreshToken; its
\* update goes by the session's id and nobody looks at the number of rows).
AnsweredTokenWorks ==
  [][/\ \A t \in Token : uses'[t] # uses[t] =>
          \E s \in Session : /\ session[s].digest = t /\ session[s].state = "open"
                             /\ session'[s].state = "open" /\ session'[s].digest = issued'
     /\ \A s \in Session : session[s].digest \notin {NoToken, session'[s].digest} =>
          uses'[session[s].digest] # uses[session[s].digest]]_vars

----------------------------------------------------------------------------
(* The invariant the proofs rest on.                                       *)

\* Row locks exclude each other.
LocksExclude ==
  \A r, q \in Request : r # q =>
    /\ ~(HoldsUser(r) /\ HoldsUser(q))
    /\ \A s \in Session : ~(HoldsRow(r, s) /\ HoldsRow(q, s))

\* What a request checked under its lock is still true.
CheckedUnderLock ==
  \A r \in Request :
    /\ request[r].at = "inserting" => request[r].hash = password
    /\ request[r].at = "rotating" =>
         /\ request[r].session \in Session
         /\ session[request[r].session].state = "open"
         /\ request[r].token \in Token
         /\ session[request[r].session].digest = request[r].token

\* A token is in one row at most, and in none once it was exchanged.
DigestsUnique ==
  \A s \in Session : session[s].digest # NoToken =>
    /\ session[s].state # "none"
    /\ session[s].digest <= issued
    /\ uses[session[s].digest] = 0
    /\ \A q \in Session \ {s} : session[q].digest # session[s].digest

\* No token is counted as used before it was made.
UsesBounded == \A t \in Token : uses[t] <= 1 /\ (t > issued => uses[t] = 0)

\* Revocations of legacy tokens are never taken back.
CutoffCovers == ended <= cutoff /\ cutoff <= now

SessionsInv ==
  /\ TypeOK /\ LocksExclude /\ CheckedUnderLock /\ DigestsUnique
  /\ UsesBounded /\ CutoffCovers /\ NothingOutlivesReset

=============================================================================
