---------------------------- MODULE AccountsProofs ----------------------------
(***************************************************************************)
(* Theorems about the four specifications of Accounts, for any number of   *)
(* sessions, requests and identities and any limits. The parts are proved  *)
(* one after the other; the theorems that the runs' properties hold, and   *)
(* those of all parts together, are at the end.                            *)
(***************************************************************************)
EXTENDS Accounts, FiniteSetTheorems, TLAPS

-----------------------------------------------------------------------------
(* Sign-in and tokens (AuthSessions).                                      *)
(* The invariant holds at the start, and every step keeps it.              *)

LEMMA InitInv == Init => SessionsInv
<1> SUFFICES ASSUME Init PROVE SessionsInv
  OBVIOUS
<1> USE SessionsAssumption DEF Init
<1>1. TypeOK
  BY DEF TypeOK, Row, Work, NoRow, Idle, Password, Token, NoToken, Never
<1>2. LocksExclude /\ CheckedUnderLock
  BY DEF LocksExclude, CheckedUnderLock, HoldsUser, HoldsRow, Idle
<1>3. DigestsUnique /\ UsesBounded
  BY DEF DigestsUnique, UsesBounded, NoRow, Token
<1>4. CutoffCovers /\ NothingOutlivesReset
  BY DEF CutoffCovers, NothingOutlivesReset, AdmitsSession, AdmitsLegacy, NoRow, Never
<1> QED
  BY <1>1, <1>2, <1>3, <1>4 DEF SessionsInv

\* A request may go on to any work whose locks are free and whose checks hold.
LEMMA RequestMoves ==
  ASSUME SessionsInv, NEW r \in Request, NEW w \in Work,
         request' = [request EXCEPT ![r] = w],
         UNCHANGED <<now, password, cutoff, session, issued, uses, ended>>,
         w.at \in {"inserting", "resetting"} => UserFree,
         w.at = "inserting" => w.hash = password,
         w.at = "rotating" => /\ w.session \in Session
                              /\ RowFree(w.session)
                              /\ session[w.session].state = "open"
                              /\ w.token \in Token
                              /\ session[w.session].digest = w.token
  PROVE  SessionsInv'
<1> USE DEF SessionsInv, TypeOK
<1>1. TypeOK'
  OBVIOUS
<1>2. LocksExclude'
  BY DEF LocksExclude, HoldsUser, HoldsRow, UserFree, RowFree
<1>3. CheckedUnderLock'
  BY DEF CheckedUnderLock
<1>4. DigestsUnique' /\ UsesBounded' /\ CutoffCovers' /\ NothingOutlivesReset'
  BY DEF DigestsUnique, UsesBounded, CutoffCovers, NothingOutlivesReset, AdmitsSession, AdmitsLegacy
<1> QED
  BY <1>1, <1>2, <1>3, <1>4

\* The steps that only read, lock or roll back.
LEMMA LockingInv ==
  ASSUME SessionsInv, NEW r \in Request,
         \/ ReadPassword(r) \/ LockForPassword(r) \/ LockForProvider(r)
         \/ LockForReset(r) \/ Rollback(r) \/ \E t \in Token : LockForRefresh(r, t)
  PROVE  SessionsInv'
<1> USE DEF Idle, Work
<1>0. Idle \in Work
  BY SessionsAssumption DEF Password
<1>1. CASE ReadPassword(r)
  <2>1. [Idle EXCEPT !.at = "verified", !.hash = password] \in Work
    BY <1>0 DEF SessionsInv, TypeOK
  <2> QED
    BY <1>1, <2>1, RequestMoves DEF ReadPassword
<1>2. CASE LockForPassword(r)
  <2>1. CASE HashCurrent(r)
    <3>1. [request[r] EXCEPT !.at = "inserting"] \in Work
      BY DEF SessionsInv, TypeOK
    <3>2. request' = [request EXCEPT ![r] = [request[r] EXCEPT !.at = "inserting"]]
      BY <1>2, <2>1 DEF LockForPassword, SessionsInv, TypeOK
    <3>3. [request[r] EXCEPT !.at = "inserting"].hash = password
      BY <2>1 DEF HashCurrent, SessionsInv, TypeOK
    <3> QED
      BY <1>2, <3>1, <3>2, <3>3, RequestMoves DEF LockForPassword
  <2>2. CASE ~ HashCurrent(r)
    BY <1>0, <1>2, <2>2, RequestMoves DEF LockForPassword
  <2> QED
    BY <2>1, <2>2
<1>3. CASE LockForProvider(r)
  <2>1. [Idle EXCEPT !.at = "inserting", !.hash = password] \in Work
    BY <1>0 DEF SessionsInv, TypeOK
  <2> QED
    BY <1>3, <2>1, RequestMoves DEF LockForProvider
<1>4. CASE LockForReset(r)
  <2>1. [Idle EXCEPT !.at = "resetting"] \in Work
    BY <1>0
  <2> QED
    BY <1>4, <2>1, RequestMoves DEF LockForReset
<1>5. CASE Rollback(r)
  BY <1>0, <1>5, RequestMoves DEF Rollback
<1>6. ASSUME NEW t \in Token, LockForRefresh(r, t) PROVE SessionsInv'
  <2>1. PICK s \in Session : /\ RowFree(s)
                             /\ Rotatable(s, t)
                             /\ request' = [request EXCEPT ![r] =
                                  [Idle EXCEPT !.at = "rotating", !.session = s, !.token = t]]
    BY <1>6 DEF LockForRefresh
  <2>2. [Idle EXCEPT !.at = "rotating", !.session = s, !.token = t] \in Work
    BY <1>0
  <2>3. session[s].state = "open" /\ session[s].digest = t
    BY <2>1 DEF Rotatable
  <2> QED
    BY <1>6, <2>1, <2>2, <2>3, RequestMoves DEF LockForRefresh
<1> QED
  BY <1>1, <1>2, <1>3, <1>4, <1>5, <1>6

\* A new session, under the password its request checked.
LEMMA CommitSignInInv ==
  ASSUME SessionsInv, NEW r \in Request, CommitSignIn(r)
  PROVE  SessionsInv'
<1> USE DEF SessionsInv, TypeOK
<1>1. PICK s \in Session, withToken \in BOOLEAN : InsertSession(s, withToken, request[r].hash)
  BY DEF CommitSignIn
<1> DEFINE row == [state |-> "open", digest |-> IF withToken THEN issued' ELSE NoToken,
                   expires |-> IF withToken THEN now + RefreshTtl ELSE 0, born |-> request[r].hash]
<1>2. /\ session' = [session EXCEPT ![s] = row]
      /\ session[s].state = "none"
      /\ request' = [request EXCEPT ![r] = Idle]
      /\ request[r].at = "inserting"
      /\ UNCHANGED <<now, password, cutoff, uses, ended>>
  BY <1>1 DEF InsertSession, CommitSignIn
<1>3. issued' = (IF withToken THEN issued + 1 ELSE issued) /\ (withToken => issued < MaxToken)
  BY <1>1 DEF InsertSession
<1>4. /\ issued \in Nat /\ issued' \in Token \union {NoToken}
      /\ issued <= issued' /\ (withToken => issued' \in Token /\ issued < issued')
  BY <1>3, SessionsAssumption DEF Token, NoToken
<1>5. row \in Row /\ row.digest \in {issued', NoToken} /\ row.born = password
  BY <1>2, <1>4, SessionsAssumption DEF Row, CheckedUnderLock
<1>6. Idle \in Work
  BY SessionsAssumption DEF Idle, Work, Password
<1>7. TypeOK'
  <2> HIDE DEF row
  <2> QED
    BY <1>2, <1>4, <1>5, <1>6
<1>8. LocksExclude'
  BY <1>2 DEF LocksExclude, HoldsUser, HoldsRow, Idle
<1>9. CheckedUnderLock'
  BY <1>2 DEF CheckedUnderLock, Idle
<1>10. DigestsUnique'
  <2> SUFFICES ASSUME NEW q \in Session, session'[q].digest # NoToken
               PROVE  /\ session'[q].state # "none"
                      /\ session'[q].digest <= issued'
                      /\ uses[session'[q].digest] = 0
                      /\ \A p \in Session \ {q} : session'[p].digest # session'[q].digest
    BY <1>2 DEF DigestsUnique
  <2>1. CASE q = s
    <3>1. withToken /\ session'[q].digest = issued'
      BY <1>2, <2>1
    <3>2. ASSUME NEW p \in Session PROVE session[p].digest # issued'
      <4>1. session[p].digest \in Token \union {NoToken}
        BY DEF Row
      <4>2. session[p].digest # NoToken => session[p].digest <= issued
        BY DEF DigestsUnique
      <4> QED
        BY ONLY <1>4, <3>1, <4>1, <4>2, SessionsAssumption DEF Token, NoToken
    <3> QED
      BY <1>2, <1>4, <2>1, <3>1, <3>2 DEF UsesBounded
  <2>2. CASE q # s
    <3>1. session'[q] = session[q]
      BY <1>2, <2>2
    <3>2. session[q].digest <= issued' /\ session[q].state # "none"
      BY <1>4, <3>1 DEF DigestsUnique, Row, Token, NoToken
    <3>3. session'[s].digest # session[q].digest
      BY <1>2, <1>4, <3>1 DEF DigestsUnique, Row, Token, NoToken
    <3> QED
      BY <1>2, <2>2, <3>1, <3>2, <3>3 DEF DigestsUnique
  <2> QED
    BY <2>1, <2>2
<1>11. UsesBounded'
  BY <1>2, <1>4 DEF UsesBounded, Token
<1>12. CutoffCovers' /\ NothingOutlivesReset'
  BY <1>2, <1>5 DEF CutoffCovers, NothingOutlivesReset, AdmitsSession, AdmitsLegacy
<1> QED
  BY <1>7, <1>8, <1>9, <1>10, <1>11, <1>12

\* A token is exchanged for the next one.
LEMMA CommitRefreshInv ==
  ASSUME SessionsInv, NEW r \in Request, CommitRefresh(r)
  PROVE  SessionsInv'
<1> USE DEF SessionsInv, TypeOK
<1> DEFINE s == request[r].session
           old == request[r].token
<1>1. /\ s \in Session /\ session[s].state = "open" /\ session[s].digest = old
      /\ old \in Token /\ old <= issued /\ uses[old] = 0
  BY DEF CommitRefresh, CheckedUnderLock, DigestsUnique, Token, NoToken
<1>2. /\ issued' = issued + 1 /\ issued' \in Token /\ issued \in Nat
      /\ uses' = [uses EXCEPT ![old] = @ + 1]
      /\ session' = [session EXCEPT ![s].digest = issued', ![s].expires = now + RefreshTtl]
      /\ request' = [request EXCEPT ![r] = Idle]
      /\ request[r].at = "rotating"
      /\ UNCHANGED <<now, password, cutoff, ended>>
  BY <1>1, SessionsAssumption DEF CommitRefresh, Token, NoToken
<1>3. /\ session'[s].digest = issued' /\ session'[s].state = "open"
      /\ session'[s].born = session[s].born /\ session'[s] \in Row
      /\ \A q \in Session \ {s} : session'[q] = session[q]
  <2>1. session'[s] = [session[s] EXCEPT !.digest = issued', !.expires = now + RefreshTtl]
    BY <1>1, <1>2
  <2>2. session[s] \in Row /\ now + RefreshTtl \in Nat
    BY <1>1, SessionsAssumption
  <2>3. \A q \in Session \ {s} : session'[q] = session[q]
    BY <1>1, <1>2
  <2>4. session'[s] \in Row
    <3> DEFINE digest == issued'
               expires == now + RefreshTtl
    <3>1. digest \in Token \union {NoToken} /\ expires \in Nat
      BY <1>2, <2>2
    <3>2. session'[s] = [session[s] EXCEPT !.digest = digest, !.expires = expires]
      BY <2>1
    <3> HIDE DEF s, digest, expires
    <3> QED
      BY ONLY <2>2, <3>1, <3>2 DEF Row
  <2>5. /\ session'[s].digest = issued' /\ session'[s].state = session[s].state
        /\ session'[s].born = session[s].born
    BY ONLY <2>1, <2>2 DEF Row
  <2> QED
    BY ONLY <1>1, <2>3, <2>4, <2>5
<1>4. Idle \in Work
  BY SessionsAssumption DEF Idle, Work, Password
<1>5. TypeOK'
  <2>1. session' \in [Session -> Row]
    BY <1>1, <1>2, <1>3
  <2>2. uses' \in [Token -> Nat]
    BY <1>1, <1>2
  <2> QED
    BY <1>2, <1>4, <2>1, <2>2
<1>6. LocksExclude'
  BY <1>2 DEF LocksExclude, HoldsUser, HoldsRow, Idle
<1>7. CheckedUnderLock'
  <2> SUFFICES ASSUME NEW q \in Request
               PROVE  /\ request'[q].at = "inserting" => request'[q].hash = password
                      /\ request'[q].at = "rotating" =>
                           /\ request'[q].session \in Session
                           /\ session'[request'[q].session].state = "open"
                           /\ request'[q].token \in Token
                           /\ session'[request'[q].session].digest = request'[q].token
    BY <1>2 DEF CheckedUnderLock
  <2>1. CASE q = r
    BY <1>2, <2>1 DEF Idle
  <2>2. CASE q # r
    <3>1. request'[q] = request[q]
      BY <1>2, <2>2
    <3>2. request[q].at = "rotating" => request[q].session # s
      BY <1>1, <1>2, <2>2 DEF LocksExclude, HoldsRow
    <3> QED
      BY <1>3, <3>1, <3>2 DEF CheckedUnderLock
  <2> QED
    BY <2>1, <2>2
<1>8. DigestsUnique'
  <2> SUFFICES ASSUME NEW q \in Session, session'[q].digest # NoToken
               PROVE  /\ session'[q].state # "none"
                      /\ session'[q].digest <= issued'
                      /\ uses'[session'[q].digest] = 0
                      /\ \A p \in Session \ {q} : session'[p].digest # session'[q].digest
    BY DEF DigestsUnique
  <2>1. \A p \in Session : session[p].digest \in Token \union {NoToken}
    BY DEF Row
  <2>2. \A p \in Session : session[p].digest # NoToken => session[p].digest <= issued
    BY DEF DigestsUnique
  <2>3. \A p \in Session : session[p].digest # issued'
    BY <1>2, <2>1, <2>2 DEF Token, NoToken
  <2>4. CASE q = s
    <3>1. old # issued' /\ uses[issued'] = 0
      BY <1>1, <1>2, <2>3 DEF UsesBounded, Token
    <3>2. uses'[issued'] = 0
      BY <1>1, <1>2, <3>1
    <3> QED
      BY <1>2, <1>3, <2>3, <2>4, <3>2, SMTT(30) DEF Token
  <2>5. CASE q # s
    <3>1. session'[q] = session[q] /\ session[q].digest # NoToken
      BY <1>3, <2>5
    <3>2. session[q].digest # old /\ session[q].digest \in Token
      BY <1>1, <2>1, <2>5, <3>1 DEF DigestsUnique
    <3>3. uses'[session[q].digest] = 0
      BY <1>1, <1>2, <3>1, <3>2 DEF DigestsUnique
    <3>4. session[q].digest <= issued' /\ session[q].state # "none"
      BY <1>2, <2>2, <3>1, <3>2 DEF Token, DigestsUnique
    <3>5. ASSUME NEW p \in Session \ {q} PROVE session'[p].digest # session[q].digest
      BY <1>3, <2>3, <3>1 DEF DigestsUnique
    <3> QED
      BY <3>1, <3>3, <3>4, <3>5
  <2> QED
    BY <2>4, <2>5
<1>9. UsesBounded'
  <2> SUFFICES ASSUME NEW t \in Token
               PROVE  uses'[t] <= 1 /\ (t > issued' => uses'[t] = 0)
    BY DEF UsesBounded
  <2>1. CASE t = old
    BY <1>1, <1>2, <2>1 DEF Token
  <2>2. CASE t # old
    <3>1. uses'[t] = uses[t]
      BY <1>1, <1>2, <2>2
    <3> QED
      BY <1>2, <3>1 DEF UsesBounded, Token
  <2> QED
    BY <2>1, <2>2
<1>10. CutoffCovers'
  BY <1>2 DEF CutoffCovers
<1>11. NothingOutlivesReset'
  BY <1>1, <1>2, <1>3 DEF NothingOutlivesReset, AdmitsSession, AdmitsLegacy
<1> QED
  BY <1>5, <1>6, <1>7, <1>8, <1>9, <1>10, <1>11

\* A session ends.
LEMMA LogoutInv ==
  ASSUME SessionsInv, NEW s \in Session, Logout(s)
  PROVE  SessionsInv'
<1> USE DEF SessionsInv, TypeOK, Logout
<1>1. /\ session'[s].state = "revoked" /\ session'[s].digest = session[s].digest
      /\ session'[s].born = session[s].born /\ session'[s] \in Row
      /\ \A q \in Session \ {s} : session'[q] = session[q]
  BY DEF Row
<1>2. TypeOK'
  BY <1>1
<1>3. LocksExclude'
  BY DEF LocksExclude, HoldsUser, HoldsRow
<1>4. CheckedUnderLock'
  BY <1>1 DEF CheckedUnderLock, RowFree, HoldsRow
<1>5. DigestsUnique'
  <2>1. \A q \in Session : /\ session'[q].digest = session[q].digest
                            /\ session'[q].state = "none" <=> session[q].state = "none"
    BY <1>1
  <2> QED
    BY <2>1 DEF DigestsUnique
<1>6. UsesBounded' /\ CutoffCovers'
  BY DEF UsesBounded, CutoffCovers
<1>7. NothingOutlivesReset'
  BY <1>1 DEF NothingOutlivesReset, AdmitsSession, AdmitsLegacy
<1> QED
  BY <1>2, <1>3, <1>4, <1>5, <1>6, <1>7

\* Legacy tokens end.
LEMMA LegacyLogoutInv ==
  ASSUME SessionsInv, NEW i \in LegacyIat, LegacyLogout(i)
  PROVE  SessionsInv'
<1> USE DEF SessionsInv, TypeOK, LegacyLogout
<1>1. i \in Nat /\ i # 0 /\ \A j \in LegacyIat : j \in Nat /\ j # 0
  BY SessionsAssumption
<1>2. cutoff' \in Nat /\ ended' \in Nat /\ ended' <= cutoff' /\ cutoff' <= now
  BY <1>1 DEF CutoffAfterLogout, CutoffCovers, Never
<1>3. TypeOK' /\ CutoffCovers'
  BY <1>2 DEF CutoffCovers
<1>4. LocksExclude' /\ CheckedUnderLock' /\ DigestsUnique' /\ UsesBounded'
  BY DEF LocksExclude, HoldsUser, HoldsRow, CheckedUnderLock, DigestsUnique, UsesBounded
<1>5. NothingOutlivesReset'
  BY <1>1, <1>2 DEF NothingOutlivesReset, AdmitsSession, AdmitsLegacy, Never
<1> QED
  BY <1>3, <1>4, <1>5

\* The password is replaced and everything signed in ends.
LEMMA CommitResetInv ==
  ASSUME SessionsInv, NEW r \in Request, CommitReset(r)
  PROVE  SessionsInv'
<1> USE DEF SessionsInv, TypeOK, CommitReset
<1>1. Idle \in Work /\ password' \in Password
  BY SessionsAssumption DEF Idle, Work, Password
<1>2. ASSUME NEW s \in Session
      PROVE  /\ session'[s] \in Row /\ session'[s].state # "open"
             /\ session'[s].digest = session[s].digest
             /\ session'[s].state = "none" <=> session[s].state = "none"
  BY <1>2 DEF Revoked, Row
<1>3. TypeOK'
  BY <1>1, <1>2
<1>4. LocksExclude'
  BY DEF LocksExclude, HoldsUser, HoldsRow, Idle
<1>5. CheckedUnderLock'
  <2>1. \A q \in Request : q # r => request[q].at # "inserting" /\ request[q].at # "rotating"
    BY DEF LocksExclude, HoldsUser, CheckedUnderLock, RowFree, HoldsRow
  <2> QED
    BY <2>1 DEF CheckedUnderLock, Idle
<1>6. DigestsUnique' /\ UsesBounded'
  BY <1>2 DEF DigestsUnique, UsesBounded
<1>7. CutoffCovers'
  BY DEF CutoffCovers
<1>8. NothingOutlivesReset'
  <2>1. \A i \in LegacyIat : i \in Nat /\ i # 0
    BY SessionsAssumption
  <2> QED
    BY <1>2, <2>1 DEF NothingOutlivesReset, AdmitsSession, AdmitsLegacy, Never
<1> QED
  BY <1>3, <1>4, <1>5, <1>6, <1>7, <1>8

\* Time passes.
LEMMA TickInv ==
  ASSUME SessionsInv, Tick
  PROVE  SessionsInv'
<1> USE DEF SessionsInv, TypeOK, Tick
<1>1. TypeOK' /\ CutoffCovers'
  BY DEF CutoffCovers
<1>2. LocksExclude' /\ CheckedUnderLock' /\ DigestsUnique' /\ UsesBounded'
  BY DEF LocksExclude, HoldsUser, HoldsRow, CheckedUnderLock, DigestsUnique, UsesBounded
<1>3. NothingOutlivesReset'
  <2>1. \A i \in LegacyIat : i <= ended => i <= cutoff /\ cutoff # Never
    BY SessionsAssumption DEF CutoffCovers, Never
  <2> QED
    BY <2>1, SessionsAssumption DEF NothingOutlivesReset, AdmitsSession, AdmitsLegacy
<1> QED
  BY <1>1, <1>2, <1>3

LEMMA StepInv == SessionsInv /\ [Next]_vars => SessionsInv'
<1> SUFFICES ASSUME SessionsInv, [Next]_vars PROVE SessionsInv'
  OBVIOUS
<1>1. CASE UNCHANGED vars
  BY <1>1 DEF vars, SessionsInv, TypeOK, LocksExclude, HoldsUser, HoldsRow, CheckedUnderLock,
     DigestsUnique, UsesBounded, CutoffCovers, NothingOutlivesReset, AdmitsSession, AdmitsLegacy
<1>2. ASSUME NEW r \in Request, CommitSignIn(r) \/ CommitRefresh(r) \/ CommitReset(r)
      PROVE  SessionsInv'
  BY <1>2, CommitSignInInv, CommitRefreshInv, CommitResetInv
<1> QED
  BY <1>1, <1>2, TickInv, LogoutInv, LegacyLogoutInv, LockingInv DEF Next, Finish

-----------------------------------------------------------------------------
(* The theorems.                                                           *)

\* What a request checked under its lock stays true, a token is in one open place at most,
\* and revocations are not taken back: the transactions of session.repository.js keep it,
\* however they overlap.
THEOREM SessionsInvariant == Spec => []SessionsInv
<1>1. SessionsInv /\ [Next]_vars => SessionsInv'
  BY StepInv
<1> QED
  BY <1>1, InitInv, PTL DEF Spec

\* Of all requests that present a refresh token, one at most is answered with a new one
\* (rotateRefreshToken).
THEOREM TokensAreUsedOnce == Spec => []RefreshedOnce
<1>1. SessionsInv => RefreshedOnce
  BY DEF SessionsInv, UsesBounded, RefreshedOnce
<1> QED
  BY <1>1, SessionsInvariant, PTL

\* Nothing that was signed in before a reset is let in after it (createSessionForPassword,
\* consumeChallenge, authenticate).
THEOREM ResetEndsEverything == Spec => []NothingOutlivesReset
<1>1. SessionsInv => NothingOutlivesReset
  BY DEF SessionsInv
<1> QED
  BY <1>1, SessionsInvariant, PTL

\* A step that exchanges a token, or changes the token of a row, is a refresh or makes
\* the row.
LEMMA TokenStep ==
  ASSUME SessionsInv, [Next]_vars
  PROVE  \/ \E r \in Request : CommitRefresh(r)
         \/ /\ uses' = uses
            /\ \A s \in Session : session[s].digest = NoToken \/ session'[s].digest = session[s].digest
<1> USE DEF SessionsInv, TypeOK
<1>1. CASE session' = session /\ uses' = uses
  BY <1>1
<1>2. ASSUME NEW r \in Request, CommitSignIn(r)
      PROVE  uses' = uses /\ \A s \in Session : session[s].digest = NoToken
                                               \/ session'[s].digest = session[s].digest
  <2>1. PICK q \in Session : /\ session[q].state = "none"
                             /\ \A s \in Session \ {q} : session'[s] = session[s]
    BY <1>2 DEF CommitSignIn, InsertSession
  <2>2. session[q].digest = NoToken
    BY <2>1 DEF DigestsUnique
  <2> QED
    BY <1>2, <2>1, <2>2 DEF CommitSignIn
<1>3. ASSUME NEW q \in Session, Logout(q)
      PROVE  uses' = uses /\ \A s \in Session : session'[s].digest = session[s].digest
  BY <1>3 DEF Logout, Row
<1>4. ASSUME NEW r \in Request, CommitReset(r)
      PROVE  uses' = uses /\ \A s \in Session : session'[s].digest = session[s].digest
  BY <1>4 DEF CommitReset, Revoked, Row
<1> QED
  BY <1>1, <1>2, <1>3, <1>4 DEF Next, Finish, vars, Tick, ReadPassword, LockForPassword,
     LockForProvider, LockForReset, Rollback, LockForRefresh, LegacyLogout

\* A refresh exchanges the token it was asked with, which is its session's, and no other.
LEMMA RefreshStep ==
  ASSUME SessionsInv, NEW r \in Request, CommitRefresh(r)
  PROVE  \E s \in Session :
           /\ session[s].digest \in Token /\ session[s].state = "open"
           /\ session'[s].state = "open" /\ session'[s].digest = issued'
           /\ uses' = [uses EXCEPT ![session[s].digest] = @ + 1]
           /\ \A q \in Session \ {s} : session'[q] = session[q]
<1> DEFINE s == request[r].session
<1>1. /\ s \in Session /\ session[s].state = "open"
      /\ request[r].token \in Token /\ session[s].digest = request[r].token
  BY DEF CommitRefresh, SessionsInv, CheckedUnderLock
<1>2. session' = [session EXCEPT ![s].digest = issued', ![s].expires = now + RefreshTtl]
  BY <1>1 DEF CommitRefresh
<1>3. session'[s].state = "open" /\ session'[s].digest = issued'
  BY <1>1, <1>2 DEF SessionsInv, TypeOK, Row
<1>4. \A q \in Session \ {s} : session'[q] = session[q]
  BY <1>1, <1>2 DEF SessionsInv, TypeOK
<1>5. uses' = [uses EXCEPT ![session[s].digest] = @ + 1]
  BY <1>1 DEF CommitRefresh
<1> QED
  BY <1>1, <1>3, <1>4, <1>5

\* What a refresh answers with is stored in an open session that had the token presented,
\* and no stored token goes but in exchange for the next one (rotateRefreshToken).
THEOREM AnsweredTokensWork == Spec => AnsweredTokenWorks
<1> DEFINE Exchanged ==
      \A t \in Token : uses'[t] # uses[t] =>
        \E s \in Session : /\ session[s].digest = t /\ session[s].state = "open"
                           /\ session'[s].state = "open" /\ session'[s].digest = issued'
    Lasting ==
      \A s \in Session : session[s].digest \notin {NoToken, session'[s].digest} =>
        uses'[session[s].digest] # uses[session[s].digest]
<1>1. ASSUME SessionsInv, [Next]_vars PROVE Exchanged /\ Lasting
  <2>1. CASE \E r \in Request : CommitRefresh(r)
    <3>1. PICK s \in Session :
            /\ session[s].digest \in Token /\ session[s].state = "open"
            /\ session'[s].state = "open" /\ session'[s].digest = issued'
            /\ uses' = [uses EXCEPT ![session[s].digest] = @ + 1]
            /\ \A q \in Session \ {s} : session'[q] = session[q]
      BY <1>1, <2>1, RefreshStep
    <3>2. Exchanged
      BY <1>1, <3>1 DEF SessionsInv, TypeOK
    <3>3. Lasting
      BY <1>1, <3>1 DEF SessionsInv, TypeOK
    <3> QED
      BY <3>2, <3>3
  <2>2. CASE ~ \E r \in Request : CommitRefresh(r)
    BY <1>1, <2>2, TokenStep
  <2> QED
    BY <2>1, <2>2
<1>2. SessionsInv /\ [Next]_vars => [Exchanged /\ Lasting]_vars
  BY <1>1
<1> QED
  BY <1>2, SessionsInvariant, PTL DEF Spec, AnsweredTokenWorks

-----------------------------------------------------------------------------
(* Codes (AuthChallenges).                                                 *)
\* The sizes of sets are those of FiniteSets in every part.
LEMMA CodesSizes ==
  \A S : Codes!Cardinality(S) = Cardinality(S) /\ (Codes!IsFiniteSet(S) <=> IsFiniteSet(S))
  BY DEF Codes!Cardinality, Cardinality, Codes!IsFiniteSet, IsFiniteSet


-----------------------------------------------------------------------------
(* Counting.                                                               *)

LEMMA ChallengesFinite ==
  ASSUME Codes!LimitsAssumption, NEW S \in SUBSET Codes!Challenge
  PROVE  IsFiniteSet(S) /\ Cardinality(S) \in Nat
<1>1. IsFiniteSet(Codes!Challenge)
  BY FS_Interval DEF Codes!LimitsAssumption, Codes!Challenge
<1> QED
  BY <1>1, FS_Subset, FS_CardinalityType

LEMMA FewerInPart ==
  ASSUME Codes!LimitsAssumption, NEW S \in SUBSET Codes!Challenge, NEW T \in SUBSET S
  PROVE  Cardinality(T) <= Cardinality(S)
<1>1. IsFiniteSet(S)
  BY ChallengesFinite
<1> QED
  BY <1>1, FS_Subset

LEMMA CodesOneMore ==
  ASSUME Codes!LimitsAssumption, NEW S \in SUBSET Codes!Challenge, NEW c
  PROVE  Cardinality(S \union {c}) <= Cardinality(S) + 1 /\ IsFiniteSet(S \union {c})
<1>1. IsFiniteSet(S) /\ Cardinality(S) \in Nat
  BY ChallengesFinite
<1>2. /\ IsFiniteSet(S \union {c})
      /\ \/ Cardinality(S \union {c}) = Cardinality(S)
         \/ Cardinality(S \union {c}) = Cardinality(S) + 1
  BY <1>1, FS_AddElement, Zenon
<1> QED
  BY <1>1, <1>2

\* Which codes count depends on the rows' purposes and times alone.
LEMMA RecentUnchanged ==
  ASSUME \A c \in Codes!Challenge : /\ codeRow'[c].purpose = codeRow[c].purpose
                                    /\ codeRow'[c].created = codeRow[c].created
                                    /\ codeRow'[c].state = "none" <=> codeRow[c].state = "none"
  PROVE  \A p, time : Codes!Recent(p, time)' = Codes!Recent(p, time)
  BY DEF Codes!Recent, Codes!Issued

-----------------------------------------------------------------------------
(* The invariant holds at the start, and every step keeps it.              *)

LEMMA IdleWork == Codes!LimitsAssumption => Codes!Idle \in Codes!Work /\ Codes!NoRow \in Codes!Row
  BY DEF Codes!LimitsAssumption, Codes!Idle, Codes!Work, Codes!NoRow, Codes!Row

LEMMA CodesInitInv == Codes!LimitsAssumption /\ Codes!Init => Codes!ChallengesInv
<1> SUFFICES ASSUME Codes!LimitsAssumption, Codes!Init PROVE Codes!ChallengesInv
  OBVIOUS
<1>1. Codes!TypeOK
  BY IdleWork DEF Codes!Init, Codes!TypeOK
<1>2. Codes!LockExcludes /\ Codes!FoundStaysTrue
  BY DEF Codes!Init, Codes!LockExcludes, Codes!HoldsUser, Codes!FoundStaysTrue, Codes!Found,
     Codes!Idle
<1>3. Codes!RowsCount /\ Codes!OneOpen
  BY DEF Codes!Init, Codes!RowsCount, Codes!OneOpen, Codes!Open, Codes!Issued, Codes!NoRow,
     Codes!LimitsAssumption
<1>4. Codes!IssueLimit
  <2> SUFFICES ASSUME NEW p \in Purpose, NEW time \in 0 .. MaxCodeTime
               PROVE  Cardinality({c \in Codes!Recent(p, time) : codeRow[c].created <= time})
                        <= MaxCodesPerHour
    BY CodesSizes DEF Codes!IssueLimit
  <2>1. Codes!Recent(p, time) = {}
    BY DEF Codes!Init, Codes!Recent, Codes!Issued, Codes!NoRow
  <2> QED
    BY <2>1, FS_EmptySet DEF Codes!LimitsAssumption
<1> QED
  BY <1>1, <1>2, <1>3, <1>4 DEF Codes!ChallengesInv

\* A request goes on to work whose lock is free and which found what it says.
LEMMA CodesRequestMoves ==
  ASSUME Codes!LimitsAssumption, Codes!ChallengesInv, NEW r \in Request, NEW w \in Codes!Work,
         codeRequest' = [codeRequest EXCEPT ![r] = w],
         UNCHANGED <<codeNow, codeRow, verified, wrong, accepted>>,
         w.at \in {"issuing", "comparing"} => Codes!UserFree,
         w.at = "issuing" => Cardinality(Codes!Recent(w.purpose, w.began)) < MaxCodesPerHour,
         w.at \in {"mailing", "closing", "comparing"} => w.target \in Codes!Challenge,
         w.at = "comparing" => /\ codeRow[w.target].state = "open"
                               /\ codeRow[w.target].attempts < MaxGuesses
  PROVE  Codes!ChallengesInv'
<1> USE DEF Codes!ChallengesInv, Codes!TypeOK
<1>1. Codes!TypeOK'
  OBVIOUS
<1>2. Codes!LockExcludes'
  BY DEF Codes!LockExcludes, Codes!HoldsUser, Codes!UserFree
<1>3. Codes!FoundStaysTrue'
  BY CodesSizes DEF Codes!FoundStaysTrue, Codes!Found, Codes!Recent, Codes!Issued
<1>4. Codes!RowsCount' /\ Codes!OneOpen' /\ Codes!IssueLimit'
  BY DEF Codes!RowsCount, Codes!OneOpen, Codes!Open, Codes!IssueLimit, Codes!Recent,
     Codes!Issued
<1> QED
  BY <1>1, <1>2, <1>3, <1>4

\* The steps that only read, lock, mail or roll back.
LEMMA CodesReadingInv ==
  ASSUME Codes!LimitsAssumption, Codes!ChallengesInv, NEW r \in Request,
         \/ \E p \in Purpose : Codes!Ask(r, p) \/ Codes!Present(r, p)
         \/ Codes!LockToIssue(r) \/ Codes!Mail(r) \/ Codes!MailFails(r)
         \/ Codes!LockToCompare(r) \/ Codes!Fail(r)
  PROVE  Codes!ChallengesInv'
<1>0. /\ Codes!Idle \in Codes!Work /\ codeRequest[r] \in Codes!Work
      /\ codeRequest \in [Request -> Codes!Work] /\ codeNow \in Nat
  BY IdleWork DEF Codes!ChallengesInv, Codes!TypeOK
<1>1. ASSUME NEW p \in Purpose, Codes!Ask(r, p) PROVE Codes!ChallengesInv'
  <2> DEFINE w == [Codes!Idle EXCEPT !.at = "asking", !.purpose = p, !.began = codeNow]
  <2>1. w \in Codes!Work /\ w.at = "asking"
    BY <1>0 DEF Codes!Work
  <2>2. /\ codeRequest' = [codeRequest EXCEPT ![r] = w]
        /\ UNCHANGED <<codeNow, codeRow, verified, wrong, accepted>>
    BY <1>1 DEF Codes!Ask
  <2> HIDE DEF w
  <2> QED
    BY <2>1, <2>2, CodesRequestMoves
<1>2. ASSUME NEW p \in Purpose, Codes!Present(r, p) PROVE Codes!ChallengesInv'
  <2> DEFINE w == [Codes!Idle EXCEPT !.at = "guessing", !.purpose = p, !.began = codeNow]
  <2>1. w \in Codes!Work /\ w.at = "guessing"
    BY <1>0 DEF Codes!Work
  <2>2. /\ codeRequest' = [codeRequest EXCEPT ![r] = w]
        /\ UNCHANGED <<codeNow, codeRow, verified, wrong, accepted>>
    BY <1>2 DEF Codes!Present
  <2> HIDE DEF w
  <2> QED
    BY <2>1, <2>2, CodesRequestMoves
<1>3. CASE Codes!End(r) /\ UNCHANGED <<codeNow, codeRow, verified, wrong, accepted>>
  <2>1. Codes!Idle.at = "idle"
    BY DEF Codes!Idle
  <2> QED
    BY <1>0, <1>3, <2>1, CodesRequestMoves DEF Codes!End
<1>4. CASE Codes!LockToIssue(r)
  <2>1. CASE Codes!Limited(codeRequest[r].purpose, codeRequest[r].began)
    BY <1>3, <1>4, <2>1 DEF Codes!LockToIssue
  <2>2. CASE ~ Codes!Limited(codeRequest[r].purpose, codeRequest[r].began)
    <3> DEFINE w == [codeRequest[r] EXCEPT !.at = "issuing"]
    <3>1. w \in Codes!Work /\ w.at = "issuing" /\ w.purpose = codeRequest[r].purpose
          /\ w.began = codeRequest[r].began
      BY <1>0 DEF Codes!Work
    <3>2. Cardinality(Codes!Recent(w.purpose, w.began)) < MaxCodesPerHour
      <4>1. Cardinality(Codes!Recent(w.purpose, w.began)) \in Nat
        BY ChallengesFinite DEF Codes!Recent, Codes!Issued
      <4> QED
        BY CodesSizes, <2>2, <3>1, <4>1 DEF Codes!Limited, Codes!LimitsAssumption
    <3>3. /\ codeRequest' = [codeRequest EXCEPT ![r] = w]
          /\ UNCHANGED <<codeNow, codeRow, verified, wrong, accepted>>
          /\ Codes!UserFree
      BY <1>4, <2>2 DEF Codes!LockToIssue, Codes!Goto
    <3> HIDE DEF w
    <3> QED
      BY <3>1, <3>2, <3>3, CodesRequestMoves
  <2> QED
    BY <2>1, <2>2
<1>5. CASE Codes!MailFails(r)
  <2> DEFINE w == [codeRequest[r] EXCEPT !.at = "closing"]
  <2>1. w \in Codes!Work /\ w.at = "closing" /\ w.target = codeRequest[r].target
    BY <1>0 DEF Codes!Work
  <2>2. w.target \in Codes!Challenge
    BY <1>5, <2>1 DEF Codes!MailFails, Codes!ChallengesInv, Codes!FoundStaysTrue, Codes!Found
  <2>3. /\ codeRequest' = [codeRequest EXCEPT ![r] = w]
        /\ UNCHANGED <<codeNow, codeRow, verified, wrong, accepted>>
    BY <1>5 DEF Codes!MailFails, Codes!Goto
  <2> HIDE DEF w
  <2> QED
    BY <2>1, <2>2, <2>3, CodesRequestMoves
<1>6. CASE Codes!LockToCompare(r)
  <2> DEFINE usable == Codes!Usable(codeRequest[r].purpose, codeRequest[r].began)
  <2>1. CASE usable = {}
    BY <1>3, <1>6, <2>1 DEF Codes!LockToCompare
  <2>2. CASE usable # {}
    <3>1. PICK c \in usable, right \in BOOLEAN :
            codeRequest' = [codeRequest EXCEPT ![r].at = "comparing", ![r].target = c, ![r].right = right]
      BY <1>6, <2>2 DEF Codes!LockToCompare
    <3> DEFINE w == [codeRequest[r] EXCEPT !.at = "comparing", !.target = c, !.right = right]
    <3>2. /\ c \in Codes!Challenge /\ codeRow[c].state = "open"
          /\ codeRow[c].attempts < MaxGuesses
      BY DEF Codes!Usable, Codes!Open, Codes!Issued
    <3>3. w \in Codes!Work /\ w.at = "comparing" /\ w.target = c
      BY <1>0, <3>2 DEF Codes!Work
    <3>4. /\ codeRequest' = [codeRequest EXCEPT ![r] = w]
          /\ UNCHANGED <<codeNow, codeRow, verified, wrong, accepted>>
          /\ Codes!UserFree
      BY <1>0, <1>6, <3>1 DEF Codes!LockToCompare
    <3> HIDE DEF w
    <3> QED
      BY <3>2, <3>3, <3>4, CodesRequestMoves
  <2> QED
    BY <2>1, <2>2
<1> QED
  BY <1>1, <1>2, <1>3, <1>4, <1>5, <1>6 DEF Codes!Mail, Codes!Fail

\* Rows that keep their purpose and time keep the limits.
LEMMA LimitsKept ==
  ASSUME Codes!ChallengesInv, Codes!LimitsAssumption,
         \A c \in Codes!Challenge : /\ codeRow'[c].purpose = codeRow[c].purpose
                                    /\ codeRow'[c].created = codeRow[c].created
                                    /\ codeRow'[c].state = "none" <=> codeRow[c].state = "none"
  PROVE  Codes!IssueLimit'
<1> SUFFICES ASSUME NEW p \in Purpose, NEW time \in 0 .. MaxCodeTime
             PROVE  Cardinality({c \in Codes!Recent(p, time)' : codeRow'[c].created <= time})
                      <= MaxCodesPerHour
  BY CodesSizes DEF Codes!IssueLimit
<1>1. {c \in Codes!Recent(p, time)' : codeRow'[c].created <= time}
        = {c \in Codes!Recent(p, time) : codeRow[c].created <= time}
  BY RecentUnchanged DEF Codes!Recent, Codes!Issued
<1> QED
  BY CodesSizes, <1>1 DEF Codes!ChallengesInv, Codes!IssueLimit

\* An undelivered code is closed.
LEMMA CloseUndeliveredInv ==
  ASSUME Codes!LimitsAssumption, Codes!ChallengesInv, NEW r \in Request, Codes!CloseUndelivered(r)
  PROVE  Codes!ChallengesInv'
<1> USE DEF Codes!ChallengesInv, Codes!TypeOK
<1> DEFINE k == codeRequest[r].target
<1>1. /\ k \in Codes!Challenge
      /\ codeRequest' = [codeRequest EXCEPT ![r] = Codes!Idle]
      /\ UNCHANGED <<codeNow, verified, wrong, accepted>>
      /\ \A q \in Request : ~(codeRequest[q].at = "comparing" /\ codeRequest[q].target = k)
  BY DEF Codes!CloseUndelivered, Codes!FoundStaysTrue, Codes!Found, Codes!End, Codes!RowFree
<1>2. \A c \in Codes!Challenge :
        /\ codeRow'[c] \in Codes!Row
        /\ codeRow'[c].purpose = codeRow[c].purpose
        /\ codeRow'[c].created = codeRow[c].created
        /\ codeRow'[c].attempts = codeRow[c].attempts
        /\ c # k => codeRow'[c] = codeRow[c]
        /\ \/ codeRow'[c].state = codeRow[c].state
           \/ codeRow[c].state = "open" /\ codeRow'[c].state = "consumed"
  BY <1>1 DEF Codes!CloseUndelivered, Codes!Row
<1>3. codeRow' \in [Codes!Challenge -> Codes!Row]
  BY <1>1, <1>2 DEF Codes!CloseUndelivered
<1>4. Codes!TypeOK'
  BY <1>1, <1>3, IdleWork
<1>5. Codes!LockExcludes'
  BY <1>1 DEF Codes!LockExcludes, Codes!HoldsUser, Codes!Idle
<1>6. \A p, time : Codes!Recent(p, time)' = Codes!Recent(p, time)
  BY <1>2, RecentUnchanged
<1>7. Codes!FoundStaysTrue'
  <2> SUFFICES ASSUME NEW q \in Request PROVE Codes!Found(q)'
    BY DEF Codes!FoundStaysTrue
  <2>1. CASE q = r
    BY <1>1, <2>1 DEF Codes!Found, Codes!Idle
  <2>2. CASE q # r
    <3>1. codeRequest'[q] = codeRequest[q]
      BY <1>1, <2>2
    <3> QED
      BY <1>1, <1>2, <1>6, <3>1 DEF Codes!FoundStaysTrue, Codes!Found
  <2> QED
    BY <2>1, <2>2
<1>8. Codes!RowsCount'
  BY <1>1, <1>2 DEF Codes!RowsCount
<1>9. Codes!OneOpen'
  BY <1>2 DEF Codes!OneOpen, Codes!Open, Codes!Issued
<1>10. Codes!IssueLimit'
  BY <1>2, LimitsKept
<1> QED
  BY <1>4, <1>5, <1>7, <1>8, <1>9, <1>10

\* A comparison is counted or closes the row.
LEMMA CommitComparisonInv ==
  ASSUME Codes!LimitsAssumption, Codes!ChallengesInv, NEW r \in Request, Codes!CommitComparison(r)
  PROVE  Codes!ChallengesInv'
<1> USE DEF Codes!ChallengesInv, Codes!TypeOK
<1> DEFINE k == codeRequest[r].target
<1>1. /\ k \in Codes!Challenge
      /\ codeRow[k].state = "open" /\ codeRow[k].attempts < MaxGuesses
      /\ codeRequest' = [codeRequest EXCEPT ![r] = Codes!Idle]
      /\ \A q \in Request \ {r} : codeRequest[q].at # "comparing"
  BY DEF Codes!CommitComparison, Codes!FoundStaysTrue, Codes!Found, Codes!End,
     Codes!LockExcludes, Codes!HoldsUser
<1>2. /\ codeNow' = codeNow /\ verified' \in BOOLEAN
      /\ \/ /\ codeRow' = [codeRow EXCEPT ![k].state = "consumed"]
            /\ accepted' = [accepted EXCEPT ![k] = @ + 1]
            /\ wrong' = wrong
         \/ /\ codeRow' = [codeRow EXCEPT ![k].attempts = @ + 1]
            /\ wrong' = [wrong EXCEPT ![k] = @ + 1]
            /\ accepted' = accepted
  BY DEF Codes!CommitComparison
<1>3. \A c \in Codes!Challenge :
        /\ codeRow'[c] \in Codes!Row
        /\ codeRow'[c].purpose = codeRow[c].purpose
        /\ codeRow'[c].created = codeRow[c].created
        /\ c # k => codeRow'[c] = codeRow[c]
        /\ \/ codeRow'[c].state = codeRow[c].state
           \/ codeRow[c].state = "open" /\ codeRow'[c].state = "consumed"
  BY <1>1, <1>2 DEF Codes!Row
<1>4. /\ codeRow' \in [Codes!Challenge -> Codes!Row]
      /\ wrong' \in [Codes!Challenge -> Nat] /\ accepted' \in [Codes!Challenge -> Nat]
  BY <1>1, <1>2, <1>3
<1>5. Codes!TypeOK'
  BY <1>1, <1>2, <1>4, IdleWork
<1>6. Codes!LockExcludes'
  BY <1>1 DEF Codes!LockExcludes, Codes!HoldsUser, Codes!Idle
<1>7. \A p, time : Codes!Recent(p, time)' = Codes!Recent(p, time)
  BY <1>3, RecentUnchanged
<1>8. Codes!FoundStaysTrue'
  BY <1>1, <1>7 DEF Codes!FoundStaysTrue, Codes!Found, Codes!Idle
<1>9. Codes!RowsCount'
  BY <1>1, <1>2, <1>3 DEF Codes!RowsCount, Codes!LimitsAssumption, Codes!Row
<1>10. Codes!OneOpen'
  BY <1>3 DEF Codes!OneOpen, Codes!Open, Codes!Issued
<1>11. Codes!IssueLimit'
  BY <1>3, LimitsKept
<1> QED
  BY <1>5, <1>6, <1>8, <1>9, <1>10, <1>11

\* A new code: the earlier ones of its purpose are closed first, and the limit
\* counts every code newer than an hour before its transaction began.
LEMMA CommitIssueInv ==
  ASSUME Codes!LimitsAssumption, Codes!ChallengesInv, NEW r \in Request, Codes!CommitIssue(r)
  PROVE  Codes!ChallengesInv'
<1> USE DEF Codes!ChallengesInv, Codes!TypeOK
<1> DEFINE p == codeRequest[r].purpose
           began == codeRequest[r].began
           row(k) == [state |-> "open", purpose |-> p, attempts |-> 0, created |-> began]
<1>0. p \in Purpose /\ began \in Nat /\ codeRequest[r].at = "issuing"
  BY DEF Codes!CommitIssue, Codes!Work
<1>1. PICK k \in Codes!Challenge :
        /\ codeRow[k].state = "none"
        /\ codeRow' = [Codes!EarlierClosed(p) EXCEPT ![k] = row(k)]
        /\ codeRequest' = [codeRequest EXCEPT ![r].at = "mailing", ![r].target = k]
        /\ UNCHANGED <<codeNow, verified, wrong, accepted>>
  BY DEF Codes!CommitIssue
<1>2. /\ codeRow'[k] = row(k) /\ row(k) \in Codes!Row
      /\ \A c \in Codes!Challenge \ {k} :
           /\ codeRow'[c] \in Codes!Row
           /\ codeRow'[c].purpose = codeRow[c].purpose
           /\ codeRow'[c].created = codeRow[c].created
           /\ codeRow'[c].attempts = codeRow[c].attempts
           /\ IF c \in Codes!Open(p) THEN codeRow'[c].state = "consumed"
                                     ELSE codeRow'[c] = codeRow[c]
  BY <1>0, <1>1 DEF Codes!EarlierClosed, Codes!Row
<1>3. codeRow' \in [Codes!Challenge -> Codes!Row]
  BY <1>1, <1>2 DEF Codes!EarlierClosed
<1>4. /\ codeRequest'[r] \in Codes!Work /\ codeRequest'[r].at = "mailing" /\ codeRequest'[r].target = k
      /\ \A q \in Request \ {r} : codeRequest'[q] = codeRequest[q]
  BY <1>1 DEF Codes!Work
<1>5. Codes!TypeOK'
  BY <1>1, <1>3, <1>4
<1>6. \A q \in Request \ {r} : ~ Codes!HoldsUser(q)
  BY <1>0 DEF Codes!LockExcludes, Codes!HoldsUser
<1>7. Codes!LockExcludes'
  BY <1>4 DEF Codes!LockExcludes, Codes!HoldsUser
<1>8. Codes!FoundStaysTrue'
  BY <1>4, <1>6 DEF Codes!FoundStaysTrue, Codes!Found, Codes!HoldsUser
<1>9. Codes!RowsCount'
  BY <1>1, <1>2 DEF Codes!RowsCount, Codes!Open, Codes!Issued
<1>10. Codes!OneOpen'
  BY <1>2 DEF Codes!OneOpen, Codes!Open, Codes!Issued
<1>11. Codes!IssueLimit'
  <2> SUFFICES ASSUME NEW o \in Purpose, NEW time \in 0 .. MaxCodeTime
               PROVE  Cardinality({c \in Codes!Recent(o, time)' : codeRow'[c].created <= time})
                        <= MaxCodesPerHour
    BY CodesSizes DEF Codes!IssueLimit
  <2> DEFINE Old == {c \in Codes!Recent(o, time) : codeRow[c].created <= time}
             New == {c \in Codes!Recent(o, time)' : codeRow'[c].created <= time}
  <2>1. Old \subseteq New /\ New \subseteq Old \union {k}
    BY <1>1, <1>2 DEF Codes!Recent, Codes!Issued, Codes!Open
  <2>2. Cardinality(Old) <= MaxCodesPerHour
    BY CodesSizes DEF Codes!IssueLimit
  <2>3. CASE k \notin New
    <3>1. New = Old
      BY <2>1, <2>3 DEF Codes!Recent, Codes!Issued
    <3> QED
      BY <2>2, <3>1
  <2>4. CASE k \in New
    <3>1. o = p /\ began <= time /\ began > time - CodeWindow
      BY <1>2, <2>4 DEF Codes!Recent, Codes!Issued
    <3>2. Old \subseteq Codes!Recent(p, began)
      <4> SUFFICES ASSUME NEW c \in Old PROVE c \in Codes!Recent(p, began)
        OBVIOUS
      <4>1. c \in Codes!Issued(p) /\ codeRow[c].created > time - CodeWindow /\ codeRow[c].created \in Nat
        BY <3>1 DEF Codes!Recent, Codes!Issued, Codes!Row
      <4> QED
        BY <1>0, <3>1, <4>1 DEF Codes!Recent, Codes!LimitsAssumption
    <3>3. Cardinality(Codes!Recent(p, began)) < MaxCodesPerHour
      BY CodesSizes, <1>0 DEF Codes!FoundStaysTrue, Codes!Found
    <3>4. Codes!Recent(p, began) \in SUBSET Codes!Challenge /\ Old \in SUBSET Codes!Challenge
      BY DEF Codes!Recent, Codes!Issued
    <3>5. New \in SUBSET (Old \union {k}) /\ Old \union {k} \in SUBSET Codes!Challenge
      BY <2>1, <3>4
    <3> HIDE DEF Old, New
    <3>6. Cardinality(New) <= Cardinality(Old \union {k})
      BY <3>5, FewerInPart
    <3>7. Cardinality(Old \union {k}) <= Cardinality(Old) + 1
      BY <3>4, CodesOneMore
    <3>8. Cardinality(Old) <= Cardinality(Codes!Recent(p, began))
      BY <3>2, <3>4, FewerInPart
    <3>9. /\ Cardinality(New) \in Nat /\ Cardinality(Old) \in Nat
          /\ Cardinality(Old \union {k}) \in Nat /\ Cardinality(Codes!Recent(p, began)) \in Nat
      BY <3>4, <3>5, ChallengesFinite
    <3>10. Cardinality(New) <= MaxCodesPerHour
      BY ONLY <3>3, <3>6, <3>7, <3>8, <3>9, Codes!LimitsAssumption DEF Codes!LimitsAssumption
    <3> QED
      BY <3>10 DEF New
  <2> QED
    BY <2>3, <2>4
<1> QED
  BY <1>5, <1>7, <1>8, <1>9, <1>10, <1>11

\* Time passes, or nothing happens.
LEMMA CodesRowsUntouched ==
  ASSUME Codes!ChallengesInv, codeNow' \in Nat,
         UNCHANGED <<codeRow, verified, codeRequest, wrong, accepted>>
  PROVE  Codes!ChallengesInv'
<1>1. Codes!TypeOK' /\ Codes!LockExcludes' /\ Codes!RowsCount'
  BY DEF Codes!ChallengesInv, Codes!TypeOK, Codes!LockExcludes, Codes!HoldsUser, Codes!RowsCount
<1>2. Codes!FoundStaysTrue'
  <2>1. ASSUME NEW r \in Request PROVE Codes!Found(r)'
    <3>1. Codes!Found(r)
      BY DEF Codes!ChallengesInv, Codes!FoundStaysTrue
    <3>2. Codes!Recent(codeRequest[r].purpose, codeRequest[r].began)' =
          Codes!Recent(codeRequest[r].purpose, codeRequest[r].began)
      BY DEF Codes!Recent, Codes!Issued
    <3> QED
      BY <3>1, <3>2 DEF Codes!Found
  <2> QED
    BY <2>1 DEF Codes!FoundStaysTrue
<1>3. Codes!OneOpen'
  BY DEF Codes!ChallengesInv, Codes!OneOpen, Codes!Open, Codes!Issued
<1>4. Codes!IssueLimit'
  BY DEF Codes!ChallengesInv, Codes!IssueLimit, Codes!Recent, Codes!Issued
<1> QED
  BY <1>1, <1>2, <1>3, <1>4 DEF Codes!ChallengesInv

LEMMA CodesStepInv ==
  ASSUME Codes!LimitsAssumption
  PROVE  Codes!ChallengesInv /\ [Codes!Next]_Codes!vars => Codes!ChallengesInv'
<1> SUFFICES ASSUME Codes!ChallengesInv, [Codes!Next]_Codes!vars PROVE Codes!ChallengesInv'
  OBVIOUS
<1>1. CASE UNCHANGED Codes!vars
  BY <1>1, CodesRowsUntouched DEF Codes!vars, Codes!ChallengesInv, Codes!TypeOK
<1>2. CASE Codes!Tick
  BY <1>2, CodesRowsUntouched DEF Codes!Tick, Codes!ChallengesInv, Codes!TypeOK
<1>3. ASSUME NEW r \in Request,
             Codes!CommitIssue(r) \/ Codes!CloseUndelivered(r) \/ Codes!CommitComparison(r)
      PROVE  Codes!ChallengesInv'
  BY <1>3, CommitIssueInv, CloseUndeliveredInv, CommitComparisonInv
<1> QED
  BY <1>1, <1>2, <1>3, CodesReadingInv DEF Codes!Next

-----------------------------------------------------------------------------
(* The theorems.                                                           *)

\* What a request found under the account's lock stays true until it commits, and
\* the rows count the guesses (withLockedUser, issueChallenge, consumeChallenge).
THEOREM ChallengesInvariant == Codes!Spec => []Codes!ChallengesInv
<1>1. Codes!Init => Codes!ChallengesInv
  BY CodesInitInv, AccountsAssumption
<1>2. Codes!ChallengesInv /\ [Codes!Next]_Codes!vars => Codes!ChallengesInv'
  BY CodesStepInv, AccountsAssumption
<1> QED
  BY <1>1, <1>2, PTL DEF Codes!Spec

\* One open code per purpose, at most MaxGuesses wrong guesses at it and one right
\* one, however many requests guess, ask and fail at the same time (consumeChallenge).
LEMMA GuessesAreBounded == Codes!Spec => []Codes!GuessesBounded
<1>1. Codes!ChallengesInv => Codes!GuessesBounded
  BY AccountsAssumption DEF Codes!ChallengesInv, Codes!TypeOK, Codes!RowsCount, Codes!OneOpen,
     Codes!GuessesBounded, Codes!LimitsAssumption, Codes!Row
<1> QED
  BY <1>1, ChallengesInvariant, PTL

\* At most MaxPerHour codes of a purpose in any window, although a transaction
\* counts from the time at which it began (issueChallenge).
THEOREM IssuesAreLimited == Codes!Spec => []IssueLimit
<1>1. Codes!ChallengesInv => IssueLimit
  BY DEF IssueLimit, Codes!ChallengesInv
<1> QED
  BY <1>1, ChallengesInvariant, PTL

-----------------------------------------------------------------------------
(* Identities (AccountIdentities).                                         *)
Works == [at : {"idle", "registering", "creating", "retrying", "linking", "unlinking"},
          user : Ids!User \union {Ids!NoId}, email : Email \union {Nobody},
          provider : Provider \union {Nobody}, subject : Subject \union {Nobody},
          hash : 0 .. MaxHashes, session : {"open", "revoked"}]

Rows == [state : {"none", "present", "deleted"}, email : Email \union {Nobody},
         hash : 0 .. MaxHashes]

\* A work names what its later steps use.
NamesGiven(w) ==
  /\ w.at \in {"registering", "creating"} => w.email \in Email
  /\ w.at \in {"creating", "linking"} => w.provider \in Provider /\ w.subject \in Subject
  /\ w.at \in {"linking", "unlinking"} => w.user \in Ids!User

-----------------------------------------------------------------------------
(* The invariant holds at the start, and every step keeps it.              *)

LEMMA InvParts ==
  Ids!IdentitiesInv <=> /\ user \in [Ids!User -> Rows]
                        /\ owner \in [Provider \X Subject -> Ids!User \union {Ids!NoId}]
                        /\ lastPassword \in 0 .. MaxHashes
                        /\ identityRequest \in [Request -> Works]
                        /\ \A r \in Request : NamesGiven(identityRequest[r])
                        /\ Ids!AlwaysSignIn
  BY DEF Ids!IdentitiesInv, Ids!TypeOK, Ids!BegunWithNames, NamesGiven, Works, Rows

\* A row that has no identity's subject is not its owner.
LEMMA UserIsNotNoId == \A u \in Ids!User : u # Ids!NoId
  BY DEF Ids!User, Ids!NoId

\* The request takes up other work and nothing else changes.
LEMMA IdentityRequestMoves ==
  ASSUME Ids!IdentitiesInv, NEW r \in Request, NEW w \in Works, NamesGiven(w),
         identityRequest' = [identityRequest EXCEPT ![r] = w]
  PROVE  identityRequest' \in [Request -> Works] /\ \A q \in Request : NamesGiven(identityRequest'[q])
  BY InvParts

\* Nobody signs in otherwise than before.
LEMMA AccountsUnchanged ==
  ASSUME Ids!IdentitiesInv, UNCHANGED <<user, owner, lastPassword>>,
         identityRequest' \in [Request -> Works], \A q \in Request : NamesGiven(identityRequest'[q])
  PROVE  Ids!IdentitiesInv'
<1>1. Ids!AlwaysSignIn'
  BY InvParts DEF Ids!AlwaysSignIn, Ids!Present, Ids!Identities
<1>2. /\ user' \in [Ids!User -> Rows]
      /\ owner' \in [Provider \X Subject -> Ids!User \union {Ids!NoId}]
      /\ lastPassword' \in 0 .. MaxHashes
  BY InvParts
<1> QED
  BY <1>1, <1>2 DEF Ids!IdentitiesInv, Ids!TypeOK, Ids!BegunWithNames, NamesGiven, Works, Rows

LEMMA IdleWorks == Ids!BoundsAssumption => Ids!Idle \in Works /\ NamesGiven(Ids!Idle)
  BY DEF Ids!BoundsAssumption, Ids!Idle, Works, NamesGiven, Ids!NoPassword

LEMMA IdentityInitInv == Ids!BoundsAssumption /\ Ids!Init => Ids!IdentitiesInv
  BY DEF Ids!BoundsAssumption, Ids!Init, Ids!IdentitiesInv, Ids!TypeOK, Ids!BegunWithNames,
     Ids!AlwaysSignIn, Ids!Present, Ids!NoUser, Ids!Idle, Ids!NoPassword

\* A request begins, gives up or has nothing left to do.
LEMMA IdentityReadingInv ==
  ASSUME Ids!BoundsAssumption, Ids!IdentitiesInv, NEW r \in Request,
         \/ \E m \in Email : Ids!BeginRegister(r, m)
         \/ \E p \in Provider, x \in Subject, m \in Email : Ids!BeginSignIn(r, p, x, m)
         \/ \E u \in Ids!User, p \in Provider, x \in Subject : Ids!BeginLink(r, u, p, x)
         \/ \E u \in Ids!User, p \in Provider : Ids!BeginUnlink(r, u, p)
         \/ Ids!RetrySignIn(r)
         \/ Ids!Fail(r)
  PROVE  Ids!IdentitiesInv'
<1>1. /\ UNCHANGED <<user, owner, lastPassword>>
      /\ \E w \in Works : NamesGiven(w) /\ identityRequest' = [identityRequest EXCEPT ![r] = w]
  <2>1. Ids!Idle \in Works /\ NamesGiven(Ids!Idle)
    BY IdleWorks
  <2>2. ASSUME NEW m \in Email, Ids!BeginRegister(r, m)
        PROVE  <1>1!1 /\ <1>1!2
    <3> DEFINE w == [Ids!Idle EXCEPT !.at = "registering", !.email = m]
    <3>1. w \in Works /\ NamesGiven(w)
      BY <2>1 DEF Works, NamesGiven
    <3> QED
      BY <2>2, <3>1 DEF Ids!BeginRegister, Ids!Goto
  <2>3. ASSUME NEW p \in Provider, NEW x \in Subject, NEW m \in Email, Ids!BeginSignIn(r, p, x, m)
        PROVE  <1>1!1 /\ <1>1!2
    <3> DEFINE w == [Ids!Idle EXCEPT !.at = "creating", !.provider = p, !.subject = x, !.email = m]
    <3>1. w \in Works /\ NamesGiven(w)
      BY <2>1 DEF Works, NamesGiven
    <3> QED
      BY <2>3, <3>1 DEF Ids!BeginSignIn, Ids!Goto
  <2>4. ASSUME NEW u \in Ids!User, NEW p \in Provider, NEW x \in Subject,
               Ids!BeginLink(r, u, p, x)
        PROVE  <1>1!1 /\ <1>1!2
    <3> DEFINE w == [Ids!Idle EXCEPT !.at = "linking", !.user = u, !.provider = p, !.subject = x,
                                     !.hash = user[u].hash]
    <3>1. w \in Works /\ NamesGiven(w)
      BY <2>1, InvParts DEF Works, Rows, NamesGiven
    <3> QED
      BY <2>4, <3>1 DEF Ids!BeginLink, Ids!Goto
  <2>5. ASSUME NEW u \in Ids!User, NEW p \in Provider, Ids!BeginUnlink(r, u, p)
        PROVE  <1>1!1 /\ <1>1!2
    <3> DEFINE w == [Ids!Idle EXCEPT !.at = "unlinking", !.user = u, !.provider = p,
                                     !.hash = user[u].hash]
    <3>1. w \in Works /\ NamesGiven(w)
      BY <2>1, InvParts DEF Works, Rows, NamesGiven
    <3> QED
      BY <2>5, <3>1 DEF Ids!BeginUnlink, Ids!Goto
  <2>6. CASE Ids!RetrySignIn(r) \/ Ids!Fail(r)
    BY <2>1, <2>6 DEF Ids!RetrySignIn, Ids!Fail, Ids!End, Ids!Goto
  <2> QED
    BY <2>2, <2>3, <2>4, <2>5, <2>6
<1> QED
  BY <1>1, IdentityRequestMoves, AccountsUnchanged

\* A new account, with its password or its identity.
LEMMA InsertTypes ==
  ASSUME Ids!IdentitiesInv, NEW u \in Ids!User, NEW m \in Email, NEW h \in 0 .. MaxHashes,
         Ids!Insert(u, m, h)
  PROVE  /\ user' \in [Ids!User -> Rows]
         /\ user'[u].hash = h
         /\ user[u].state = "none"
         /\ \A v \in Ids!User \ {u} : user'[v] = user[v]
  BY InvParts DEF Ids!Insert, Rows

LEMMA CommitRegisterInv ==
  ASSUME Ids!BoundsAssumption, Ids!IdentitiesInv, NEW r \in Request, Ids!CommitRegister(r)
  PROVE  Ids!IdentitiesInv'
<1>1. identityRequest' \in [Request -> Works] /\ \A q \in Request : NamesGiven(identityRequest'[q])
  BY IdleWorks, IdentityRequestMoves DEF Ids!CommitRegister, Ids!End, Ids!Goto
<1>2. CASE Ids!EmailTaken(identityRequest[r].email)
  BY <1>1, <1>2, AccountsUnchanged DEF Ids!CommitRegister
<1>3. CASE ~ Ids!EmailTaken(identityRequest[r].email)
  <2>1. PICK u \in Ids!User : Ids!Insert(u, identityRequest[r].email, lastPassword')
    BY <1>3 DEF Ids!CommitRegister
  <2>0. identityRequest[r].email \in Email
    BY InvParts DEF Ids!CommitRegister, NamesGiven
  <2>2. lastPassword' \in 0 .. MaxHashes /\ lastPassword' # Ids!NoPassword /\ owner' = owner
    BY <1>3, InvParts DEF Ids!CommitRegister, Ids!BoundsAssumption, Ids!NoPassword
  <2>3. /\ user' \in [Ids!User -> Rows]
        /\ user'[u].hash # Ids!NoPassword
        /\ \A v \in Ids!User \ {u} : user'[v] = user[v]
    BY <2>0, <2>1, <2>2, InsertTypes
  <2>4. Ids!AlwaysSignIn'
    BY <2>2, <2>3, InvParts DEF Ids!AlwaysSignIn, Ids!Present, Ids!Identities
  <2> QED
    BY <1>1, <2>2, <2>3, <2>4, InvParts
       DEF Ids!IdentitiesInv, Ids!TypeOK, Ids!BegunWithNames, NamesGiven, Works, Rows
<1> QED
  BY <1>2, <1>3

LEMMA CreateAccountInv ==
  ASSUME Ids!BoundsAssumption, Ids!IdentitiesInv, NEW r \in Request, Ids!CreateAccount(r)
  PROVE  Ids!IdentitiesInv'
<1> DEFINE p == identityRequest[r].provider
           x == identityRequest[r].subject
           m == identityRequest[r].email
<1>0. p \in Provider /\ x \in Subject /\ m \in Email
  BY InvParts DEF Ids!CreateAccount, NamesGiven
<1>1. CASE Ids!EmailTaken(m) \/ owner[<<p, x>>] # Ids!NoId
  <2> DEFINE w == [identityRequest[r] EXCEPT !.at = "retrying"]
  <2>1. w \in Works /\ NamesGiven(w)
    BY InvParts DEF Works, NamesGiven
  <2> QED
    BY <1>1, <2>1, IdentityRequestMoves, AccountsUnchanged DEF Ids!CreateAccount, Ids!Goto
<1>2. CASE ~ (Ids!EmailTaken(m) \/ owner[<<p, x>>] # Ids!NoId)
  <2>1. PICK u \in Ids!User : /\ Ids!Insert(u, m, Ids!NoPassword)
                              /\ owner' = [owner EXCEPT ![<<p, x>>] = u]
                              /\ Ids!End(r)
    BY <1>2 DEF Ids!CreateAccount
  <2>2. identityRequest' \in [Request -> Works] /\ \A q \in Request : NamesGiven(identityRequest'[q])
    BY <2>1, IdleWorks, IdentityRequestMoves DEF Ids!End, Ids!Goto
  <2>3. Ids!NoPassword \in 0 .. MaxHashes /\ lastPassword' = lastPassword
    BY <2>1 DEF Ids!CreateAccount, Ids!NoPassword, Ids!BoundsAssumption
  <2>4. user' \in [Ids!User -> Rows] /\ \A v \in Ids!User \ {u} : user'[v] = user[v]
    BY <1>0, <2>1, <2>3, InsertTypes
  <2>5. /\ owner' \in [Provider \X Subject -> Ids!User \union {Ids!NoId}]
        /\ <<p, x>> \in Ids!Identities(u)'
        /\ \A v \in Ids!User \ {u} : Ids!Identities(v) \subseteq Ids!Identities(v)'
    BY <1>0, <1>2, <2>1, InvParts, UserIsNotNoId DEF Ids!Identities
  <2>6. Ids!AlwaysSignIn'
    BY <2>4, <2>5, InvParts DEF Ids!AlwaysSignIn, Ids!Present
  <2> QED
    BY <2>2, <2>3, <2>4, <2>5, <2>6, InvParts
       DEF Ids!IdentitiesInv, Ids!TypeOK, Ids!BegunWithNames, NamesGiven, Works, Rows
<1> QED
  BY <1>1, <1>2

LEMMA CommitLinkInv ==
  ASSUME Ids!BoundsAssumption, Ids!IdentitiesInv, NEW r \in Request, Ids!CommitLink(r)
  PROVE  Ids!IdentitiesInv'
<1> DEFINE u == identityRequest[r].user
           p == identityRequest[r].provider
           x == identityRequest[r].subject
<1>0. p \in Provider /\ x \in Subject /\ u \in Ids!User
  BY InvParts DEF Ids!CommitLink, NamesGiven
<1>1. identityRequest' \in [Request -> Works] /\ \A q \in Request : NamesGiven(identityRequest'[q])
  BY IdleWorks, IdentityRequestMoves DEF Ids!CommitLink, Ids!End, Ids!Goto
<1>2. \/ owner' = owner
      \/ owner[<<p, x>>] = Ids!NoId /\ owner' = [owner EXCEPT ![<<p, x>>] = u]
  BY DEF Ids!CommitLink
<1>3. /\ owner' \in [Provider \X Subject -> Ids!User \union {Ids!NoId}]
      /\ \A v \in Ids!User : Ids!Identities(v) \subseteq Ids!Identities(v)'
  BY <1>0, <1>2, InvParts, UserIsNotNoId DEF Ids!Identities
<1>4. UNCHANGED <<user, lastPassword>>
  BY DEF Ids!CommitLink
<1>5. Ids!AlwaysSignIn'
  BY <1>3, <1>4, InvParts DEF Ids!AlwaysSignIn, Ids!Present
<1> QED
  BY <1>1, <1>3, <1>4, <1>5, InvParts
     DEF Ids!IdentitiesInv, Ids!TypeOK, Ids!BegunWithNames, NamesGiven, Works, Rows

\* Only an account with a password loses an identity.
LEMMA CommitUnlinkInv ==
  ASSUME Ids!BoundsAssumption, Ids!IdentitiesInv, NEW r \in Request, Ids!CommitUnlink(r)
  PROVE  Ids!IdentitiesInv'
<1> DEFINE u == identityRequest[r].user
           p == identityRequest[r].provider
<1>0. u \in Ids!User
  BY InvParts DEF Ids!CommitUnlink, NamesGiven
<1>1. identityRequest' \in [Request -> Works] /\ \A q \in Request : NamesGiven(identityRequest'[q])
  BY IdleWorks, IdentityRequestMoves DEF Ids!CommitUnlink, Ids!End, Ids!Goto
<1>2. UNCHANGED <<user, lastPassword>>
  BY DEF Ids!CommitUnlink
<1>3. CASE owner' = owner
  BY <1>1, <1>2, <1>3, AccountsUnchanged
<1>4. CASE owner' # owner
  <2>1. /\ Ids!HasPassword(u)
        /\ owner' = [i \in Provider \X Subject |->
                       IF owner[i] = u /\ i[1] = p THEN Ids!NoId ELSE owner[i]]
    BY <1>4 DEF Ids!CommitUnlink
  <2>2. owner' \in [Provider \X Subject -> Ids!User \union {Ids!NoId}]
    BY <2>1, InvParts
  <2>3. \A v \in Ids!User \ {u} : Ids!Identities(v) \subseteq Ids!Identities(v)'
    BY <2>1, InvParts DEF Ids!Identities
  <2>4. Ids!AlwaysSignIn'
    BY <1>2, <2>1, <2>3, InvParts DEF Ids!AlwaysSignIn, Ids!Present, Ids!HasPassword
  <2> QED
    BY <1>1, <1>2, <2>2, <2>4, InvParts
       DEF Ids!IdentitiesInv, Ids!TypeOK, Ids!BegunWithNames, NamesGiven, Works, Rows
<1> QED
  BY <1>3, <1>4

\* What a user does elsewhere.
LEMMA RevokedTypes ==
  ASSUME Ids!IdentitiesInv, NEW loggedOut, Ids!Revoke(loggedOut)
  PROVE  identityRequest' \in [Request -> Works] /\ \A q \in Request : NamesGiven(identityRequest'[q])
<1>1. ASSUME NEW q \in Request PROVE identityRequest'[q] \in Works /\ NamesGiven(identityRequest'[q])
  BY InvParts DEF Ids!Revoke, Works, NamesGiven
<1> QED
  BY <1>1 DEF Ids!Revoke

LEMMA AccountChangesInv ==
  ASSUME Ids!BoundsAssumption, Ids!IdentitiesInv, NEW u \in Ids!User,
         Ids!ResetPassword(u) \/ Ids!Logout(u) \/ Ids!DeleteAccount(u)
  PROVE  Ids!IdentitiesInv'
<1>1. identityRequest' \in [Request -> Works] /\ \A q \in Request : NamesGiven(identityRequest'[q])
  BY RevokedTypes DEF Ids!ResetPassword, Ids!Logout, Ids!DeleteAccount
<1>2. CASE Ids!ResetPassword(u)
  <2>1. lastPassword' \in 0 .. MaxHashes /\ lastPassword' # Ids!NoPassword
    BY <1>2, InvParts DEF Ids!ResetPassword, Ids!NoPassword, Ids!BoundsAssumption
  <2>2. user' \in [Ids!User -> Rows] /\ user'[u].hash = lastPassword' /\ owner' = owner
    BY <1>2, <2>1, InvParts DEF Ids!ResetPassword, Rows
  <2>3. \A v \in Ids!User \ {u} : user'[v] = user[v]
    BY <1>2, InvParts DEF Ids!ResetPassword
  <2>4. Ids!AlwaysSignIn'
    BY <2>1, <2>2, <2>3, InvParts DEF Ids!AlwaysSignIn, Ids!Present, Ids!Identities
  <2> QED
    BY <1>1, <2>1, <2>2, <2>4, InvParts
       DEF Ids!IdentitiesInv, Ids!TypeOK, Ids!BegunWithNames, NamesGiven, Works, Rows
<1>3. CASE Ids!Logout(u)
  BY <1>1, <1>3, AccountsUnchanged DEF Ids!Logout
<1>4. CASE Ids!DeleteAccount(u)
  <2>1. /\ user' \in [Ids!User -> Rows] /\ user'[u].state = "deleted"
        /\ \A v \in Ids!User \ {u} : user'[v] = user[v]
    BY <1>4, InvParts DEF Ids!DeleteAccount, Rows, Ids!NoUser, Ids!NoPassword,
       Ids!BoundsAssumption
  <2>2. /\ owner' \in [Provider \X Subject -> Ids!User \union {Ids!NoId}]
        /\ \A v \in Ids!User \ {u} : Ids!Identities(v) \subseteq Ids!Identities(v)'
    BY <1>4, InvParts DEF Ids!DeleteAccount, Ids!IdentitiesDeleted, Ids!Identities
  <2>3. Ids!AlwaysSignIn'
    BY <2>1, <2>2, InvParts DEF Ids!AlwaysSignIn, Ids!Present
  <2> QED
    BY <1>1, <1>4, <2>1, <2>2, <2>3, InvParts DEF Ids!DeleteAccount, Ids!IdentitiesInv,
       Ids!TypeOK, Ids!BegunWithNames, NamesGiven, Works, Rows
<1> QED
  BY <1>2, <1>3, <1>4

LEMMA IdentityStepInv ==
  ASSUME Ids!BoundsAssumption
  PROVE  Ids!IdentitiesInv /\ [Ids!Next]_Ids!vars => Ids!IdentitiesInv'
<1> SUFFICES ASSUME Ids!IdentitiesInv, [Ids!Next]_Ids!vars PROVE Ids!IdentitiesInv'
  OBVIOUS
<1>1. CASE UNCHANGED Ids!vars
  BY <1>1, InvParts, AccountsUnchanged DEF Ids!vars
<1>2. CASE Ids!Next
  BY <1>2, IdentityReadingInv, CommitRegisterInv, CreateAccountInv, CommitLinkInv,
     CommitUnlinkInv, AccountChangesInv DEF Ids!Next
<1> QED
  BY <1>1, <1>2

-----------------------------------------------------------------------------
(* The theorems.                                                           *)

\* Types, the names a request was given and a way to sign in, always: what the
\* transactions of auth.repository.js and identityManagement.repository.js keep.
THEOREM IdentitiesInvariant == Ids!Spec => []Ids!IdentitiesInv
<1>1. Ids!Init => Ids!IdentitiesInv
  BY IdentityInitInv, AccountsAssumption
<1>2. Ids!IdentitiesInv /\ [Ids!Next]_Ids!vars => Ids!IdentitiesInv'
  BY IdentityStepInv, AccountsAssumption
<1> QED
  BY <1>1, <1>2, PTL DEF Ids!Spec

\* No account is left without a password and without an identity, however links,
\* unlinks, resets and deletions overlap (linkProviderIdentity, unlinkProviderIdentity).
THEOREM AccountsCanSignIn == Ids!Spec => []AlwaysSignIn
<1>1. Ids!IdentitiesInv => AlwaysSignIn
  BY DEF AlwaysSignIn, Ids!IdentitiesInv
<1> QED
  BY <1>1, IdentitiesInvariant, PTL

\* An identity is added to an existing account only under the account's current
\* password and an open session (linkProviderIdentity, createGoogleSignIn).
THEOREM LinksAreProved == Ids!Spec => LinkedWithProof
<1> DEFINE Gains(u) == Ids!Present(u) /\ Ids!Identities(u)' \ Ids!Identities(u) # {}
           Proved(u) ==
             \E r \in Request : /\ identityRequest[r].at = "linking" /\ identityRequest[r].user = u
                                /\ identityRequest[r].session = "open"
                                /\ identityRequest[r].hash = user[u].hash
           Action == \A u \in Ids!User : Gains(u) => Proved(u)
<1>1. Ids!IdentitiesInv /\ [Ids!Next]_Ids!vars => [Action]_Ids!vars
  <2> SUFFICES ASSUME Ids!IdentitiesInv, Ids!Next, NEW u \in Ids!User, Gains(u) PROVE Proved(u)
    OBVIOUS
  <2>1. PICK i \in Provider \X Subject : owner'[i] = u /\ owner[i] # u
    BY DEF Ids!Identities
  <2>2. PICK r \in Request : Ids!CreateAccount(r) \/ Ids!CommitLink(r)
    <3>1. ASSUME NEW v \in Ids!User, Ids!DeleteAccount(v) PROVE FALSE
      BY <2>1, <3>1, UserIsNotNoId DEF Ids!DeleteAccount, Ids!IdentitiesDeleted
    <3>2. ASSUME NEW r \in Request, Ids!CommitUnlink(r) PROVE FALSE
      BY <2>1, <3>2, UserIsNotNoId DEF Ids!CommitUnlink
    <3> QED
      BY <2>1, <3>1, <3>2 DEF Ids!Next, Ids!BeginRegister, Ids!BeginSignIn, Ids!BeginLink,
         Ids!BeginUnlink, Ids!CommitRegister, Ids!RetrySignIn, Ids!Fail,
         Ids!ResetPassword, Ids!Logout
  <2>3. CASE Ids!CreateAccount(r)
    BY <2>1, <2>3, InvParts DEF Ids!CreateAccount, Ids!Insert, Ids!Present
  <2>4. CASE Ids!CommitLink(r)
    BY <2>1, <2>4, InvParts DEF Ids!CommitLink, Ids!SessionOpen, Ids!HashCurrent
  <2> QED
    BY <2>2, <2>3, <2>4
<1>2. Ids!Spec => [][Action]_Ids!vars
  BY <1>1, IdentitiesInvariant, PTL DEF Ids!Spec
<1> QED
  BY <1>2 DEF LinkedWithProof, Ids!LinkedWithProof

-----------------------------------------------------------------------------
(* Deletion (AccountDeletionReauth).                                       *)
LEMMA ReauthSizes ==
  \A S : Reauth!Cardinality(S) = Cardinality(S) /\ (Reauth!IsFiniteSet(S) <=> IsFiniteSet(S))
  BY DEF Reauth!Cardinality, Cardinality, Reauth!IsFiniteSet, IsFiniteSet


ChallengeRow ==
  [state : {"none", "open", "consumed", "purged"},
   session : Session \union {Nothing}, method : Reauth!Method, attempts : 0 .. MaxAttempts,
   created : 0 .. MaxReauthTime, callback : {"none", "pending", "exchanging", "verified", "failed"},
   subject : OwnSubject \union {Nothing}]

GrantRow ==
  [state : {"none", "open", "consumed", "purged"},
   session : Session \union {Nothing}, method : Reauth!Method,
   subject : OwnSubject \union {Nothing}, expires : Nat, hash : 0 .. MaxOwnHashes]

ReauthWork ==
  [at : {"idle", "proving", "recording", "exchanging", "completing", "failing"},
   challenge : Reauth!Challenge \union {Reauth!NoId}, session : Session \union {Nothing},
   hash : 0 .. MaxOwnHashes, subject : OwnSubject \union {Nothing}]

AccountTypes ==
  /\ clock \in 0 .. MaxReauthTime /\ present \in BOOLEAN
  /\ hash \in 0 .. MaxOwnHashes
  /\ linked \in [Reauth!External -> OwnSubject \union {Nothing}]
  /\ login \in [Session -> {"none", "open", "revoked"}]

LEMMA TypeParts ==
  Reauth!TypeOK <=> /\ AccountTypes
                    /\ challenge \in [Reauth!Challenge -> ChallengeRow]
                    /\ grant \in [Reauth!Grant -> GrantRow]
                    /\ proof \in [Request -> ReauthWork]
                    /\ guesses \in [Reauth!Challenge -> Nat] /\ lost \in Nat
  BY DEF Reauth!TypeOK, AccountTypes, ChallengeRow, GrantRow, ReauthWork

LEMMA NextTypes ==
  ASSUME AccountTypes', challenge' \in [Reauth!Challenge -> ChallengeRow],
         grant' \in [Reauth!Grant -> GrantRow], proof' \in [Request -> ReauthWork],
         guesses' \in [Reauth!Challenge -> Nat], lost' \in Nat
  PROVE  Reauth!TypeOK'
  BY DEF Reauth!TypeOK, AccountTypes, ChallengeRow, GrantRow, ReauthWork

LEMMA EmptyRows ==
  Reauth!ReauthAssumption =>
    Reauth!NoChallenge \in ChallengeRow /\ Reauth!NoGrant \in GrantRow /\ Reauth!Idle \in ReauthWork
  BY DEF Reauth!ReauthAssumption, Reauth!NoChallenge, Reauth!NoGrant, Reauth!Idle,
     ChallengeRow, GrantRow, ReauthWork, Reauth!Method, Reauth!NoPassword, Reauth!NoId

-----------------------------------------------------------------------------
(* Counting.                                                               *)

LEMMA RecordingFinite ==
  ASSUME Reauth!ReauthAssumption, NEW S \in SUBSET Request
  PROVE  /\ IsFiniteSet(S) /\ Cardinality(S) \in Nat /\ Cardinality(Request) \in Nat
         /\ Cardinality(S) <= Cardinality(Request)
<1>1. IsFiniteSet(Request)
  BY ReauthSizes DEF Reauth!ReauthAssumption
<1>2. IsFiniteSet(S) /\ Cardinality(S) <= Cardinality(Request)
  BY <1>1, FS_Subset
<1> QED
  BY <1>1, <1>2, FS_CardinalityType

LEMMA ReauthOneMore ==
  ASSUME Reauth!ReauthAssumption, NEW S \in SUBSET Request, NEW r \in Request, r \notin S
  PROVE  Cardinality(S \union {r}) = Cardinality(S) + 1
<1>1. IsFiniteSet(S)
  BY RecordingFinite
<1> QED
  BY <1>1, FS_AddElement

LEMMA OneLess ==
  ASSUME Reauth!ReauthAssumption, NEW S \in SUBSET Request, NEW r \in S
  PROVE  Cardinality(S \ {r}) = Cardinality(S) - 1
<1>1. IsFiniteSet(S)
  BY RecordingFinite
<1> QED
  BY <1>1, FS_RemoveElement

-----------------------------------------------------------------------------
(* What keeps each part of the invariant.                                  *)

LEMMA ReauthInitInv == Reauth!ReauthAssumption /\ Reauth!Init => Reauth!ReauthInv
<1> SUFFICES ASSUME Reauth!ReauthAssumption, Reauth!Init PROVE Reauth!ReauthInv
  OBVIOUS
<1> USE DEF Reauth!Init
<1>1. AccountTypes
  BY DEF AccountTypes, Reauth!ReauthAssumption, Reauth!External, Reauth!NoPassword
<1>2. Reauth!TypeOK
  BY <1>1, EmptyRows, TypeParts
<1>3. Reauth!WorkingOnIssued
  BY DEF Reauth!WorkingOnIssued, Reauth!Working, Reauth!Idle
<1>4. Reauth!GrantsCurrent /\ Reauth!OneThingEach
  BY DEF Reauth!GrantsCurrent, Reauth!Current, Reauth!OneThingEach, Reauth!OneThing,
     Reauth!OpenChallenge, Reauth!OpenGrant, Reauth!NoChallenge, Reauth!NoGrant
<1>5. Reauth!GuessesAccounted
  <2> SUFFICES ASSUME NEW c \in Reauth!Challenge PROVE Reauth!Accounted(c)
    BY DEF Reauth!GuessesAccounted
  <2>1. Cardinality(Request) \in Nat
    BY RecordingFinite
  <2> QED
    BY ReauthSizes, <2>1 DEF Reauth!Accounted, Reauth!Taking, Reauth!NoChallenge, Reauth!ReauthAssumption
<1> QED
  BY <1>2, <1>3, <1>4, <1>5 DEF Reauth!ReauthInv

\* A challenge that takes no more proofs stays so, and nobody begins or ends the
\* recording of a wrong one.
LEMMA GuessesKept ==
  ASSUME Reauth!ReauthInv, UNCHANGED <<guesses, lost>>,
         \A c \in Reauth!Challenge : Reauth!Recording(c)' = Reauth!Recording(c),
         \A c \in Reauth!Challenge :
           /\ challenge'[c].state = "none" => challenge[c].state = "none"
           /\ Reauth!Taking(c)' => \/ challenge[c].state = "none"
                                   \/ Reauth!Taking(c) /\ challenge'[c].attempts = challenge[c].attempts,
         Reauth!ReauthAssumption, challenge' \in [Reauth!Challenge -> ChallengeRow]
  PROVE  Reauth!GuessesAccounted'
<1> SUFFICES ASSUME NEW c \in Reauth!Challenge PROVE Reauth!Accounted(c)'
  BY DEF Reauth!GuessesAccounted
<1>1. Reauth!Accounted(c) /\ guesses[c] \in Nat /\ lost \in Nat
  BY TypeParts DEF Reauth!ReauthInv, Reauth!GuessesAccounted
<1>2. Cardinality(Reauth!Recording(c)) \in Nat
  BY RecordingFinite DEF Reauth!Recording
<1>3. challenge'[c].attempts \in Nat
  BY DEF ChallengeRow, Reauth!ReauthAssumption
<1>4. /\ guesses'[c] = guesses[c] /\ lost' = lost /\ Reauth!Recording(c)' = Reauth!Recording(c)
      /\ Cardinality(Reauth!Recording(c))' = Cardinality(Reauth!Recording(c))
  OBVIOUS
<1>5. (challenge[c].state = "none" => guesses[c] = 0)'
  BY <1>1, <1>4 DEF Reauth!Accounted
<1>6. (Reauth!Taking(c) => guesses[c] <= challenge[c].attempts + Cardinality(Reauth!Recording(c)) + lost)'
  BY ReauthSizes, <1>1, <1>2, <1>3, <1>4 DEF Reauth!Accounted
<1>7. (guesses[c] + 1 <= MaxAttempts + Cardinality(Request) + lost)'
  BY ReauthSizes, <1>1, <1>4 DEF Reauth!Accounted
<1> QED
  BY ReauthSizes, <1>5, <1>6, <1>7 DEF Reauth!Accounted

\* Rows and requests untouched.
LEMMA AccountSteps ==
  ASSUME Reauth!ReauthAssumption, Reauth!ReauthInv, AccountTypes',
         UNCHANGED <<challenge, grant, proof, guesses, lost>>,
         clock <= clock',
         \A s \in Session : /\ login[s] # "none" => login'[s] # "none"
                            /\ login'[s] = "open" /\ login[s] # "none" =>
                                 login[s] = "open" /\ hash' = hash
  PROVE  Reauth!ReauthInv'
<1> USE DEF Reauth!ReauthInv
<1>1. Reauth!TypeOK'
  BY TypeParts, NextTypes
<1>2. Reauth!WorkingOnIssued'
  BY DEF Reauth!WorkingOnIssued, Reauth!Working
<1>3. Reauth!GrantsCurrent'
  BY DEF Reauth!GrantsCurrent, Reauth!Current
<1>4. Reauth!OneThingEach'
  BY DEF Reauth!OneThingEach, Reauth!OneThing, Reauth!OpenChallenge, Reauth!OpenGrant
<1>5. Reauth!GuessesAccounted'
  <2>1. \A c \in Reauth!Challenge : Reauth!Recording(c)' = Reauth!Recording(c)
    BY DEF Reauth!Recording
  <2>2. ASSUME NEW c \in Reauth!Challenge PROVE Reauth!Taking(c)' => Reauth!Taking(c)
    <3>1. challenge[c].created \in Int /\ ReauthTtl \in Int /\ clock \in Int /\ clock' \in Int
      BY TypeParts DEF ChallengeRow, Reauth!ReauthAssumption, AccountTypes
    <3> QED
      BY <3>1 DEF Reauth!Taking, Reauth!Expired
  <2> QED
    BY <2>1, <2>2, TypeParts, GuessesKept
<1> QED
  BY <1>1, <1>2, <1>3, <1>4, <1>5

LEMMA AccountInv ==
  ASSUME Reauth!ReauthAssumption, Reauth!ReauthInv,
         \/ Reauth!Tick \/ Reauth!ResetPassword
         \/ \E s \in Session : Reauth!SignIn(s) \/ Reauth!Logout(s)
         \/ \E s \in Session, p \in Reauth!External :
              Reauth!Unlink(s, p) \/ \E x \in OwnSubject : Reauth!Link(s, p, x)
  PROVE  Reauth!ReauthInv'
<1>0. AccountTypes /\ clock \in Int
  BY TypeParts DEF Reauth!ReauthInv, AccountTypes
<1>1. CASE Reauth!Tick
  BY <1>0, <1>1, AccountSteps DEF Reauth!Tick, AccountTypes, Reauth!account, Reauth!history,
     Reauth!ReauthAssumption
<1>2. CASE Reauth!ResetPassword
  BY <1>0, <1>2, AccountSteps DEF Reauth!ResetPassword, Reauth!RevokedSessions, AccountTypes,
     Reauth!history, Reauth!ReauthAssumption
<1>3. ASSUME NEW s \in Session, Reauth!SignIn(s) \/ Reauth!Logout(s) PROVE Reauth!ReauthInv'
  <2>1. AccountTypes'
    BY <1>0, <1>3 DEF Reauth!SignIn, Reauth!Logout, AccountTypes
  <2> QED
    BY <1>0, <1>3, <2>1, AccountSteps DEF Reauth!SignIn, Reauth!Logout, AccountTypes,
       Reauth!history
<1>4. ASSUME NEW s \in Session, NEW p \in Reauth!External,
             Reauth!Unlink(s, p) \/ \E x \in OwnSubject : Reauth!Link(s, p, x)
      PROVE  Reauth!ReauthInv'
  BY <1>0, <1>4, AccountSteps DEF Reauth!Link, Reauth!Unlink, AccountTypes, Reauth!history
<1> QED
  BY <1>1, <1>2, <1>3, <1>4

-----------------------------------------------------------------------------
(* A request goes on.                                                      *)

WorkGiven(w) ==
  LET c == w.challenge IN
  /\ w.at # "idle" => c \in Reauth!Challenge /\ challenge[c].state # "none"
  /\ w.at \in {"proving", "recording"} /\ challenge[c].state = "open" =>
       challenge[c].session = w.session

LEMMA WorkingKept ==
  ASSUME Reauth!ReauthInv, NEW r \in Request, NEW w \in ReauthWork, WorkGiven(w)',
         proof' = [proof EXCEPT ![r] = w],
         \A c \in Reauth!Challenge :
           /\ challenge'[c].state = "none" => challenge[c].state = "none"
           /\ challenge[c].state # "none" /\ challenge'[c].state = "open" =>
                challenge[c].state = "open" /\ challenge'[c].session = challenge[c].session
  PROVE  proof' \in [Request -> ReauthWork] /\ Reauth!WorkingOnIssued'
<1>1. proof' \in [Request -> ReauthWork]
  BY TypeParts DEF Reauth!ReauthInv
<1>2. ASSUME NEW q \in Request PROVE Reauth!Working(q)'
  <2>1. CASE q = r
    <3>1. proof'[q] = w
      BY <2>1, TypeParts DEF Reauth!ReauthInv
    <3> QED
      BY <3>1 DEF Reauth!Working, WorkGiven
  <2>2. CASE q # r
    <3>1. proof'[q] = proof[q]
      BY <2>2, TypeParts DEF Reauth!ReauthInv
    <3> QED
      BY <3>1 DEF Reauth!ReauthInv, Reauth!WorkingOnIssued, Reauth!Working
  <2> QED
    BY <2>1, <2>2
<1> QED
  BY <1>1, <1>2 DEF Reauth!WorkingOnIssued

\* Nobody records a wrong proof before or after.
LEMMA RecordingUntouched ==
  ASSUME Reauth!ReauthInv, NEW r \in Request, NEW w \in ReauthWork,
         proof' = [proof EXCEPT ![r] = w],
         proof[r].at # "recording", w.at # "recording"
  PROVE  \A c \in Reauth!Challenge : Reauth!Recording(c)' = Reauth!Recording(c)
  BY TypeParts DEF Reauth!ReauthInv, Reauth!Recording

\* The rows stay as they are.
LEMMA ReauthRowsUntouched ==
  ASSUME Reauth!ReauthAssumption, Reauth!ReauthInv,
         UNCHANGED <<clock, Reauth!account, challenge, grant>>
  PROVE  /\ AccountTypes' /\ challenge' \in [Reauth!Challenge -> ChallengeRow]
         /\ grant' \in [Reauth!Grant -> GrantRow]
         /\ Reauth!GrantsCurrent' /\ Reauth!OneThingEach'
  BY TypeParts DEF Reauth!ReauthInv, Reauth!account, AccountTypes, Reauth!GrantsCurrent,
     Reauth!Current, Reauth!OneThingEach, Reauth!OneThing, Reauth!OpenChallenge,
     Reauth!OpenGrant

LEMMA ReauthRequestMoves ==
  ASSUME Reauth!ReauthAssumption, Reauth!ReauthInv, NEW r \in Request, NEW w \in ReauthWork,
         WorkGiven(w),
         proof' = [proof EXCEPT ![r] = w],
         proof[r].at # "recording", w.at # "recording",
         UNCHANGED <<clock, Reauth!account, challenge, grant, Reauth!history>>
  PROVE  Reauth!ReauthInv'
<1>1. proof' \in [Request -> ReauthWork] /\ Reauth!WorkingOnIssued'
  BY WorkingKept DEF WorkGiven
<1>2. UNCHANGED <<guesses, lost>>
  BY DEF Reauth!history
<1>3. Reauth!TypeOK'
  BY <1>1, <1>2, ReauthRowsUntouched, TypeParts, NextTypes DEF Reauth!ReauthInv
<1>4. Reauth!GuessesAccounted'
  BY <1>2, RecordingUntouched, ReauthRowsUntouched, GuessesKept DEF Reauth!Taking,
     Reauth!Expired
<1> QED
  BY <1>1, <1>3, <1>4, ReauthRowsUntouched DEF Reauth!ReauthInv

\* A wrong proof is compared while the challenge takes proofs.
LEMMA GuessMade ==
  ASSUME Reauth!ReauthAssumption, Reauth!ReauthInv, NEW r \in Request, NEW w \in ReauthWork,
         WorkGiven(w),
         proof' = [proof EXCEPT ![r] = w],
         proof[r].at # "recording", w.at = "recording",
         Reauth!Taking(w.challenge),
         guesses' = [guesses EXCEPT ![w.challenge] = @ + 1],
         UNCHANGED <<clock, Reauth!account, challenge, grant, lost>>
  PROVE  Reauth!ReauthInv'
<1> DEFINE k == w.challenge
<1>0. k \in Reauth!Challenge /\ challenge[k].state = "open" /\ challenge[k].attempts < MaxAttempts
  BY DEF WorkGiven, Reauth!Taking
<1>1. proof' \in [Request -> ReauthWork] /\ Reauth!WorkingOnIssued'
  BY WorkingKept DEF WorkGiven
<1>2. guesses' \in [Reauth!Challenge -> Nat]
  BY <1>0, TypeParts DEF Reauth!ReauthInv
<1>3. Reauth!TypeOK'
  BY <1>1, <1>2, ReauthRowsUntouched, TypeParts, NextTypes DEF Reauth!ReauthInv
<1>4. Reauth!GuessesAccounted'
  <2> SUFFICES ASSUME NEW c \in Reauth!Challenge PROVE Reauth!Accounted(c)'
    BY DEF Reauth!GuessesAccounted
  <2>1. /\ Reauth!Accounted(c) /\ guesses \in [Reauth!Challenge -> Nat] /\ lost \in Nat
        /\ proof \in [Request -> ReauthWork] /\ challenge[c].attempts \in Nat
    BY TypeParts DEF Reauth!ReauthInv, Reauth!GuessesAccounted, ChallengeRow,
       Reauth!ReauthAssumption
  <2>2. CASE c = k
    <3>1. Reauth!Recording(c)' = Reauth!Recording(c) \union {r} /\ r \notin Reauth!Recording(c)
      BY <2>1, <2>2 DEF Reauth!Recording
    <3>2. /\ Cardinality(Reauth!Recording(c))' = Cardinality(Reauth!Recording(c)) + 1
          /\ Cardinality(Reauth!Recording(c)) \in Nat
          /\ Cardinality(Reauth!Recording(c)) + 1 <= Cardinality(Request)
          /\ Cardinality(Request) \in Nat
      <4>1. Reauth!Recording(c) \in SUBSET Request /\ Reauth!Recording(c) \union {r} \in SUBSET Request
        BY DEF Reauth!Recording
      <4>2. Cardinality(Reauth!Recording(c) \union {r}) = Cardinality(Reauth!Recording(c)) + 1
        BY <3>1, <4>1, ReauthOneMore
      <4>3. Cardinality(Reauth!Recording(c) \union {r}) <= Cardinality(Request)
        BY <4>1, RecordingFinite
      <4> QED
        BY <3>1, <4>1, <4>2, <4>3, RecordingFinite
    <3>3. guesses'[c] = guesses[c] + 1
      BY <2>1, <2>2
    <3>4. guesses[c] <= challenge[c].attempts + Cardinality(Reauth!Recording(c)) + lost
      BY ReauthSizes, <2>1, <2>2 DEF Reauth!Accounted
    <3>5. challenge[c].attempts + 1 <= MaxAttempts /\ MaxAttempts \in Nat
      BY <1>0, <2>1, <2>2 DEF Reauth!ReauthAssumption
    <3>6. guesses'[c] <= challenge[c].attempts + Cardinality(Reauth!Recording(c))' + lost
      BY <2>1, <3>2, <3>3, <3>4
    <3>7. guesses'[c] + 1 <= MaxAttempts + Cardinality(Request) + lost
      BY <2>1, <3>2, <3>3, <3>4, <3>5
    <3> QED
      BY ReauthSizes, <1>0, <2>2, <3>6, <3>7 DEF Reauth!Accounted
  <2>3. CASE c # k
    <3>1. Reauth!Recording(c)' = Reauth!Recording(c) /\ guesses'[c] = guesses[c]
      BY <2>1, <2>3 DEF Reauth!Recording
    <3>2. Cardinality(Reauth!Recording(c))' = Cardinality(Reauth!Recording(c))
      BY <3>1
    <3> QED
      BY <2>1, <3>1, <3>2 DEF Reauth!Accounted, Reauth!Taking, Reauth!Expired
  <2> QED
    BY <2>2, <2>3
<1> QED
  BY <1>1, <1>3, <1>4, ReauthRowsUntouched DEF Reauth!ReauthInv

\* The recording of a wrong proof ends: it was counted, lost, or the challenge takes no more.
LEMMA RecordingEnds ==
  ASSUME Reauth!ReauthAssumption, Reauth!ReauthInv, NEW r \in Request, NEW k \in Reauth!Challenge,
         proof[r].at = "recording", proof[r].challenge = k,
         proof' = [proof EXCEPT ![r] = Reauth!Idle],
         UNCHANGED <<clock, Reauth!account, grant, guesses>>,
         \/ /\ Reauth!Taking(k) /\ lost' = lost
            /\ challenge' = [challenge EXCEPT ![k].attempts = @ + 1]
         \/ challenge' = challenge /\ lost' = lost /\ ~ Reauth!Taking(k)
         \/ challenge' = challenge /\ lost' = lost + 1
  PROVE  Reauth!ReauthInv'
<1>0. /\ challenge \in [Reauth!Challenge -> ChallengeRow]
      /\ guesses \in [Reauth!Challenge -> Nat] /\ lost \in Nat
      /\ proof \in [Request -> ReauthWork] /\ AccountTypes /\ grant \in [Reauth!Grant -> GrantRow]
  BY TypeParts DEF Reauth!ReauthInv
<1>1. \A c \in Reauth!Challenge :
        /\ challenge'[c] \in ChallengeRow
        /\ challenge'[c].state = challenge[c].state /\ challenge'[c].session = challenge[c].session
        /\ challenge'[c].created = challenge[c].created
        /\ c # k => challenge'[c] = challenge[c]
  BY <1>0 DEF ChallengeRow, Reauth!Taking, Reauth!ReauthAssumption
<1>2. challenge' \in [Reauth!Challenge -> ChallengeRow]
  BY <1>0, <1>1
<1>3. Reauth!Idle \in ReauthWork /\ WorkGiven(Reauth!Idle)'
  BY EmptyRows DEF WorkGiven, Reauth!Idle
<1>4. proof' \in [Request -> ReauthWork] /\ Reauth!WorkingOnIssued'
  BY <1>1, <1>3, WorkingKept
<1>5. Reauth!TypeOK'
  <2>1. AccountTypes'
    BY <1>0 DEF AccountTypes, Reauth!account
  <2> QED
    BY <1>0, <1>2, <1>4, <2>1, NextTypes
<1>6. Reauth!GrantsCurrent'
  BY DEF Reauth!ReauthInv, Reauth!GrantsCurrent, Reauth!Current, Reauth!account
<1>7. Reauth!OneThingEach'
  BY <1>1 DEF Reauth!ReauthInv, Reauth!OneThingEach, Reauth!OneThing, Reauth!OpenChallenge,
     Reauth!OpenGrant
<1>8. Reauth!GuessesAccounted'
  <2> SUFFICES ASSUME NEW c \in Reauth!Challenge PROVE Reauth!Accounted(c)'
    BY DEF Reauth!GuessesAccounted
  <2>1. /\ Reauth!Accounted(c) /\ challenge[c].attempts \in Nat /\ challenge'[c].attempts \in Nat
        /\ lost' \in Nat /\ lost <= lost' /\ Cardinality(Request) \in Nat
    BY <1>0, <1>1, RecordingFinite DEF Reauth!ReauthInv, Reauth!GuessesAccounted,
       ChallengeRow, Reauth!ReauthAssumption
  <2>2. /\ guesses'[c] = guesses[c] /\ guesses[c] \in Nat
        /\ challenge'[c].state = "none" => guesses'[c] = 0
        /\ guesses'[c] + 1 <= MaxAttempts + Cardinality(Request) + lost'
    BY ReauthSizes, <1>0, <1>1, <2>1 DEF Reauth!Accounted, Reauth!ReauthAssumption
  <2>3. CASE c = k
    <3>1. Reauth!Recording(c)' = Reauth!Recording(c) \ {r} /\ r \in Reauth!Recording(c)
      BY <1>0, <2>3 DEF Reauth!Recording, Reauth!Idle
    <3>2. /\ Cardinality(Reauth!Recording(c))' = Cardinality(Reauth!Recording(c)) - 1
          /\ Cardinality(Reauth!Recording(c)) \in Nat
      <4>1. Reauth!Recording(c) \in SUBSET Request
        BY DEF Reauth!Recording
      <4>2. Cardinality(Reauth!Recording(c) \ {r}) = Cardinality(Reauth!Recording(c)) - 1
        BY <3>1, <4>1, OneLess
      <4> QED
        BY <3>1, <4>1, <4>2, RecordingFinite
    <3>3. CASE Reauth!Taking(k) /\ lost' = lost /\ challenge' = [challenge EXCEPT ![k].attempts = @ + 1]
      <4>1. challenge'[c].attempts = challenge[c].attempts + 1
        BY <1>0, <2>3, <3>3 DEF ChallengeRow
      <4>2. guesses[c] <= challenge[c].attempts + Cardinality(Reauth!Recording(c)) + lost
        BY ReauthSizes, <2>1, <2>3, <3>3 DEF Reauth!Accounted
      <4>3. guesses'[c] <= challenge'[c].attempts + Cardinality(Reauth!Recording(c))' + lost'
        BY <2>1, <2>2, <3>2, <3>3, <4>1, <4>2
      <4> QED
        BY ReauthSizes, <2>2, <4>3 DEF Reauth!Accounted
    <3>4. CASE challenge' = challenge /\ lost' = lost /\ ~ Reauth!Taking(k)
      BY ReauthSizes, <2>2, <2>3, <3>4 DEF Reauth!Accounted, Reauth!Taking, Reauth!Expired
    <3>5. CASE challenge' = challenge /\ lost' = lost + 1
      <4>1. Reauth!Taking(c)' => Reauth!Taking(c)
        BY <3>5 DEF Reauth!Taking, Reauth!Expired
      <4>2. Reauth!Taking(c)' => guesses'[c] <= challenge'[c].attempts + Cardinality(Reauth!Recording(c))' + lost'
        BY ReauthSizes, <1>0, <2>1, <2>2, <3>2, <3>5, <4>1 DEF Reauth!Accounted
      <4> QED
        BY ReauthSizes, <2>2, <4>2 DEF Reauth!Accounted
    <3> QED
      BY <3>3, <3>4, <3>5
  <2>4. CASE c # k
    <3>1. Reauth!Recording(c)' = Reauth!Recording(c)
      BY <1>0, <2>4 DEF Reauth!Recording, Reauth!Idle
    <3>2. /\ Cardinality(Reauth!Recording(c))' = Cardinality(Reauth!Recording(c))
          /\ Cardinality(Reauth!Recording(c)) \in Nat
      BY <3>1, RecordingFinite DEF Reauth!Recording
    <3>3. challenge'[c] = challenge[c] /\ (Reauth!Taking(c)' <=> Reauth!Taking(c))
      BY <1>1, <2>4 DEF Reauth!Taking, Reauth!Expired
    <3>4. Reauth!Taking(c)' => guesses'[c] <= challenge'[c].attempts + Cardinality(Reauth!Recording(c))' + lost'
      BY ReauthSizes, <1>0, <2>1, <2>2, <3>2, <3>3 DEF Reauth!Accounted
    <3> QED
      BY ReauthSizes, <2>2, <3>4 DEF Reauth!Accounted
  <2> QED
    BY <2>3, <2>4
<1> QED
  BY <1>4, <1>5, <1>6, <1>7, <1>8 DEF Reauth!ReauthInv

\* A callback is claimed, verified or failed: the rest of its row stays.
LEMMA CallbackMoves ==
  ASSUME Reauth!ReauthAssumption, Reauth!ReauthInv, NEW r \in Request, NEW w \in ReauthWork,
         WorkGiven(w),
         proof' = [proof EXCEPT ![r] = w],
         proof[r].at # "recording", w.at \notin {"recording", "proving"},
         NEW k \in Reauth!Challenge, NEW row \in ChallengeRow,
         challenge' = [challenge EXCEPT ![k] = row],
         row.state = challenge[k].state, row.session = challenge[k].session,
         row.attempts = challenge[k].attempts, row.created = challenge[k].created,
         UNCHANGED <<clock, Reauth!account, grant, Reauth!history>>
  PROVE  Reauth!ReauthInv'
<1>0. challenge \in [Reauth!Challenge -> ChallengeRow] /\ AccountTypes /\ grant \in [Reauth!Grant -> GrantRow]
  BY TypeParts DEF Reauth!ReauthInv
<1>1. \A c \in Reauth!Challenge :
        /\ challenge'[c].state = challenge[c].state /\ challenge'[c].session = challenge[c].session
        /\ challenge'[c].attempts = challenge[c].attempts
        /\ challenge'[c].created = challenge[c].created
  BY <1>0
<1>2. challenge' \in [Reauth!Challenge -> ChallengeRow]
  BY <1>0
<1>3. WorkGiven(w)'
  BY <1>1 DEF WorkGiven
<1>4. proof' \in [Request -> ReauthWork] /\ Reauth!WorkingOnIssued'
  BY <1>1, <1>3, WorkingKept
<1>5. Reauth!TypeOK'
  <2>1. AccountTypes' /\ guesses' \in [Reauth!Challenge -> Nat] /\ lost' \in Nat
    BY TypeParts DEF Reauth!ReauthInv, AccountTypes, Reauth!account, Reauth!history
  <2> QED
    BY <1>0, <1>2, <1>4, <2>1, NextTypes
<1>6. Reauth!GrantsCurrent'
  BY DEF Reauth!ReauthInv, Reauth!GrantsCurrent, Reauth!Current, Reauth!account
<1>7. Reauth!OneThingEach'
  BY <1>1 DEF Reauth!ReauthInv, Reauth!OneThingEach, Reauth!OneThing, Reauth!OpenChallenge,
     Reauth!OpenGrant
<1>8. Reauth!GuessesAccounted'
  BY <1>1, <1>2, RecordingUntouched, GuessesKept DEF Reauth!history, Reauth!Taking,
     Reauth!Expired
<1> QED
  BY <1>4, <1>5, <1>6, <1>7, <1>8 DEF Reauth!ReauthInv

-----------------------------------------------------------------------------
(* The proofs and callbacks.                                               *)

LEMMA IdleGiven ==
  Reauth!ReauthAssumption =>
    Reauth!Idle \in ReauthWork /\ WorkGiven(Reauth!Idle) /\ Reauth!Idle.at = "idle"
  BY EmptyRows DEF WorkGiven, Reauth!Idle

\* A request that gives up.
LEMMA EndInv ==
  ASSUME Reauth!ReauthAssumption, Reauth!ReauthInv, NEW r \in Request, proof[r].at # "recording",
         Reauth!End(r), UNCHANGED <<clock, Reauth!account, challenge, grant, Reauth!history>>
  PROVE  Reauth!ReauthInv'
  BY IdleGiven, ReauthRequestMoves DEF Reauth!End, Reauth!Goto

LEMMA ProveInv ==
  ASSUME Reauth!ReauthAssumption, Reauth!ReauthInv, NEW r \in Request, NEW c \in Reauth!Challenge,
         NEW s \in Session,
         Reauth!Prove(r, c, s)
  PROVE  Reauth!ReauthInv'
<1> DEFINE work == [Reauth!Idle EXCEPT !.at = "proving", !.challenge = c, !.session = s]
           Begins(w) == w.at = "proving" /\ w.challenge = c /\ w.session = s
<1>1. /\ proof[r].at = "idle" /\ challenge[c].state = "open" /\ challenge[c].session = s
      /\ UNCHANGED <<clock, Reauth!account, challenge, grant, Reauth!history>>
  BY DEF Reauth!Prove, Reauth!Provable, Reauth!OpenChallenge
<1>2. challenge[c] \in ChallengeRow /\ hash \in 0 .. MaxOwnHashes
  BY TypeParts DEF Reauth!ReauthInv, AccountTypes
<1>3. work \in ReauthWork /\ Begins(work)
  BY EmptyRows DEF ReauthWork
<1>4. \/ Reauth!Goto(r, [work EXCEPT !.hash = hash])
      \/ \E x \in OwnSubject \union {Nothing} : Reauth!Goto(r, [work EXCEPT !.subject = x])
  <2>1. challenge[c].method \in {"apple", "google", "password"}
        /\ challenge[c].subject \in OwnSubject \union {Nothing}
    BY <1>2 DEF ChallengeRow, Reauth!Method, Reauth!External
  <2> QED
    BY <2>1 DEF Reauth!Prove
<1> HIDE DEF work
<1>5. [work EXCEPT !.hash = hash] \in ReauthWork /\ Begins([work EXCEPT !.hash = hash])
  BY <1>2, <1>3 DEF ReauthWork
<1>6. ASSUME NEW x \in OwnSubject \union {Nothing}
      PROVE  [work EXCEPT !.subject = x] \in ReauthWork /\ Begins([work EXCEPT !.subject = x])
  BY <1>3 DEF ReauthWork
<1>7. PICK w \in ReauthWork : Begins(w) /\ Reauth!Goto(r, w)
  BY <1>4, <1>5, <1>6
<1>8. WorkGiven(w)
  BY <1>1, <1>7 DEF WorkGiven
<1> QED
  BY <1>1, <1>7, <1>8, ReauthRequestMoves DEF Reauth!Goto

LEMMA ProveWronglyInv ==
  ASSUME Reauth!ReauthAssumption, Reauth!ReauthInv, NEW r \in Request, NEW c \in Reauth!Challenge,
         NEW s \in Session,
         Reauth!ProveWrongly(r, c, s)
  PROVE  Reauth!ReauthInv'
<1> DEFINE w == [Reauth!Idle EXCEPT !.at = "recording", !.challenge = c, !.session = s]
<1>1. /\ proof[r].at = "idle" /\ challenge[c].state = "open" /\ challenge[c].session = s
      /\ Reauth!Taking(c)
      /\ UNCHANGED <<clock, Reauth!account, challenge, grant, lost>>
      /\ guesses' = [guesses EXCEPT ![c] = @ + 1]
      /\ proof' = [proof EXCEPT ![r] = w]
  BY DEF Reauth!ProveWrongly, Reauth!Provable, Reauth!OpenChallenge, Reauth!Taking, Reauth!Goto
<1>2. w \in ReauthWork /\ w.at = "recording" /\ w.challenge = c /\ w.session = s
  BY EmptyRows DEF ReauthWork
<1>3. WorkGiven(w)
  BY <1>1, <1>2 DEF WorkGiven
<1> HIDE DEF w
<1> QED
  BY <1>1, <1>2, <1>3, GuessMade

LEMMA RecordInv ==
  ASSUME Reauth!ReauthAssumption, Reauth!ReauthInv, NEW r \in Request,
         Reauth!RecordFailure(r) \/ Reauth!RecordFails(r)
  PROVE  Reauth!ReauthInv'
<1> DEFINE k == proof[r].challenge
<1>1. /\ proof[r].at = "recording" /\ k \in Reauth!Challenge
      /\ challenge[k].state = "open" => challenge[k].session = proof[r].session
  BY DEF Reauth!RecordFailure, Reauth!RecordFails, Reauth!ReauthInv, Reauth!WorkingOnIssued,
     Reauth!Working
<1>2. Reauth!Counted(k, proof[r].session) <=> Reauth!Taking(k)
  BY <1>1 DEF Reauth!Counted, Reauth!Taking, Reauth!OpenChallenge
<1>3. UNCHANGED <<clock, Reauth!account, grant, guesses>> /\ proof' = [proof EXCEPT ![r] = Reauth!Idle]
  BY DEF Reauth!RecordFailure, Reauth!RecordFails, Reauth!End, Reauth!Goto, Reauth!history
<1>4. \/ /\ Reauth!Taking(k) /\ lost' = lost
         /\ challenge' = [challenge EXCEPT ![k].attempts = @ + 1]
      \/ challenge' = challenge /\ lost' = lost /\ ~ Reauth!Taking(k)
      \/ challenge' = challenge /\ lost' = lost + 1
  BY <1>2 DEF Reauth!RecordFailure, Reauth!RecordFails, Reauth!history
<1> QED
  BY <1>1, <1>3, <1>4, RecordingEnds

LEMMA ClaimCallbackInv ==
  ASSUME Reauth!ReauthAssumption, Reauth!ReauthInv, NEW r \in Request, NEW c \in Reauth!Challenge,
         Reauth!ClaimCallback(r, c)
  PROVE  Reauth!ReauthInv'
<1> DEFINE w == [Reauth!Idle EXCEPT !.at = "exchanging", !.challenge = c, !.session = challenge[c].session]
           row == [challenge[c] EXCEPT !.callback = "exchanging"]
<1>1. /\ proof[r].at = "idle" /\ challenge[c].state = "open"
      /\ challenge' = [challenge EXCEPT ![c] = row]
      /\ proof' = [proof EXCEPT ![r] = w]
      /\ UNCHANGED <<clock, Reauth!account, grant, Reauth!history>>
      /\ challenge[c] \in ChallengeRow
  BY TypeParts DEF Reauth!ClaimCallback, Reauth!Goto, Reauth!ReauthInv
<1>2. w \in ReauthWork /\ w.at = "exchanging" /\ w.challenge = c
  BY <1>1, EmptyRows DEF ReauthWork, ChallengeRow
<1>3. /\ row \in ChallengeRow /\ row.state = challenge[c].state
      /\ row.session = challenge[c].session /\ row.attempts = challenge[c].attempts
      /\ row.created = challenge[c].created
  BY <1>1 DEF ChallengeRow
<1>4. WorkGiven(w)
  BY <1>1, <1>2 DEF WorkGiven
<1> HIDE DEF w, row
<1> QED
  BY <1>1, <1>2, <1>3, <1>4, CallbackMoves

LEMMA ExchangeInv ==
  ASSUME Reauth!ReauthAssumption, Reauth!ReauthInv, NEW r \in Request, Reauth!Exchange(r)
  PROVE  Reauth!ReauthInv'
<1>1. PICK w \in {[proof[r] EXCEPT !.at = "failing"]}
                 \union {[proof[r] EXCEPT !.at = "completing", !.subject = x] : x \in OwnSubject} :
        proof' = [proof EXCEPT ![r] = w]
  BY DEF Reauth!Exchange, Reauth!Goto
<1>2. proof[r] \in ReauthWork /\ Reauth!Working(r) /\ proof[r].at = "exchanging"
      /\ UNCHANGED <<clock, Reauth!account, challenge, grant, Reauth!history>>
  BY TypeParts DEF Reauth!Exchange, Reauth!ReauthInv, Reauth!WorkingOnIssued
<1>3. w \in ReauthWork /\ w.at \in {"failing", "completing"} /\ w.challenge = proof[r].challenge
  BY <1>1, <1>2 DEF ReauthWork
<1>4. WorkGiven(w)
  BY <1>2, <1>3 DEF WorkGiven, Reauth!Working
<1> QED
  BY <1>1, <1>2, <1>3, <1>4, ReauthRequestMoves

LEMMA CompleteCallbackInv ==
  ASSUME Reauth!ReauthAssumption, Reauth!ReauthInv, NEW r \in Request, Reauth!CompleteCallback(r)
  PROVE  Reauth!ReauthInv'
<1> DEFINE c == proof[r].challenge
           row == [challenge[c] EXCEPT !.callback = "verified", !.subject = proof[r].subject]
           w == [proof[r] EXCEPT !.at = "failing"]
<1>1. /\ proof[r] \in ReauthWork /\ Reauth!Working(r) /\ proof[r].at = "completing"
      /\ UNCHANGED <<clock, Reauth!account, grant, Reauth!history>>
      /\ c \in Reauth!Challenge /\ challenge[c].state # "none" /\ challenge[c] \in ChallengeRow
      /\ challenge \in [Reauth!Challenge -> ChallengeRow]
  BY TypeParts DEF Reauth!CompleteCallback, Reauth!ReauthInv, Reauth!WorkingOnIssued,
     Reauth!Working
<1>2. \/ challenge' = [challenge EXCEPT ![c] = row] /\ proof' = [proof EXCEPT ![r] = Reauth!Idle]
      \/ challenge' = challenge /\ proof' = [proof EXCEPT ![r] = w]
  BY <1>1 DEF Reauth!CompleteCallback, Reauth!End, Reauth!Goto
<1>3. /\ row \in ChallengeRow /\ row.state = challenge[c].state
      /\ row.session = challenge[c].session /\ row.attempts = challenge[c].attempts
      /\ row.created = challenge[c].created
  BY <1>1 DEF ChallengeRow, ReauthWork
<1>4. w \in ReauthWork /\ w.at = "failing" /\ w.challenge = c
  BY <1>1 DEF ReauthWork
<1>5. WorkGiven(w)
  BY <1>1, <1>4 DEF WorkGiven
<1> HIDE DEF row, w
<1>6. CASE challenge' = [challenge EXCEPT ![c] = row] /\ proof' = [proof EXCEPT ![r] = Reauth!Idle]
  BY <1>1, <1>3, <1>6, IdleGiven, CallbackMoves
<1>7. CASE challenge' = challenge /\ proof' = [proof EXCEPT ![r] = w]
  BY <1>1, <1>4, <1>5, <1>7, ReauthRequestMoves
<1> QED
  BY <1>2, <1>6, <1>7

LEMMA FailCallbackInv ==
  ASSUME Reauth!ReauthAssumption, Reauth!ReauthInv, NEW r \in Request, Reauth!FailCallback(r)
  PROVE  Reauth!ReauthInv'
<1> DEFINE c == proof[r].challenge
           row == [challenge[c] EXCEPT !.callback = IF @ = "exchanging" THEN "failed" ELSE @]
<1>1. /\ proof[r].at = "failing" /\ proof' = [proof EXCEPT ![r] = Reauth!Idle]
      /\ UNCHANGED <<clock, Reauth!account, grant, Reauth!history>>
      /\ c \in Reauth!Challenge /\ challenge[c] \in ChallengeRow
      /\ challenge \in [Reauth!Challenge -> ChallengeRow]
  BY TypeParts DEF Reauth!FailCallback, Reauth!End, Reauth!Goto, Reauth!ReauthInv,
     Reauth!WorkingOnIssued, Reauth!Working
<1>2. challenge' = [challenge EXCEPT ![c] = row] \/ challenge' = challenge
  BY <1>1 DEF Reauth!FailCallback
<1>3. /\ row \in ChallengeRow /\ row.state = challenge[c].state
      /\ row.session = challenge[c].session /\ row.attempts = challenge[c].attempts
      /\ row.created = challenge[c].created
  BY <1>1 DEF ChallengeRow
<1> HIDE DEF row
<1>4. CASE challenge' = [challenge EXCEPT ![c] = row]
  BY <1>1, <1>3, <1>4, IdleGiven, CallbackMoves
<1>5. CASE challenge' = challenge
  BY <1>1, <1>5, IdleGiven, ReauthRequestMoves
<1> QED
  BY <1>2, <1>4, <1>5

\* A proof that holds: the challenge is used up, and its session has one open grant.
LEMMA GrantGiven ==
  ASSUME Reauth!ReauthAssumption, Reauth!ReauthInv, NEW r \in Request, proof[r].at = "proving",
         NEW c \in Reauth!Challenge, NEW s \in Session, NEW g \in Reauth!Grant, NEW row \in GrantRow,
         Reauth!OpenChallenge(c, s), login[s] = "open",
         row.session = s, row.method = "password" => row.hash = hash,
         proof' = [proof EXCEPT ![r] = Reauth!Idle],
         challenge' = [challenge EXCEPT ![c].state = "consumed"],
         grant[g].state = "none", grant' = [Reauth!GrantsClosed(s) EXCEPT ![g] = row],
         UNCHANGED <<clock, Reauth!account, Reauth!history>>
  PROVE  Reauth!ReauthInv'
<1>0. /\ challenge \in [Reauth!Challenge -> ChallengeRow] /\ grant \in [Reauth!Grant -> GrantRow]
      /\ AccountTypes /\ Reauth!Idle \in ReauthWork
  BY TypeParts, EmptyRows DEF Reauth!ReauthInv
<1>1. /\ challenge' \in [Reauth!Challenge -> ChallengeRow] /\ challenge'[c].state = "consumed"
      /\ \A d \in Reauth!Challenge \ {c} : challenge'[d] = challenge[d]
  BY <1>0 DEF ChallengeRow
<1>2. /\ grant'[g] = row
      /\ \A h \in Reauth!Grant \ {g} :
           /\ grant'[h] \in GrantRow
           /\ grant'[h].state = "open" => grant'[h] = grant[h] /\ grant[h].session # s
  BY <1>0 DEF Reauth!GrantsClosed, GrantRow, Reauth!OpenGrant
<1>3. grant' \in [Reauth!Grant -> GrantRow]
  BY <1>2 DEF Reauth!GrantsClosed
<1>4. proof' \in [Request -> ReauthWork] /\ Reauth!WorkingOnIssued'
  <2>1. WorkGiven(Reauth!Idle)'
    BY DEF WorkGiven, Reauth!Idle
  <2> QED
    BY <1>0, <1>1, <2>1, WorkingKept DEF Reauth!OpenChallenge
<1>5. Reauth!TypeOK'
  <2>1. AccountTypes' /\ guesses' \in [Reauth!Challenge -> Nat] /\ lost' \in Nat
    BY TypeParts DEF Reauth!ReauthInv, AccountTypes, Reauth!account, Reauth!history
  <2> QED
    BY <1>1, <1>3, <1>4, <2>1, NextTypes
<1>6. Reauth!GrantsCurrent'
  <2> SUFFICES ASSUME NEW h \in Reauth!Grant PROVE Reauth!Current(h)'
    BY DEF Reauth!GrantsCurrent
  <2>1. CASE h = g
    BY <1>2, <2>1 DEF Reauth!Current, Reauth!account
  <2>2. CASE h # g
    BY <1>2, <2>2 DEF Reauth!ReauthInv, Reauth!GrantsCurrent, Reauth!Current, Reauth!account
  <2> QED
    BY <2>1, <2>2
<1>7. Reauth!OneThingEach'
  <2> SUFFICES ASSUME NEW q \in Session PROVE Reauth!OneThing(q)'
    BY DEF Reauth!OneThingEach
  <2>0. Reauth!OneThing(q) /\ Reauth!OneThing(s)
    BY DEF Reauth!ReauthInv, Reauth!OneThingEach
  <2>1. CASE q = s
    BY <1>1, <1>2, <2>0, <2>1 DEF Reauth!OneThing, Reauth!OpenChallenge, Reauth!OpenGrant
  <2>2. CASE q # s
    BY <1>1, <1>2, <2>0, <2>2 DEF Reauth!OneThing, Reauth!OpenChallenge, Reauth!OpenGrant
  <2> QED
    BY <2>1, <2>2
<1>8. Reauth!GuessesAccounted'
  <2>1. \A d \in Reauth!Challenge : Reauth!Recording(d)' = Reauth!Recording(d)
    <3>1. Reauth!Idle.at # "recording"
      BY DEF Reauth!Idle
    <3> QED
      BY <1>0, <3>1, RecordingUntouched
  <2> QED
    BY <1>1, <2>1, GuessesKept DEF Reauth!history, Reauth!Taking, Reauth!Expired
<1> QED
  BY <1>4, <1>5, <1>6, <1>7, <1>8 DEF Reauth!ReauthInv

LEMMA CompleteReauthInv ==
  ASSUME Reauth!ReauthAssumption, Reauth!ReauthInv, NEW r \in Request, Reauth!CompleteReauth(r)
  PROVE  Reauth!ReauthInv'
<1> DEFINE c == proof[r].challenge
           s == proof[r].session
           m == challenge[c].method
           valid == Reauth!Locked(s) /\ Reauth!OpenChallenge(c, s) /\ challenge[c].attempts < MaxAttempts
                    /\ ~Reauth!Expired(c) /\ Reauth!Available(m)
<1>1. /\ proof[r].at = "proving" /\ c \in Reauth!Challenge /\ proof[r] \in ReauthWork
      /\ challenge[c] \in ChallengeRow /\ clock \in Nat /\ ReauthTtl \in Nat
      /\ challenge[c].state # "none"
      /\ UNCHANGED <<clock, Reauth!account, lost>>
  BY TypeParts DEF Reauth!CompleteReauth, Reauth!ReauthInv, Reauth!WorkingOnIssued,
     Reauth!Working, AccountTypes, Reauth!ReauthAssumption
<1>2. CASE ~ valid
  <2>1. Reauth!End(r) /\ UNCHANGED <<challenge, grant, guesses>>
    BY <1>2 DEF Reauth!CompleteReauth
  <2> QED
    BY <1>1, <2>1, EndInv DEF Reauth!history
<1>3. CASE valid /\ ~ Reauth!ProofHolds(r)
  <2> DEFINE w == [proof[r] EXCEPT !.at = "recording"]
  <2>1. /\ proof' = [proof EXCEPT ![r] = w]
        /\ guesses' = [guesses EXCEPT ![c] = @ + 1]
        /\ UNCHANGED <<challenge, grant>>
    BY <1>3 DEF Reauth!CompleteReauth, Reauth!Goto
  <2>2. w \in ReauthWork /\ w.at = "recording" /\ w.challenge = c /\ w.session = s
    BY <1>1 DEF ReauthWork
  <2>3. WorkGiven(w) /\ Reauth!Taking(c)
    BY <1>1, <1>3, <2>2 DEF WorkGiven, Reauth!Taking, Reauth!OpenChallenge
  <2> HIDE DEF w
  <2> QED
    BY <1>1, <2>1, <2>2, <2>3, GuessMade
<1>4. CASE valid /\ Reauth!ProofHolds(r)
  <2> DEFINE row == [state |-> "open", session |-> s, method |-> m,
                     subject |-> proof[r].subject, expires |-> clock + ReauthTtl,
                     hash |-> proof[r].hash]
  <2>writes. /\ challenge' = [challenge EXCEPT ![c].state = "consumed"]
             /\ \E g \in Reauth!Grant : grant[g].state = "none" /\ grant' = [Reauth!GrantsClosed(s) EXCEPT ![g] = row]
             /\ proof' = [proof EXCEPT ![r] = Reauth!Idle]
             /\ UNCHANGED guesses
    BY <1>4 DEF Reauth!CompleteReauth, Reauth!End, Reauth!Goto
  <2>row. row \in GrantRow /\ row.session = s /\ row.method = m /\ row.hash = proof[r].hash
    BY <1>1 DEF GrantRow, ChallengeRow, ReauthWork
  <2>3. row.method = "password" => row.hash = hash
    BY <1>4, <2>row DEF Reauth!ProofHolds
  <2>4. s \in Session /\ login[s] = "open" /\ Reauth!OpenChallenge(c, s)
    BY <1>4 DEF Reauth!Locked
  <2>grant. PICK g \in Reauth!Grant : grant[g].state = "none" /\ grant' = [Reauth!GrantsClosed(s) EXCEPT ![g] = row]
    BY <2>writes
  <2> HIDE DEF row, c, s
  <2> QED
    BY <1>1, <2>writes, <2>row, <2>3, <2>4, <2>grant, GrantGiven DEF Reauth!history
<1> QED
  BY <1>2, <1>3, <1>4

-----------------------------------------------------------------------------
(* A challenge is issued, the account is deleted.                          *)

LEMMA IssueChallengeInv ==
  ASSUME Reauth!ReauthAssumption, Reauth!ReauthInv, NEW s \in Session, NEW m \in Reauth!Method,
         Reauth!IssueChallenge(s, m)
  PROVE  Reauth!ReauthInv'
<1> DEFINE row == [Reauth!NoChallenge EXCEPT !.state = "open", !.session = s, !.method = m,
                     !.created = clock, !.callback = IF m = "google" THEN "pending" ELSE "none"]
<1>0. /\ challenge \in [Reauth!Challenge -> ChallengeRow] /\ grant \in [Reauth!Grant -> GrantRow]
      /\ AccountTypes /\ Reauth!NoChallenge \in ChallengeRow /\ Reauth!NoGrant \in GrantRow
      /\ proof \in [Request -> ReauthWork] /\ guesses \in [Reauth!Challenge -> Nat] /\ lost \in Nat
  BY TypeParts, EmptyRows DEF Reauth!ReauthInv
<1>1. UNCHANGED <<clock, Reauth!account, proof, guesses, lost>>
  BY DEF Reauth!IssueChallenge, Reauth!history
<1>2. PICK c \in Reauth!Challenge :
        /\ challenge[c].state = "none"
        /\ challenge' = [d \in Reauth!Challenge |->
             CASE d = c -> row
               [] d # c /\ Reauth!OldChallenge(d) -> [Reauth!NoChallenge EXCEPT !.state = "purged"]
               [] d # c /\ ~Reauth!OldChallenge(d) /\ Reauth!OpenChallenge(d, s) ->
                    Reauth!CallbackClosed([challenge[d] EXCEPT !.state = "consumed"])
               [] OTHER -> challenge[d]]
  BY DEF Reauth!IssueChallenge
<1>3. row \in ChallengeRow /\ row.state = "open" /\ row.session = s /\ row.attempts = 0
  BY <1>0 DEF ChallengeRow, AccountTypes, Reauth!NoChallenge
<1>4. /\ challenge'[c] = row
      /\ \A d \in Reauth!Challenge \ {c} :
           /\ challenge'[d] \in ChallengeRow
           /\ \/ challenge'[d] = challenge[d] /\ ~ Reauth!OpenChallenge(d, s)
              \/ challenge'[d].state \in {"consumed", "purged"}
  <2>1. challenge'[c] = row
    BY <1>2
  <2>2. ASSUME NEW d \in Reauth!Challenge \ {c}
        PROVE  /\ challenge'[d] \in ChallengeRow
               /\ \/ challenge'[d] = challenge[d] /\ ~ Reauth!OpenChallenge(d, s)
                  \/ challenge'[d].state \in {"consumed", "purged"}
    <3>1. CASE Reauth!OldChallenge(d)
      <4>1. challenge'[d] = [Reauth!NoChallenge EXCEPT !.state = "purged"]
        BY <1>2, <3>1
      <4> QED
        BY <1>0, <4>1 DEF ChallengeRow
    <3>2. CASE ~ Reauth!OldChallenge(d) /\ Reauth!OpenChallenge(d, s)
      <4>1. challenge'[d] = Reauth!CallbackClosed([challenge[d] EXCEPT !.state = "consumed"])
        BY <1>2, <3>2
      <4>2. challenge[d] \in ChallengeRow
        BY <1>0
      <4> QED
        BY <4>1, <4>2 DEF Reauth!CallbackClosed, ChallengeRow
    <3>3. CASE ~ Reauth!OldChallenge(d) /\ ~ Reauth!OpenChallenge(d, s)
      BY <1>0, <1>2, <3>3
    <3> QED
      BY <3>1, <3>2, <3>3
  <2> QED
    BY <2>1, <2>2
<1> HIDE DEF row
<1>5. challenge' \in [Reauth!Challenge -> ChallengeRow]
  BY <1>2, <1>3, <1>4
<1>6. /\ grant' \in [Reauth!Grant -> GrantRow]
      /\ \A g \in Reauth!Grant : grant'[g].state = "open" => grant'[g] = grant[g] /\ grant[g].session # s
  BY <1>0 DEF Reauth!IssueChallenge, Reauth!GrantsClosed, Reauth!OpenGrant, GrantRow
<1>7. Reauth!TypeOK'
  <2>1. AccountTypes'
    BY <1>0, <1>1 DEF AccountTypes, Reauth!account
  <2> QED
    BY <1>0, <1>1, <1>5, <1>6, <2>1, NextTypes
<1>8. Reauth!WorkingOnIssued'
  <2> SUFFICES ASSUME NEW q \in Request PROVE Reauth!Working(q)'
    BY DEF Reauth!WorkingOnIssued
  <2>1. Reauth!Working(q)
    BY DEF Reauth!ReauthInv, Reauth!WorkingOnIssued
  <2> QED
    BY <1>1, <1>2, <1>3, <1>4, <2>1 DEF Reauth!Working
<1>9. Reauth!GrantsCurrent'
  BY <1>1, <1>6 DEF Reauth!ReauthInv, Reauth!GrantsCurrent, Reauth!Current, Reauth!account
<1>10. Reauth!OneThingEach'
  <2> SUFFICES ASSUME NEW q \in Session PROVE Reauth!OneThing(q)'
    BY DEF Reauth!OneThingEach
  <2>0. Reauth!OneThing(q)
    BY DEF Reauth!ReauthInv, Reauth!OneThingEach
  <2> QED
    BY <1>3, <1>4, <1>6, <2>0 DEF Reauth!OneThing, Reauth!OpenChallenge, Reauth!OpenGrant
<1>11. Reauth!GuessesAccounted'
  <2>1. \A d \in Reauth!Challenge : Reauth!Recording(d)' = Reauth!Recording(d)
    BY <1>1 DEF Reauth!Recording
  <2> QED
    BY <1>1, <1>2, <1>3, <1>4, <1>5, <2>1, GuessesKept DEF Reauth!Taking, Reauth!Expired
<1> QED
  BY <1>7, <1>8, <1>9, <1>10, <1>11 DEF Reauth!ReauthInv

LEMMA DeleteAccountInv ==
  ASSUME Reauth!ReauthAssumption, Reauth!ReauthInv, NEW s \in Session, NEW g \in Reauth!Grant,
         Reauth!DeleteAccount(s, g)
  PROVE  Reauth!ReauthInv'
<1> USE DEF Reauth!ReauthInv
<1>0. /\ challenge \in [Reauth!Challenge -> ChallengeRow] /\ grant \in [Reauth!Grant -> GrantRow]
      /\ AccountTypes /\ Reauth!NoChallenge \in ChallengeRow /\ Reauth!NoGrant \in GrantRow
      /\ proof \in [Request -> ReauthWork] /\ guesses \in [Reauth!Challenge -> Nat] /\ lost \in Nat
      /\ UNCHANGED <<clock, proof, guesses, lost>>
  BY TypeParts, EmptyRows DEF Reauth!DeleteAccount, Reauth!history
<1>1. /\ challenge' \in [Reauth!Challenge -> ChallengeRow]
      /\ \A c \in Reauth!Challenge : /\ challenge'[c].state # "open"
                                     /\ challenge'[c].state = "none" => challenge[c].state = "none"
  BY <1>0 DEF Reauth!DeleteAccount, Reauth!NoChallenge, ChallengeRow
<1>2. grant' \in [Reauth!Grant -> GrantRow] /\ \A h \in Reauth!Grant : grant'[h].state # "open"
  BY <1>0 DEF Reauth!DeleteAccount, Reauth!NoGrant, GrantRow
<1>3. Reauth!TypeOK'
  <2>1. linked' \in [Reauth!External -> OwnSubject \union {Nothing}]
    BY DEF Reauth!DeleteAccount
  <2>2. login' \in [Session -> {"none", "open", "revoked"}]
    BY DEF Reauth!DeleteAccount
  <2>3. hash' \in 0 .. MaxOwnHashes
    BY DEF Reauth!DeleteAccount, Reauth!NoPassword, Reauth!ReauthAssumption
  <2>4. present' \in BOOLEAN
    BY DEF Reauth!DeleteAccount
  <2>5. AccountTypes'
    BY <1>0, <2>1, <2>2, <2>3, <2>4 DEF AccountTypes
  <2> QED
    BY <1>0, <1>1, <1>2, <2>5, NextTypes
<1>4. Reauth!WorkingOnIssued'
  BY <1>0, <1>1 DEF Reauth!WorkingOnIssued, Reauth!Working
<1>5. Reauth!GrantsCurrent' /\ Reauth!OneThingEach'
  BY <1>1, <1>2 DEF Reauth!GrantsCurrent, Reauth!Current, Reauth!OneThingEach,
     Reauth!OneThing, Reauth!OpenChallenge, Reauth!OpenGrant
<1>6. Reauth!GuessesAccounted'
  <2>1. \A d \in Reauth!Challenge : Reauth!Recording(d)' = Reauth!Recording(d)
    BY <1>0 DEF Reauth!Recording
  <2> QED
    BY <1>0, <1>1, <2>1, GuessesKept DEF Reauth!Taking
<1> QED
  BY <1>3, <1>4, <1>5, <1>6

LEMMA ReauthStepInv ==
  ASSUME Reauth!ReauthAssumption
  PROVE  Reauth!ReauthInv /\ [Reauth!Next]_Reauth!vars => Reauth!ReauthInv'
<1> SUFFICES ASSUME Reauth!ReauthInv, [Reauth!Next]_Reauth!vars PROVE Reauth!ReauthInv'
  OBVIOUS
<1>1. CASE UNCHANGED Reauth!vars
  BY <1>1, TypeParts, AccountSteps DEF Reauth!vars, Reauth!account, Reauth!history,
     Reauth!ReauthInv, AccountTypes, Reauth!ReauthAssumption
<1>2. ASSUME NEW r \in Request, Reauth!AbortProof(r) PROVE Reauth!ReauthInv'
  BY <1>2, EndInv DEF Reauth!AbortProof
<1>3. CASE Reauth!Next
  BY <1>2, <1>3, AccountInv, IssueChallengeInv, ProveInv, ProveWronglyInv, ClaimCallbackInv,
     RecordInv, CompleteReauthInv, ExchangeInv, CompleteCallbackInv, FailCallbackInv,
     DeleteAccountInv DEF Reauth!Next
<1> QED
  BY <1>1, <1>3

-----------------------------------------------------------------------------
(* The theorems.                                                           *)

\* Challenges, grants and the requests that work on them agree with the account
\* (what the transactions of accountDeletionReauth.repository.js keep).
THEOREM ReauthInvariant == Reauth!Spec => []Reauth!ReauthInv
<1>1. Reauth!Init => Reauth!ReauthInv
  BY ReauthInitInv, AccountsAssumption
<1>2. Reauth!ReauthInv /\ [Reauth!Next]_Reauth!vars => Reauth!ReauthInv'
  BY ReauthStepInv, AccountsAssumption
<1> QED
  BY <1>1, <1>2, PTL DEF Reauth!Spec

\* The password an account is deleted with was not reset since, although the
\* deletion compares no hash: a reset revokes the sessions that hold grants.
THEOREM DeletionsAreCurrent == Reauth!Spec => DeletedWithCurrentProof
<1> DEFINE Deletion ==
             present /\ ~present' =>
               \E s \in Session, g \in Reauth!Grant :
                 /\ login[s] = "open" /\ Reauth!OpenGrant(g, s) /\ grant[g].expires > clock
                 /\ IF grant[g].method = "password" THEN grant[g].hash = hash
                    ELSE linked[grant[g].method] = grant[g].subject
<1>1. Reauth!ReauthInv /\ [Reauth!Next]_Reauth!vars => [Deletion]_Reauth!vars
  <2> SUFFICES ASSUME Reauth!ReauthInv, Reauth!Next, present, ~present' PROVE Deletion
    OBVIOUS
  <2>1. PICK s \in Session, g \in Reauth!Grant : Reauth!DeleteAccount(s, g)
    BY ZenonT(40) DEF Reauth!Next, Reauth!Tick, Reauth!ResetPassword, Reauth!SignIn, Reauth!Logout,
       Reauth!Link, Reauth!Unlink, Reauth!IssueChallenge, Reauth!Prove, Reauth!ProveWrongly,
       Reauth!RecordFailure, Reauth!RecordFails, Reauth!CompleteReauth,
       Reauth!ClaimCallback, Reauth!Exchange, Reauth!CompleteCallback, Reauth!FailCallback,
       Reauth!AbortProof, Reauth!account
  <2>2. login[s] = "open" /\ Reauth!OpenGrant(g, s) /\ grant[g].expires > clock
    BY <2>1 DEF Reauth!DeleteAccount, Reauth!Locked, Reauth!Usable
  <2>3. grant[g].method = "password" => grant[g].hash = hash
    BY <2>2 DEF Reauth!ReauthInv, Reauth!GrantsCurrent, Reauth!Current, Reauth!OpenGrant
  <2>4. grant[g].method # "password" => linked[grant[g].method] = grant[g].subject
    BY <2>1 DEF Reauth!DeleteAccount, Reauth!Usable
  <2> QED
    BY <2>2, <2>3, <2>4
<1>2. Reauth!Spec => [][Deletion]_Reauth!vars
  BY <1>1, ReauthInvariant, PTL DEF Reauth!Spec
<1> QED
  BY <1>2 DEF DeletedWithCurrentProof, Reauth!DeletedWithCurrentProof

\* A session has an open challenge or an open grant, never two of them
\* (issueAccountDeletionChallenge, completeAccountDeletionReauth).
THEOREM OneThingAtATime == Reauth!Spec => []ChallengeOrGrant
<1>1. ASSUME NEW S, \A x, y \in S : x = y
      PROVE  Cardinality(S) \in {0, 1} /\ (Cardinality(S) = 1 => S # {})
  <2>1. CASE S = {}
    BY <2>1, FS_EmptySet
  <2>2. CASE S # {}
    <3>1. PICK x \in S : S = {x}
      BY <1>1, <2>2
    <3> QED
      BY <2>2, <3>1, FS_Singleton
  <2> QED
    BY <2>1, <2>2
<1>2. Reauth!ReauthInv => ChallengeOrGrant
  <2> SUFFICES ASSUME Reauth!ReauthInv, NEW s \in Session
               PROVE  Cardinality({c \in Reauth!Challenge : Reauth!OpenChallenge(c, s)})
                        + Cardinality({g \in Reauth!Grant : Reauth!OpenGrant(g, s)}) <= 1
    BY ReauthSizes DEF ChallengeOrGrant, Reauth!ChallengeOrGrant
  <2> DEFINE C == {c \in Reauth!Challenge : Reauth!OpenChallenge(c, s)}
             G == {g \in Reauth!Grant : Reauth!OpenGrant(g, s)}
  <2>1. (\A x, y \in C : x = y) /\ (\A x, y \in G : x = y) /\ (C = {} \/ G = {})
    BY DEF Reauth!ReauthInv, Reauth!OneThingEach, Reauth!OneThing
  <2> HIDE DEF C, G
  <2>2. Cardinality(C) \in {0, 1} /\ (Cardinality(C) = 1 => C # {})
    BY <1>1, <2>1
  <2>3. Cardinality(G) \in {0, 1} /\ (Cardinality(G) = 1 => G # {})
    BY <1>1, <2>1
  <2>4. Cardinality(C) + Cardinality(G) <= 1
    BY <2>1, <2>2, <2>3
  <2> QED
    BY <2>4 DEF C, G
<1> QED
  BY <1>2, ReauthInvariant, PTL

-----------------------------------------------------------------------------
(* All parts.                                                              *)

\* Wrong codes and wrong proofs are limited, however many are tried at the same time: MaxGuesses
\* wrong codes of a challenge and one right one (consumeChallenge), MaxAttempts wrong proofs and
\* those under way on top (recordFailedAccountDeletionProof).
THEOREM WrongGuessesAreLimited == Codes!Spec /\ Reauth!Spec => []GuessesLimited
<1>1. Reauth!ReauthInv => Reauth!GuessesLimited
  BY DEF Reauth!ReauthInv, Reauth!GuessesAccounted, Reauth!Accounted, Reauth!GuessesLimited
<1>2. Codes!GuessesBounded /\ Reauth!GuessesLimited => GuessesLimited
  BY DEF GuessesLimited
<1> QED
  BY <1>1, <1>2, GuessesAreBounded, ReauthInvariant, PTL

\* Every row, session, identity and request is of its type, in all parts.
THEOREM AccountTypesHold == AccountsSpec => []TypesOK
<1>1. /\ SessionsInv => TypeOK
      /\ Codes!ChallengesInv => Codes!TypeOK
      /\ Ids!IdentitiesInv => Ids!TypeOK
      /\ Reauth!ReauthInv => Reauth!TypeOK
  BY DEF SessionsInv, Codes!ChallengesInv, Ids!IdentitiesInv, Reauth!ReauthInv
<1>2. TypeOK /\ Codes!TypeOK /\ Ids!TypeOK /\ Reauth!TypeOK => TypesOK
  BY DEF TypesOK
<1> QED
  BY <1>1, <1>2, SessionsInvariant, ChallengesInvariant, IdentitiesInvariant, ReauthInvariant, PTL
     DEF AccountsSpec
=============================================================================
