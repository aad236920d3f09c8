----------------------- MODULE AccountDeletionReauth -----------------------
(***************************************************************************)
(* How the deletion of one account is authorised                           *)
(* (auth/accountDeletionReauth.*.js, auth/accountDeletion.*.js). A session *)
(* asks for a challenge, proves the password or a linked provider identity *)
(* and gets a grant, which deletes the account once. Meanwhile passwords   *)
(* are reset, sessions revoked and identities linked and unlinked.         *)
(*                                                                         *)
(* Every transaction takes the account's row lock first and keeps it to its*)
(* end (AuthSessions models such locks), so a transaction or a single      *)
(* statement is one step here; what a request read before its transaction  *)
(* may be out of date. A challenge's nonce never changes and every token   *)
(* is verified against it, so tokens differ in their subject only.         *)
(***************************************************************************)
EXTENDS Integers, FiniteSets

CONSTANTS
  Session,      \* session ids
  Request,      \* requests served at the same time
  Subject,      \* provider subjects the account's owner may prove
  Ttl,          \* TTL_SECONDS, of challenges and grants
  Window,       \* one hour
  MaxPerHour,   \* MAX_CHALLENGES_PER_HOUR
  MaxAttempts,  \* failed proofs of a challenge: 5
  MaxChallenges,  \* bound: how many challenges are issued
  MaxGrants,    \* bound: how many grants are given
  MaxPassword,  \* bound: how many password hashes are made
  MaxLost,      \* bound: how many wrong proofs are not recorded
  MaxTime,      \* bound: the clock
  Nothing

External == {"apple", "google"}
Method == External \union {"password"}
NoPassword == 0

\* Challenges and grants are numbered in the order in which they are stored.
Challenge == 1 .. MaxChallenges
Grant == 1 .. MaxGrants
NoId == 0

VARIABLES
  now,        \* the database's clock
  present,    \* the account's app_users row exists
  password,   \* app_users.password_hash, or NoPassword
  linked,     \* the auth_identities rows of the account
  session,    \* the auth_sessions rows
  challenge,  \* the account_deletion_reauth_challenges rows
  grant,      \* the account_deletion_authorizations rows
  request,    \* what each request is doing
  guesses,    \* history: wrong proofs a challenge was compared with
  lost        \* history: wrong proofs that were not recorded

account == <<present, password, linked, session>>
history == <<guesses, lost>>
vars == <<now, account, challenge, grant, request, history>>

NoChallenge == [state |-> "none", session |-> Nothing, method |-> "password", attempts |-> 0,
                created |-> 0, callback |-> "none", subject |-> Nothing]
NoGrant == [state |-> "none", session |-> Nothing, method |-> "password", subject |-> Nothing,
            expires |-> 0, hash |-> NoPassword]
Idle == [at |-> "idle", challenge |-> NoId, session |-> Nothing, hash |-> NoPassword,
         subject |-> Nothing]

TypeOK ==
  /\ now \in 0 .. MaxTime
  /\ present \in BOOLEAN
  /\ password \in 0 .. MaxPassword
  /\ linked \in [External -> Subject \union {Nothing}]
  /\ session \in [Session -> {"none", "open", "revoked"}]
  /\ challenge \in [Challenge -> [state : {"none", "open", "consumed", "purged"},
       session : Session \union {Nothing}, method : Method, attempts : 0 .. MaxAttempts,
       created : 0 .. MaxTime, callback : {"none", "pending", "exchanging", "verified", "failed"},
       subject : Subject \union {Nothing}]]
  /\ grant \in [Grant -> [state : {"none", "open", "consumed", "purged"},
       session : Session \union {Nothing}, method : Method,
       subject : Subject \union {Nothing}, expires : Nat, hash : 0 .. MaxPassword]]
  /\ request \in [Request -> [at : {"idle", "proving", "recording", "exchanging", "completing", "failing"},
       challenge : Challenge \union {NoId}, session : Session \union {Nothing},
       hash : 0 .. MaxPassword, subject : Subject \union {Nothing}]]
  /\ guesses \in [Challenge -> Nat] /\ lost \in Nat

\* An account with a password, or one that a provider's first sign-in created.
Init ==
  /\ now = 0
  /\ present = TRUE
  /\ password \in {NoPassword, 1} /\ password <= MaxPassword
  /\ \E x \in Subject : linked = [p \in External |->
       IF p = "google" /\ password = NoPassword THEN x ELSE Nothing]
  /\ \E s \in Session : session = [q \in Session |-> IF q = s THEN "open" ELSE "none"]
  /\ challenge = [c \in Challenge |-> NoChallenge]
  /\ grant = [g \in Grant |-> NoGrant]
  /\ request = [r \in Request |-> Idle]
  /\ guesses = [c \in Challenge |-> 0]
  /\ lost = 0

Goto(r, work) == request' = [request EXCEPT ![r] = work]
End(r) == Goto(r, Idle)

----------------------------------------------------------------------------
(* Conditions the transactions check under the account's lock.             *)

\* withLockedAccount finds the account and the session.
Locked(s) == present /\ s \in Session /\ session[s] = "open"

\* requireAvailableMethod.
Available(m) == IF m = "password" THEN password # NoPassword ELSE linked[m] # Nothing

Expired(c) == challenge[c].created + Ttl <= now
OpenChallenge(c, s) == challenge[c].state = "open" /\ challenge[c].session = s
OpenGrant(g, s) == grant[g].state = "open" /\ grant[g].session = s

----------------------------------------------------------------------------
(* The rest of the account: sign-in, logout, reset, identities.            *)

SignIn(s) ==
  /\ present
  /\ session[s] = "none"
  /\ session' = [session EXCEPT ![s] = "open"]
  /\ UNCHANGED <<now, present, password, linked, challenge, grant, request, history>>

Logout(s) ==
  /\ session[s] = "open"
  /\ session' = [session EXCEPT ![s] = "revoked"]
  /\ UNCHANGED <<now, present, password, linked, challenge, grant, request, history>>

\* Mutant: the sessions survive a reset.
KeepSessions == session

RevokedSessions == [s \in Session |-> IF session[s] = "open" THEN "revoked" ELSE session[s]]

\* A reset with a mailed code: an account without a password cannot have one.
ResetPassword ==
  /\ present
  /\ password # NoPassword /\ password < MaxPassword
  /\ password' = password + 1
  /\ session' = RevokedSessions
  /\ UNCHANGED <<now, present, linked, challenge, grant, request, history>>

\* linkProviderIdentity and unlinkProviderIdentity, by a session with the password.
Link(s, p, x) ==
  /\ Locked(s) /\ password # NoPassword
  /\ linked[p] = Nothing
  /\ linked' = [linked EXCEPT ![p] = x]
  /\ UNCHANGED <<now, present, password, session, challenge, grant, request, history>>

Unlink(s, p) ==
  /\ Locked(s) /\ password # NoPassword
  /\ linked[p] # Nothing
  /\ linked' = [linked EXCEPT ![p] = Nothing]
  /\ UNCHANGED <<now, present, password, session, challenge, grant, request, history>>

----------------------------------------------------------------------------
(* The challenge.                                                          *)

\* The callback of a challenge that is closed has failed unless it was verified.
CallbackClosed(row) ==
  IF row.callback \in {"pending", "exchanging"} THEN [row EXCEPT !.callback = "failed"] ELSE row

\* Mutant: earlier grants stay usable.
GrantsUntouched(s) == grant

GrantsClosed(s) ==
  [g \in Grant |-> IF OpenGrant(g, s) THEN [grant[g] EXCEPT !.state = "consumed"] ELSE grant[g]]

\* What issueAccountDeletionChallenge deletes first.
OldChallenge(c) == challenge[c].state # "none" /\ challenge[c].created + Window < now
OldGrant(g) == grant[g].state # "none" /\ grant[g].expires < now

IssueChallenge(s, m) ==
  LET recent == {c \in Challenge : challenge[c].state \in {"open", "consumed"}
                                   /\ challenge[c].created + Window > now}
      closed == GrantsClosed(s) IN
  /\ Locked(s)
  /\ Available(m)
  /\ Cardinality(recent) < MaxPerHour
  /\ \E c \in Challenge :
       /\ challenge[c].state = "none"
       /\ \A d \in 1 .. c - 1 : challenge[d].state # "none"
       /\ challenge' = [d \in Challenge |->
            CASE d = c -> [NoChallenge EXCEPT !.state = "open", !.session = s, !.method = m,
                             !.created = now,
                             !.callback = IF m = "google" THEN "pending" ELSE "none"]
              [] d # c /\ OldChallenge(d) -> [NoChallenge EXCEPT !.state = "purged"]
              [] d # c /\ ~OldChallenge(d) /\ OpenChallenge(d, s) ->
                   CallbackClosed([challenge[d] EXCEPT !.state = "consumed"])
              [] OTHER -> challenge[d]]
  /\ grant' = [g \in Grant |-> IF OldGrant(g) THEN [NoGrant EXCEPT !.state = "purged"] ELSE closed[g]]
  /\ UNCHANGED <<now, account, request, history>>

----------------------------------------------------------------------------
(* The proof (verify).                                                     *)

\* The checks of verify on what readAccountDeletionChallenge returns.
Provable(c, s) ==
  /\ present
  /\ OpenChallenge(c, s)
  /\ challenge[c].attempts < MaxAttempts
  /\ session[s] = "open"
  /\ ~Expired(c)

\* The password is compared with the hash that was read, an Apple token verified,
\* Google's subject was stored by the callback.
Prove(r, c, s) ==
  LET m == challenge[c].method
      work == [Idle EXCEPT !.at = "proving", !.challenge = c, !.session = s] IN
  /\ request[r].at = "idle"
  /\ Provable(c, s)
  /\ CASE m = "password" -> password # NoPassword /\ Goto(r, [work EXCEPT !.hash = password])
       [] m = "apple"    -> \E x \in Subject : Goto(r, [work EXCEPT !.subject = x])
       [] m = "google"   -> /\ challenge[c].callback = "verified"
                            /\ Goto(r, [work EXCEPT !.subject = challenge[c].subject])
  /\ UNCHANGED <<now, account, challenge, grant, history>>

\* The password is wrong, or Apple's token invalid.
ProveWrongly(r, c, s) ==
  /\ request[r].at = "idle"
  /\ Provable(c, s)
  /\ challenge[c].method \in {"password", "apple"}
  /\ challenge[c].method = "password" => password # NoPassword
  /\ Goto(r, [Idle EXCEPT !.at = "recording", !.challenge = c, !.session = s])
  /\ guesses' = [guesses EXCEPT ![c] = @ + 1]
  /\ UNCHANGED <<now, account, challenge, grant, lost>>

\* Mutant: wrong proofs are not counted.
NeverCounted(c, s) == FALSE

Counted(c, s) == OpenChallenge(c, s) /\ ~Expired(c) /\ challenge[c].attempts < MaxAttempts

\* recordFailedAccountDeletionProof.
RecordFailure(r) ==
  LET c == request[r].challenge IN
  /\ request[r].at = "recording"
  /\ challenge' = IF Counted(c, request[r].session)
                  THEN [challenge EXCEPT ![c].attempts = @ + 1] ELSE challenge
  /\ End(r)
  /\ UNCHANGED <<now, account, grant, history>>

\* The statement fails, and the guess is not counted.
RecordFails(r) ==
  /\ request[r].at = "recording"
  /\ lost < MaxLost
  /\ lost' = lost + 1
  /\ End(r)
  /\ UNCHANGED <<now, account, challenge, grant, guesses>>

\* What was proved before the transaction still holds in it.
ProofHolds(r) ==
  LET c == request[r].challenge
      m == challenge[c].method IN
  IF m = "password" THEN password = request[r].hash
  ELSE /\ linked[m] = request[r].subject
       /\ m = "google" => /\ challenge[c].callback = "verified"
                          /\ challenge[c].subject = request[r].subject

\* completeAccountDeletionReauth.
CompleteReauth(r) ==
  LET c == request[r].challenge
      s == request[r].session
      m == challenge[c].method
      valid == Locked(s) /\ OpenChallenge(c, s) /\ challenge[c].attempts < MaxAttempts
               /\ ~Expired(c) /\ Available(m) IN
  /\ request[r].at = "proving"
  /\ CASE ~valid -> End(r) /\ UNCHANGED <<challenge, grant, guesses>>
       [] valid /\ ~ProofHolds(r) ->
            /\ Goto(r, [request[r] EXCEPT !.at = "recording"])
            /\ guesses' = [guesses EXCEPT ![c] = @ + 1]
            /\ UNCHANGED <<challenge, grant>>
       [] valid /\ ProofHolds(r) ->
            /\ challenge' = [challenge EXCEPT ![c].state = "consumed"]
            /\ \E g \in Grant :
                 /\ grant[g].state = "none"
                 /\ \A h \in 1 .. g - 1 : grant[h].state # "none"
                 /\ grant' = [GrantsClosed(s) EXCEPT ![g] =
                      [state |-> "open", session |-> s, method |-> m,
                       subject |-> request[r].subject, expires |-> now + Ttl,
                       hash |-> request[r].hash]]
            /\ End(r)
            /\ UNCHANGED guesses
  /\ UNCHANGED <<now, account, lost>>

----------------------------------------------------------------------------
(* Google's callback.                                                      *)

ClaimableCallback(c) == challenge[c].callback = "pending"

\* claimGoogleDeletionCallback; then the code is exchanged for a token.
ClaimCallback(r, c) ==
  /\ request[r].at = "idle"
  /\ present
  /\ challenge[c].state = "open" /\ ClaimableCallback(c) /\ ~Expired(c)
  /\ session[challenge[c].session] = "open"
  /\ challenge' = [challenge EXCEPT ![c].callback = "exchanging"]
  /\ Goto(r, [Idle EXCEPT !.at = "exchanging", !.challenge = c, !.session = challenge[c].session])
  /\ UNCHANGED <<now, account, grant, history>>

\* Google's token names a subject; a failing exchange or verification ends the callback.
Exchange(r) ==
  /\ request[r].at = "exchanging"
  /\ \/ \E x \in Subject :
          Goto(r, [request[r] EXCEPT !.at = "completing", !.subject = x])
     \/ Goto(r, [request[r] EXCEPT !.at = "failing"])
  /\ UNCHANGED <<now, account, challenge, grant, history>>

\* completeGoogleDeletionCallback.
CompleteCallback(r) ==
  LET c == request[r].challenge
      valid == /\ Locked(request[r].session)
               /\ linked["google"] = request[r].subject
               /\ OpenChallenge(c, request[r].session) /\ ~Expired(c)
               /\ challenge[c].callback = "exchanging" IN
  /\ request[r].at = "completing"
  /\ IF valid
     THEN /\ challenge' = [challenge EXCEPT ![c].callback = "verified",
                                            ![c].subject = request[r].subject]
          /\ End(r)
     ELSE /\ Goto(r, [request[r] EXCEPT !.at = "failing"])
          /\ UNCHANGED challenge
  /\ UNCHANGED <<now, account, grant, history>>

\* failGoogleDeletionCallback, which may itself fail and leave the row as it is.
FailCallback(r) ==
  LET c == request[r].challenge IN
  /\ request[r].at = "failing"
  /\ \/ challenge' = [challenge EXCEPT ![c].callback =
                        IF @ = "exchanging" THEN "failed" ELSE @]
     \/ challenge[c].callback = "exchanging" /\ challenge' = challenge
  /\ End(r)
  /\ UNCHANGED <<now, account, grant, history>>

----------------------------------------------------------------------------
(* The deletion.                                                           *)

\* The checks of consumeAccountDeletionAuthorization.
Usable(g, s) ==
  /\ OpenGrant(g, s)
  /\ grant[g].expires > now
  /\ IF grant[g].method = "password" THEN password # NoPassword
     ELSE linked[grant[g].method] = grant[g].subject

\* deleteAccountWithAuthorization; the rows of the account go with it.
DeleteAccount(s, g) ==
  /\ Locked(s)
  /\ Usable(g, s)
  /\ present' = FALSE
  /\ password' = NoPassword
  /\ linked' = [p \in External |-> Nothing]
  /\ session' = [q \in Session |-> IF session[q] = "none" THEN "none" ELSE "revoked"]
  /\ challenge' = [c \in Challenge |-> IF challenge[c].state = "none" THEN challenge[c]
                                       ELSE [NoChallenge EXCEPT !.state = "purged"]]
  /\ grant' = [h \in Grant |-> IF grant[h].state = "none" THEN grant[h]
                               ELSE [NoGrant EXCEPT !.state = "purged"]]
  /\ UNCHANGED <<now, request, history>>

\* The transaction of a proof fails and is rolled back.
AbortProof(r) ==
  /\ request[r].at = "proving"
  /\ End(r)
  /\ UNCHANGED <<now, account, challenge, grant, history>>

Tick ==
  /\ now < MaxTime
  /\ now' = now + 1
  /\ UNCHANGED <<account, challenge, grant, request, history>>

Next ==
  \/ Tick
  \/ ResetPassword
  \/ \E s \in Session : SignIn(s) \/ Logout(s)
  \/ \E s \in Session, p \in External : Unlink(s, p) \/ \E x \in Subject : Link(s, p, x)
  \/ \E s \in Session, m \in Method : IssueChallenge(s, m)
  \/ \E r \in Request, c \in Challenge, s \in Session : Prove(r, c, s) \/ ProveWrongly(r, c, s)
  \/ \E r \in Request, c \in Challenge : ClaimCallback(r, c)
  \/ \E r \in Request : RecordFailure(r) \/ RecordFails(r) \/ CompleteReauth(r) \/ Exchange(r)
                        \/ CompleteCallback(r) \/ FailCallback(r) \/ AbortProof(r)
  \/ \E s \in Session, g \in Grant : DeleteAccount(s, g)

Spec == Init /\ [][Next]_vars

----------------------------------------------------------------------------
(* Properties.                                                             *)

\* An account is deleted by an open session with a fresh grant of its own, and
\* what that grant was given for is still how its owner signs in: the password
\* that was proved was not reset since, the identity not unlinked or replaced
\* (consumeAccountDeletionAuthorization checks neither hash nor history).
DeletedWithCurrentProof ==
  [][present /\ ~present' =>
       \E s \in Session, g \in Grant :
         /\ session[s] = "open" /\ OpenGrant(g, s) /\ grant[g].expires > now
         /\ IF grant[g].method = "password" THEN grant[g].hash = password
            ELSE linked[grant[g].method] = grant[g].subject]_vars

\* A session holds one thing at a time: an open challenge or an open grant. A new
\* challenge withdraws the grant, and a late proof cannot revive the old one.
ChallengeOrGrant ==
  \A s \in Session :
    Cardinality({c \in Challenge : OpenChallenge(c, s)})
      + Cardinality({g \in Grant : OpenGrant(g, s)}) <= 1

\* Wrong proofs of one challenge are limited although they are compared before
\* they are counted: only those already under way, or not recorded, come on top.
GuessesLimited ==
  \A c \in Challenge : guesses[c] + 1 <= MaxAttempts + Cardinality(Request) + lost

----------------------------------------------------------------------------
(* The invariant of the proofs.                                            *)

\* What the proofs assume of the limits and bounds.
ReauthAssumption ==
  /\ MaxTime \in Nat /\ MaxPassword \in Nat /\ MaxAttempts \in Nat \ {0} /\ Ttl \in Nat
  /\ IsFiniteSet(Request)

\* A request works on a challenge that was issued, and proves it for its session.
Working(r) ==
  LET c == request[r].challenge IN
  /\ request[r].at # "idle" => c \in Challenge /\ challenge[c].state # "none"
  /\ request[r].at \in {"proving", "recording"} /\ challenge[c].state = "open" =>
       challenge[c].session = request[r].session

WorkingOnIssued == \A r \in Request : Working(r)

\* A grant belongs to a session that began, and as long as that session is open
\* the password it was given for is the account's.
Current(g) ==
  grant[g].state = "open" =>
    /\ grant[g].session \in Session /\ session[grant[g].session] # "none"
    /\ session[grant[g].session] = "open" /\ grant[g].method = "password" =>
         grant[g].hash = password

GrantsCurrent == \A g \in Grant : Current(g)

OneThing(s) ==
  /\ \A c, d \in Challenge : OpenChallenge(c, s) /\ OpenChallenge(d, s) => c = d
  /\ \A g, h \in Grant : OpenGrant(g, s) /\ OpenGrant(h, s) => g = h
  /\ \A c \in Challenge, g \in Grant : ~(OpenChallenge(c, s) /\ OpenGrant(g, s))

OneThingEach == \A s \in Session : OneThing(s)

\* As long as a challenge takes proofs, a wrong one is counted, about to be, or lost.
Taking(c) == challenge[c].state = "open" /\ ~Expired(c) /\ challenge[c].attempts < MaxAttempts
Recording(c) == {r \in Request : request[r].at = "recording" /\ request[r].challenge = c}

Accounted(c) ==
  /\ challenge[c].state = "none" => guesses[c] = 0
  /\ Taking(c) => guesses[c] <= challenge[c].attempts + Cardinality(Recording(c)) + lost
  /\ guesses[c] + 1 <= MaxAttempts + Cardinality(Request) + lost

GuessesAccounted == \A c \in Challenge : Accounted(c)

\* What is true of the account, its challenges and grants and the requests.
ReauthInv == TypeOK /\ WorkingOnIssued /\ GrantsCurrent /\ OneThingEach /\ GuessesAccounted
=============================================================================
