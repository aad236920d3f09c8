------------------------- MODULE AccountIdentities -------------------------
(***************************************************************************)
(* Accounts, their emails and their provider identities: registration, the *)
(* first sign-in with Google or Apple, linking and unlinking               *)
(* (auth/auth.service.js, auth/google.*.js, auth/apple.*.js,               *)
(* auth/identity*.js). The requests read first, verify a password or wait  *)
(* for a hash, and then run a transaction that checks again.               *)
(*                                                                         *)
(* A transaction is one step: it holds its account's row lock to its end   *)
(* (AuthSessions models such locks), and an insert that meets another's    *)
(* uncommitted key waits for that transaction. The two providers' code is  *)
(* the same but for what makes an email trusted.                           *)
(***************************************************************************)
EXTENDS Integers

CONSTANTS
  Email,        \* normalised email addresses
  Provider,     \* the providers of IDENTITY_PROVIDERS in use
  Subject,      \* subjects a provider vouches for
  Request,      \* requests served at the same time
  MaxUsers,     \* bound: how many accounts are created
  MaxPassword,  \* bound: how many password hashes are made
  Nobody

NoPassword == 0

\* Accounts are numbered in the order in which they are created.
User == 1 .. MaxUsers
NoId == 0

VARIABLES
  user,      \* the app_users rows; an id without a row has no email
  owner,     \* auth_identities: the user of a provider's subject
  password,  \* the last password hash made
  request    \* what each request is doing

vars == <<user, owner, password, request>>

NoUser == [state |-> "none", email |-> Nobody, hash |-> NoPassword]
Idle == [at |-> "idle", user |-> NoId, email |-> Nobody, provider |-> Nobody,
         subject |-> Nobody, hash |-> NoPassword, session |-> "open"]

TypeOK ==
  /\ user \in [User -> [state : {"none", "present", "deleted"}, email : Email \union {Nobody},
                        hash : 0 .. MaxPassword]]
  /\ owner \in [Provider \X Subject -> User \union {NoId}]
  /\ password \in 0 .. MaxPassword
  /\ request \in [Request ->
       [at : {"idle", "registering", "creating", "retrying", "linking", "unlinking"},
        user : User \union {NoId}, email : Email \union {Nobody},
        provider : Provider \union {Nobody}, subject : Subject \union {Nobody},
        hash : 0 .. MaxPassword, session : {"open", "revoked"}]]

Init ==
  /\ user = [u \in User |-> NoUser]
  /\ owner = [i \in Provider \X Subject |-> NoId]
  /\ password = NoPassword
  /\ request = [r \in Request |-> Idle]

Present(u) == user[u].state = "present"
EmailTaken(m) == \E u \in User : Present(u) /\ user[u].email = m
Linked(u, p) == \E x \in Subject : owner[<<p, x>>] = u
Identities(u) == {i \in Provider \X Subject : owner[i] = u}

Goto(r, work) == request' = [request EXCEPT ![r] = work]
End(r) == Goto(r, Idle)

\* A new row of app_users, unless a unique index refuses it.
Insert(u, m, hash) ==
  /\ user[u].state = "none"
  /\ \A v \in 1 .. u - 1 : user[v].state # "none"
  /\ user' = [user EXCEPT ![u] = [state |-> "present", email |-> m, hash |-> hash]]

----------------------------------------------------------------------------
(* Registration with a password.                                           *)

\* registerUser finds no account and hashes the password.
BeginRegister(r, m) ==
  /\ request[r].at = "idle"
  /\ ~EmailTaken(m)
  /\ Goto(r, [Idle EXCEPT !.at = "registering", !.email = m])
  /\ UNCHANGED <<user, owner, password>>

\* createUserWithSession; the email may have been taken meanwhile: 409.
CommitRegister(r) ==
  /\ request[r].at = "registering"
  /\ IF EmailTaken(request[r].email) THEN UNCHANGED <<user, password>>
     ELSE /\ password < MaxPassword
          /\ password' = password + 1
          /\ \E u \in User : Insert(u, request[r].email, password')
  /\ End(r)
  /\ UNCHANGED owner

----------------------------------------------------------------------------
(* Sign-in with a provider.                                                *)

\* createSessionForGoogleSubject finds nobody; an identity it finds is signed in.
BeginSignIn(r, p, x, m) ==
  /\ request[r].at = "idle"
  /\ owner[<<p, x>>] = NoId
  /\ Goto(r, [Idle EXCEPT !.at = "creating", !.provider = p, !.subject = x, !.email = m])
  /\ UNCHANGED <<user, owner, password>>

\* createGoogleAccountWithSession; a conflict on email or subject is tried once more.
CreateAccount(r) ==
  LET p == request[r].provider
      x == request[r].subject IN
  /\ request[r].at = "creating"
  /\ IF EmailTaken(request[r].email) \/ owner[<<p, x>>] # NoId
     THEN Goto(r, [request[r] EXCEPT !.at = "retrying"]) /\ UNCHANGED <<user, owner>>
     ELSE \E u \in User : /\ Insert(u, request[r].email, NoPassword)
                          /\ owner' = [owner EXCEPT ![<<p, x>>] = u]
                          /\ End(r)
  /\ UNCHANGED password

\* The subject is looked up again and signed in, or linking is required: 409.
RetrySignIn(r) ==
  /\ request[r].at = "retrying"
  /\ End(r)
  /\ UNCHANGED <<user, owner, password>>

----------------------------------------------------------------------------
(* Linking and unlinking.                                                  *)

\* The current password is verified against the hash read here.
BeginLink(r, u, p, x) ==
  /\ request[r].at = "idle"
  /\ Present(u) /\ user[u].hash # NoPassword
  /\ Goto(r, [Idle EXCEPT !.at = "linking", !.user = u, !.provider = p, !.subject = x,
                          !.hash = user[u].hash])
  /\ UNCHANGED <<user, owner, password>>

\* Mutant: the session's revocation is not checked again.
TrustedSession(r) == Present(request[r].user)

\* withLockedAccount.
SessionOpen(r) == Present(request[r].user) /\ request[r].session = "open"
HashCurrent(r) == user[request[r].user].hash = request[r].hash

\* linkProviderIdentity.
CommitLink(r) ==
  LET u == request[r].user
      p == request[r].provider
      x == request[r].subject IN
  /\ request[r].at = "linking"
  /\ IF SessionOpen(r) /\ HashCurrent(r) /\ owner[<<p, x>>] = NoId /\ ~Linked(u, p)
     THEN owner' = [owner EXCEPT ![<<p, x>>] = u]
     ELSE owner' = owner
  /\ End(r)
  /\ UNCHANGED <<user, password>>

BeginUnlink(r, u, p) ==
  /\ request[r].at = "idle"
  /\ Present(u)
  /\ Goto(r, [Idle EXCEPT !.at = "unlinking", !.user = u, !.provider = p, !.hash = user[u].hash])
  /\ UNCHANGED <<user, owner, password>>

\* Mutant: an account without a password may unlink.
HashUnneeded(u) == TRUE

HasPassword(u) == user[u].hash # NoPassword

\* unlinkProviderIdentity.
CommitUnlink(r) ==
  LET u == request[r].user
      p == request[r].provider IN
  /\ request[r].at = "unlinking"
  /\ IF SessionOpen(r) /\ Linked(u, p) /\ HasPassword(u) /\ HashCurrent(r)
     THEN owner' = [i \in Provider \X Subject |->
                      IF owner[i] = u /\ i[1] = p THEN NoId ELSE owner[i]]
     ELSE owner' = owner
  /\ End(r)
  /\ UNCHANGED <<user, password>>

----------------------------------------------------------------------------
(* What happens to the account meanwhile.                                  *)

\* The sessions of the requests in loggedOut are revoked.
Revoke(loggedOut) ==
  request' = [r \in Request |->
    IF r \in loggedOut THEN [request[r] EXCEPT !.session = "revoked"] ELSE request[r]]

RequestsOf(u) == {r \in Request : request[r].user = u}

\* Password reset: a new hash, and every session revoked.
ResetPassword(u) ==
  /\ Present(u) /\ HasPassword(u)
  /\ password < MaxPassword
  /\ password' = password + 1
  /\ user' = [user EXCEPT ![u].hash = password']
  /\ Revoke(RequestsOf(u))
  /\ UNCHANGED owner

\* revokeSession, for one session of the user: some of the requests came with it.
Logout(u) ==
  /\ \E loggedOut \in SUBSET RequestsOf(u) : Revoke(loggedOut)
  /\ UNCHANGED <<user, owner, password>>

\* ON DELETE CASCADE.
IdentitiesDeleted(u) ==
  [i \in Provider \X Subject |-> IF owner[i] = u THEN NoId ELSE owner[i]]

DeleteAccount(u) ==
  /\ Present(u)
  /\ user' = [user EXCEPT ![u] = [NoUser EXCEPT !.state = "deleted"]]
  /\ owner' = IdentitiesDeleted(u)
  /\ Revoke(RequestsOf(u))
  /\ UNCHANGED password

\* A statement fails and its request with it.
Fail(r) ==
  /\ request[r].at # "idle"
  /\ End(r)
  /\ UNCHANGED <<user, owner, password>>

Next ==
  \/ \E r \in Request, m \in Email :
       BeginRegister(r, m) \/ \E p \in Provider, x \in Subject : BeginSignIn(r, p, x, m)
  \/ \E r \in Request, u \in User, p \in Provider :
       BeginUnlink(r, u, p) \/ \E x \in Subject : BeginLink(r, u, p, x)
  \/ \E r \in Request : CommitRegister(r) \/ CreateAccount(r) \/ RetrySignIn(r)
                        \/ CommitLink(r) \/ CommitUnlink(r) \/ Fail(r)
  \/ \E u \in User : ResetPassword(u) \/ Logout(u) \/ DeleteAccount(u)

Spec == Init /\ [][Next]_vars

----------------------------------------------------------------------------
(* Properties.                                                             *)

\* No account is ever left without a way to sign in: it has a password or an
\* identity, whatever is linked, unlinked, reset and deleted at the same time.
AlwaysSignIn == \A u \in User : Present(u) => user[u].hash # NoPassword \/ Identities(u) # {}

\* An existing account gets an identity only from a request that proved its
\* current password in a session that is still open; a shared email is no reason,
\* and a reset or logout comes before or after the link
\* (linkProviderIdentity, createGoogleSignIn).
LinkedWithProof ==
  [][\A u \in User : Present(u) /\ Identities(u)' \ Identities(u) # {} =>
       \E r \in Request : /\ request[r].at = "linking" /\ request[r].user = u
                          /\ request[r].session = "open"
                          /\ request[r].hash = user[u].hash]_vars

----------------------------------------------------------------------------
(* The invariant of the proofs.                                            *)

\* What the proofs assume of the bounds.
BoundsAssumption == MaxPassword \in Nat

\* A request works on an account and an identity it was given.
BegunWithNames ==
  \A r \in Request :
    /\ request[r].at \in {"registering", "creating"} => request[r].email \in Email
    /\ request[r].at \in {"creating", "linking"} =>
         request[r].provider \in Provider /\ request[r].subject \in Subject
    /\ request[r].at \in {"linking", "unlinking"} => request[r].user \in User

\* What is true of the accounts and of the requests at work on them.
IdentitiesInv == TypeOK /\ BegunWithNames /\ AlwaysSignIn
=============================================================================
