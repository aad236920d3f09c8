--------------------------- MODULE AuthChallenges ---------------------------
(***************************************************************************)
(* The codes mailed to one account to verify its email address or to reset *)
(* its password (auth/challenge.service.js, auth/challenge.repository.js). *)
(* A code is issued under the account's row lock, mailed after the commit  *)
(* and closed again if the mail cannot be sent; guesses are counted.       *)
(*                                                                         *)
(* NOW() is the time at which a transaction began, which may be long before*)
(* it got its lock: a request keeps that time.                             *)
(***************************************************************************)
EXTENDS Integers, FiniteSets

CONSTANTS
  Request,     \* requests served at the same time
  CoolDown,    \* one minute
  Ttl,         \* EXPIRY_SECONDS
  Window,      \* one hour
  MaxPerHour,  \* challenges of a purpose per hour: 5
  MaxGuesses,  \* wrong codes per challenge: 5
  MaxChallenges,  \* bound: how many challenges are issued
  MaxTime,     \* bound: the clock
  Purpose      \* what codes are for in this instance

\* Challenges are numbered in the order in which they are stored.
Challenge == 1 .. MaxChallenges
NoChallenge == 0

VARIABLES
  now,        \* the database's clock
  challenge,  \* the auth_challenges rows
  verified,   \* app_users.email_verified_at is set
  request,    \* what each request is doing
  wrong,      \* history: wrong codes compared with a challenge
  accepted    \* history: how often a challenge's code was accepted

vars == <<now, challenge, verified, request, wrong, accepted>>

NoRow == [state |-> "none", purpose |-> CHOOSE p \in Purpose : TRUE, attempts |-> 0, created |-> 0]
Idle == [at |-> "idle", purpose |-> CHOOSE p \in Purpose : TRUE, began |-> 0, target |-> NoChallenge,
         right |-> FALSE]

Row == [state : {"none", "open", "consumed"}, purpose : Purpose, attempts : Nat, created : Nat]
Work == [at : {"idle", "asking", "issuing", "mailing", "closing", "guessing", "comparing"},
         purpose : Purpose, began : Nat, target : Challenge \union {NoChallenge},
         right : BOOLEAN]

Init ==
  /\ now = 0
  /\ challenge = [c \in Challenge |-> NoRow]
  /\ verified = FALSE
  /\ request = [r \in Request |-> Idle]
  /\ wrong = [c \in Challenge |-> 0]
  /\ accepted = [c \in Challenge |-> 0]

Goto(r, step) == request' = [request EXCEPT ![r].at = step]
End(r) == request' = [request EXCEPT ![r] = Idle]

----------------------------------------------------------------------------
(* Locks and conditions.                                                   *)

HoldsUser(r) == request[r].at \in {"issuing", "comparing"}

\* Mutant: the account's row is read without FOR UPDATE.
NeverLocked == TRUE

\* withLockedUser gets its lock.
UserFree == \A r \in Request : ~HoldsUser(r)

RowFree(c) == \A r \in Request : ~(request[r].at = "comparing" /\ request[r].target = c)

Issued(p) == {c \in Challenge : challenge[c].state # "none" /\ challenge[c].purpose = p}
Open(p) == {c \in Issued(p) : challenge[c].state = "open"}
Recent(p, time) == {c \in Issued(p) : challenge[c].created > time - Window}

\* The limits of issueChallenge, for a transaction that began at the time.
Limited(p, time) ==
  \/ Cardinality(Recent(p, time)) >= MaxPerHour
  \/ \E c \in Recent(p, time) : challenge[c].state = "open" /\ challenge[c].created > time - CoolDown

\* The rows consumeChallenge may take.
Usable(p, time) ==
  {c \in Open(p) : challenge[c].created + Ttl > time /\ challenge[c].attempts < MaxGuesses}

----------------------------------------------------------------------------
(* A code is requested.                                                    *)

\* requestEmailVerification or requestPasswordReset, up to BEGIN.
Ask(r, p) ==
  /\ request[r].at = "idle"
  /\ p = "verify_email" => ~verified
  /\ request' = [request EXCEPT ![r] =
                   [Idle EXCEPT !.at = "asking", !.purpose = p, !.began = now]]
  /\ UNCHANGED <<now, challenge, verified, wrong, accepted>>

\* The lock is there; over a limit, the answer is 429 or the neutral one.
LockToIssue(r) ==
  /\ request[r].at = "asking"
  /\ UserFree
  /\ IF Limited(request[r].purpose, request[r].began) THEN End(r) ELSE Goto(r, "issuing")
  /\ UNCHANGED <<now, challenge, verified, wrong, accepted>>

EarlierClosed(p) == [c \in Challenge |-> IF c \in Open(p) THEN [challenge[c] EXCEPT !.state = "consumed"]
                                                          ELSE challenge[c]]

\* Earlier codes are closed and the new row inserted.
CommitIssue(r) ==
  LET p == request[r].purpose IN
  /\ request[r].at = "issuing"
  /\ \E c \in Challenge :
       /\ challenge[c].state = "none"
       /\ \A d \in 1 .. c - 1 : challenge[d].state # "none"
       /\ challenge' = [EarlierClosed(p) EXCEPT ![c] =
            [state |-> "open", purpose |-> p, attempts |-> 0, created |-> request[r].began]]
       /\ request' = [request EXCEPT ![r].at = "mailing", ![r].target = c]
  /\ UNCHANGED <<now, verified, wrong, accepted>>

Mail(r) ==
  /\ request[r].at = "mailing"
  /\ End(r)
  /\ UNCHANGED <<now, challenge, verified, wrong, accepted>>

\* The mail service fails or the answer does not come.
MailFails(r) ==
  /\ request[r].at = "mailing"
  /\ Goto(r, "closing")
  /\ UNCHANGED <<now, challenge, verified, wrong, accepted>>

\* invalidateChallenge, and the answer 503.
CloseUndelivered(r) ==
  LET c == request[r].target IN
  /\ request[r].at = "closing"
  /\ RowFree(c)
  /\ challenge' = IF challenge[c].state = "open"
                  THEN [challenge EXCEPT ![c].state = "consumed"] ELSE challenge
  /\ End(r)
  /\ UNCHANGED <<now, verified, wrong, accepted>>

----------------------------------------------------------------------------
(* A code is presented.                                                    *)

\* verifyEmailCode or resetPassword, up to BEGIN.
Present(r, p) ==
  /\ request[r].at = "idle"
  /\ p = "verify_email" => ~verified
  /\ request' = [request EXCEPT ![r] = 
                   [Idle EXCEPT !.at = "guessing", !.purpose = p, !.began = now]]
  /\ UNCHANGED <<now, challenge, verified, wrong, accepted>>

\* The newest usable row is locked and the code compared with its digest.
LockToCompare(r) ==
  LET p == request[r].purpose
      usable == Usable(p, request[r].began) IN
  /\ request[r].at = "guessing"
  /\ UserFree
  /\ IF usable = {} THEN End(r)
     ELSE \E c \in usable :
            /\ \A d \in usable : challenge[d].created <= challenge[c].created
            /\ RowFree(c)
            /\ \E right \in BOOLEAN :
                 request' = [request EXCEPT ![r].at = "comparing", ![r].target = c,
                                            ![r].right = right]
  /\ UNCHANGED <<now, challenge, verified, wrong, accepted>>

\* A wrong code is counted, the right one closes the row and has its effect;
\* what a reset does to the sessions is the module AuthSessions.
CommitComparison(r) ==
  LET c == request[r].target IN
  /\ request[r].at = "comparing"
  /\ IF request[r].right
     THEN /\ challenge' = [challenge EXCEPT ![c].state = "consumed"]
          /\ accepted' = [accepted EXCEPT ![c] = @ + 1]
          /\ verified' = (verified \/ request[r].purpose = "verify_email")
          /\ wrong' = wrong
     ELSE /\ challenge' = [challenge EXCEPT ![c].attempts = @ + 1]
          /\ wrong' = [wrong EXCEPT ![c] = @ + 1]
          /\ UNCHANGED <<verified, accepted>>
  /\ End(r)
  /\ now' = now

----------------------------------------------------------------------------
\* Mutant: the request forgets what it works on.
FailForgets(r) ==
  /\ request[r].at \in {"issuing", "comparing", "closing"}
  /\ request' = [request EXCEPT ![r] = [at |-> "idle"]]
  /\ UNCHANGED <<now, challenge, verified, wrong, accepted>>

\* A statement fails: a transaction is rolled back, an undelivered code stays open.
Fail(r) ==
  /\ request[r].at \in {"issuing", "comparing", "closing"}
  /\ End(r)
  /\ UNCHANGED <<now, challenge, verified, wrong, accepted>>

Tick ==
  /\ now < MaxTime
  /\ now' = now + 1
  /\ UNCHANGED <<challenge, verified, request, wrong, accepted>>

Next ==
  \/ Tick
  \/ \E r \in Request, p \in Purpose :
       Ask(r, p) \/ Present(r, p)
  \/ \E r \in Request :
       LockToIssue(r) \/ CommitIssue(r) \/ Mail(r) \/ MailFails(r) \/ CloseUndelivered(r)
       \/ LockToCompare(r) \/ CommitComparison(r) \/ Fail(r)

Spec == Init /\ [][Next]_vars

----------------------------------------------------------------------------
(* Properties.                                                             *)

TypeOK ==
  /\ now \in Nat
  /\ challenge \in [Challenge -> Row]
  /\ verified \in BOOLEAN
  /\ request \in [Request -> Work]
  /\ wrong \in [Challenge -> Nat] /\ accepted \in [Challenge -> Nat]

\* At most one code of a purpose is open, though requests for codes, failing mails
\* and guesses overlap; guesses sent at the same time do not get past its limit, and
\* it is accepted once (issueChallenge, invalidateChallenge, consumeChallenge).
GuessesBounded ==
  /\ \A p \in Purpose : \A c, d \in Open(p) : c = d
  /\ \A c \in Challenge : wrong[c] <= MaxGuesses /\ accepted[c] <= 1

\* In no hour are more codes of a purpose issued than allowed, although the
\* transactions that count them carry the time at which they began.
IssueLimit ==
  \A p \in Purpose : \A time \in 0 .. MaxTime :
    Cardinality({c \in Recent(p, time) : challenge[c].created <= time}) <= MaxPerHour

----------------------------------------------------------------------------
(* The invariant of the proofs.                                            *)

\* What the proofs assume of the limits and bounds.
LimitsAssumption ==
  /\ MaxChallenges \in Nat /\ MaxPerHour \in Nat /\ MaxGuesses \in Nat
  /\ Window \in Nat
  /\ Purpose # {}

\* The lock of the account's row excludes.
LockExcludes == \A q, r \in Request : HoldsUser(q) /\ HoldsUser(r) => q = r

\* What a request found under the lock is so until it commits.
Found(r) ==
  /\ request[r].at = "issuing" =>
       Cardinality(Recent(request[r].purpose, request[r].began)) < MaxPerHour
  /\ request[r].at \in {"mailing", "closing", "comparing"} => request[r].target \in Challenge
  /\ request[r].at = "comparing" => /\ challenge[request[r].target].state = "open"
                                    /\ challenge[request[r].target].attempts < MaxGuesses

FoundStaysTrue == \A r \in Request : Found(r)

\* The row counts the wrong codes, and an accepted code's row is closed.
RowsCount ==
  \A c \in Challenge :
    /\ wrong[c] = challenge[c].attempts
    /\ challenge[c].attempts <= MaxGuesses
    /\ challenge[c].state = "none" => challenge[c].attempts = 0
    /\ accepted[c] = 0 \/ (accepted[c] = 1 /\ challenge[c].state = "consumed")

OneOpen == \A p \in Purpose : \A c, d \in Open(p) : c = d

\* What is true of the codes and of the requests at work on them.
ChallengesInv ==
  TypeOK /\ LockExcludes /\ FoundStaysTrue /\ RowsCount /\ OneOpen /\ IssueLimit
=============================================================================
