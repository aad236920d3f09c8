---------------------------- MODULE WalletRequests ----------------------------
(***************************************************************************)
(* The requests that create, update and remove the wallets of one user and *)
(* set what they alert about (wallets.service.js). Each of them looks      *)
(* first, changes something in a statement or a transaction of its own,    *)
(* and looks again for its answer: what another request does in between    *)
(* shows in the answer or in the database.                                 *)
(*                                                                         *)
(* A transaction of wallets.repository.js locks the row of the user first, *)
(* so it is one step here. What transactions do to the pairs Alchemy       *)
(* watches is in AlchemyReconciliation.                                    *)
(***************************************************************************)
EXTENDS Integers

CONSTANTS
  Request,     \* HTTP requests of the user
  NumWallets,  \* wallets that can be created
  Address,
  Chain,
  Same         \* what a request says of an address or a setting it leaves alone

VARIABLES
  account,    \* whether the row of the user exists
  wallet,     \* tracked_wallets with the enabled rows of wallet_chains, in order of creation
  setting,    \* wallet_alert_settings: one flag a PUT may leave out; without a row it is on
  request,    \* what each request asks for, where it is and what it answers
  late,       \* history: per creation, the wallets that came to its address since it looked
  excused,    \* history: pairs of wallets one of which came to the other's address by an
              \* update, or between the look and the insertion of the other
  overtaken,  \* history: requests whose wallet or setting another one changed since their
              \* commit, or since they read it
  lost,       \* history: PUTs that changed the flag they leave out
  faulted     \* history: requests that met a failure

vars == <<account, wallet, setting, request, late, excused, overtaken, lost, faulted>>

Id == 1 .. NumWallets

NoWallet == [state |-> "none", address |-> Same, chain |-> Same, enabled |-> {}]

NoRequest == [pc |-> "new", kind |-> "none", address |-> Same, chains |-> {}, chain |-> Same,
              flag |-> Same, id |-> 0, seen |-> Same, shown |-> {}, answer |-> "none"]

Init ==
  /\ account = TRUE
  /\ wallet = [i \in Id |-> NoWallet]
  /\ setting = [i \in Id |-> "on"]
  /\ request = [r \in Request |-> NoRequest]
  /\ late = [r \in Request |-> {}]
  /\ excused = {}
  /\ overtaken = {}
  /\ lost = {}
  /\ faulted = {}

Live == {i \in Id : wallet[i].state = "live"}
At(a) == {i \in Live : wallet[i].address = a}

Goto(r, step) == request' = [request EXCEPT ![r].pc = step]
Answer(r, a) == request' = [request EXCEPT ![r].pc = "done", ![r].answer = a]

-----------------------------------------------------------------------------
(* The first look of a request.                                            *)

\* The wallet a creation takes for its own: the oldest one at the address, whatever its chains.
FoundOnChain(a, c) == {i \in At(a) : wallet[i].chain = c}
Found(a, c) == At(a)

Create(r) ==
  /\ request[r].pc = "new"
  /\ account
  /\ \E a \in Address, chains \in (SUBSET Chain) \ {{}} : \E c \in chains :
       LET found == Found(a, c)
           asks == [NoRequest EXCEPT !.kind = "create", !.address = a, !.chains = chains, !.chain = c]
       IN  request' = [request EXCEPT ![r] =
             IF found = {} THEN [asks EXCEPT !.pc = "insert"]
             ELSE [asks EXCEPT !.pc = "update", !.id = CHOOSE i \in found : \A j \in found : i <= j]]
  /\ UNCHANGED <<account, wallet, setting, late, excused, overtaken, lost, faulted>>

\* An update, a removal and a PUT name the wallet, which must be there.
Look(r, asks, step) ==
  \E i \in {j \in Id : wallet[j].state # "none"} :
    request' = [request EXCEPT ![r] =
      IF i \in Live THEN [asks EXCEPT !.id = i, !.pc = step]
      ELSE [asks EXCEPT !.id = i, !.pc = "done", !.answer = "missing"]]

Change(r) ==
  /\ request[r].pc = "new"
  /\ account
  /\ \/ \E a \in Address \union {Same}, chains \in SUBSET Chain :
          Look(r, [NoRequest EXCEPT !.kind = "update", !.address = a, !.chains = chains], "update")
     \/ Look(r, [NoRequest EXCEPT !.kind = "remove"], "delete")
     \/ \E f \in {"on", "off", Same} :
          Look(r, [NoRequest EXCEPT !.kind = "put", !.flag = f], "settings")
  /\ UNCHANGED <<account, wallet, setting, late, excused, overtaken, lost, faulted>>

-----------------------------------------------------------------------------
(* What a request changes.                                                 *)

\* The unique key of tracked_wallets: user, first chain, address.
Taken(c, a) == \E i \in At(a) : wallet[i].chain = c

\* A wallet comes to an address: creations that already looked did not see it there.
Arrives(i, a) ==
  late' = [q \in Request |->
    IF request[q].pc \in {"insert", "update"} /\ request[q].kind = "create" /\ request[q].address = a
    THEN late[q] \union {i} ELSE late[q]]

\* A wallet is changed: requests that committed but did not yet read their answer see it.
Overtakes(i) ==
  overtaken' = overtaken \union {q \in Request : request[q].id = i /\ request[q].pc \in {"row", "chains"}}

\* createWalletWithPreferences
Insert(r) ==
  LET w == request[r]
  IN  /\ w.pc = "insert"
      /\ \/ /\ ~ account
            /\ Answer(r, "no user")
            /\ UNCHANGED <<wallet, late, excused>>
         \/ /\ account
            /\ Taken(w.chain, w.address)
            /\ Answer(r, "conflict")
            /\ UNCHANGED <<wallet, late, excused>>
         \/ /\ account
            /\ ~ Taken(w.chain, w.address)
            /\ \E i \in Id :
                 /\ wallet[i].state = "none"
                 /\ \A j \in Id : j < i => wallet[j].state # "none"
                 /\ wallet' = [wallet EXCEPT ![i] =
                      [state |-> "live", address |-> w.address, chain |-> w.chain, enabled |-> w.chains]]
                 /\ request' = [request EXCEPT ![r].pc = "row", ![r].id = i]
                 /\ Arrives(i, w.address)
                 /\ excused' = excused \union {{i, j} : j \in late[r] \ {i}}
      /\ UNCHANGED <<account, setting, overtaken, lost, faulted>>

\* The chains a request names replace the enabled ones; none named, they stay.
EnabledMore(old, named) == old \union named
Enabled(old, named) == IF named = {} THEN old ELSE named

\* updateWalletById
Update(r) ==
  LET w == request[r]
      a == IF w.address = Same THEN wallet[w.id].address ELSE w.address
      moves == a # wallet[w.id].address
  IN  /\ w.pc = "update"
      /\ \/ /\ w.id \notin Live
            /\ Answer(r, "missing")
            /\ UNCHANGED <<wallet, late, excused, overtaken>>
         \/ /\ w.id \in Live
            /\ moves /\ Taken(wallet[w.id].chain, a)
            /\ Answer(r, "error")
            /\ UNCHANGED <<wallet, late, excused, overtaken>>
         \/ /\ w.id \in Live
            /\ ~ (moves /\ Taken(wallet[w.id].chain, a))
            /\ wallet' = [wallet EXCEPT ![w.id].address = a,
                                        ![w.id].enabled = Enabled(@, w.chains)]
            /\ Goto(r, "row")
            /\ IF moves
               THEN /\ Arrives(w.id, a)
                    /\ excused' = excused \union {{w.id, j} : j \in At(a)}
               ELSE UNCHANGED <<late, excused>>
            /\ Overtakes(w.id)
      /\ UNCHANGED <<account, setting, lost, faulted>>

\* deleteWalletById
Delete(r) ==
  LET i == request[r].id
  IN  /\ request[r].pc = "delete"
      /\ IF i \in Live
         THEN /\ wallet' = [wallet EXCEPT ![i].state = "gone"]
              /\ Goto(r, "verify")
              /\ Overtakes(i)
         ELSE Answer(r, "missing") /\ UNCHANGED <<wallet, overtaken>>
      /\ UNCHANGED <<account, setting, late, excused, lost, faulted>>

\* Alert settings: the flag is read, and written back if the request leaves it out.
ReadSettings(r) ==
  /\ request[r].pc = "settings"
  /\ request' = [request EXCEPT ![r].pc = "put", ![r].seen = setting[request[r].id]]
  /\ UNCHANGED <<account, wallet, setting, late, excused, overtaken, lost, faulted>>

MergedNot(w) == w.flag
DefaultMerged(w) == IF w.flag = Same THEN "on" ELSE w.flag
Merged(w) == IF w.flag = Same THEN w.seen ELSE w.flag

PutSettings(r) ==
  LET w == request[r]
  IN  /\ w.pc = "put"
      /\ IF w.id \in Live
         THEN /\ setting' = [setting EXCEPT ![w.id] = Merged(w)]
              /\ Answer(r, "ok")
              /\ overtaken' = overtaken \union
                   {q \in Request \ {r} : request[q].pc = "put" /\ request[q].id = w.id}
              /\ lost' = IF w.flag = Same /\ Merged(w) # setting[w.id] THEN lost \union {r} ELSE lost
         ELSE /\ Answer(r, "error")
              /\ UNCHANGED <<setting, overtaken, lost>>
      /\ UNCHANGED <<account, wallet, late, excused, faulted>>

-----------------------------------------------------------------------------
(* The answer: the row of the wallet and its chains, read one by one.      *)

\* A creation whose wallet is gone answers 201 with nothing, an update 404.
ReadRow(r) ==
  LET w == request[r]
  IN  /\ w.pc = "row"
      /\ IF w.id \in Live
         THEN request' = [request EXCEPT ![r].pc = "chains", ![r].seen = wallet[w.id].address]
         ELSE Answer(r, IF w.kind = "create" THEN "empty" ELSE "missing")
      /\ UNCHANGED <<account, wallet, setting, late, excused, overtaken, lost, faulted>>

ReadChains(r) ==
  LET i == request[r].id
  IN  /\ request[r].pc = "chains"
      /\ request' = [request EXCEPT ![r].pc = "done", ![r].answer = "ok",
                       ![r].shown = IF i \in Live THEN wallet[i].enabled ELSE {}]
      /\ UNCHANGED <<account, wallet, setting, late, excused, overtaken, lost, faulted>>

VerifyDeleted(r) ==
  /\ request[r].pc = "verify"
  /\ Answer(r, IF request[r].id \in Live THEN "unverified" ELSE "deleted")
  /\ UNCHANGED <<account, wallet, setting, late, excused, overtaken, lost, faulted>>

\* A statement fails, or the answer to a COMMIT is lost: the request answers 500; what it asked for
\* is forgotten here.
StatementFails(r) ==
  /\ request[r].pc \notin {"new", "done"}
  /\ request' = [request EXCEPT ![r] = [NoRequest EXCEPT !.pc = "done", !.answer = "error"]]
  /\ faulted' = faulted \union {r}
  /\ UNCHANGED <<account, wallet, setting, late, excused, overtaken, lost>>

\* accountDeletion.repository.js: the wallets go with the user.
DeleteAccount ==
  /\ account
  /\ account' = FALSE
  /\ wallet' = [i \in Id |-> IF i \in Live THEN [wallet[i] EXCEPT !.state = "gone"] ELSE wallet[i]]
  /\ overtaken' = overtaken \union {q \in Request : request[q].pc \in {"row", "chains"}}
  /\ UNCHANGED <<setting, request, late, excused, lost, faulted>>

Next ==
  \/ \E r \in Request :
       \/ Create(r) \/ Change(r) \/ Insert(r) \/ Update(r) \/ Delete(r)
       \/ ReadSettings(r) \/ PutSettings(r)
       \/ ReadRow(r) \/ ReadChains(r) \/ VerifyDeleted(r) \/ StatementFails(r)
  \/ DeleteAccount

Spec == Init /\ [][Next]_vars

-----------------------------------------------------------------------------
Work ==
  [pc : {"new", "insert", "update", "delete", "verify", "settings", "put", "row", "chains", "done"},
   kind : {"none", "create", "update", "remove", "put"},
   address : Address \union {Same}, chains : SUBSET Chain, chain : Chain \union {Same},
   flag : {"on", "off", Same}, id : Id \union {0}, seen : Address \union {Same, "on", "off"},
   shown : SUBSET Chain,
   answer : {"none", "ok", "empty", "deleted", "unverified", "missing", "conflict", "no user", "error"}]

TypeOK ==
  /\ account \in BOOLEAN
  /\ wallet \in [Id -> [state : {"none", "live", "gone"}, address : Address \union {Same},
                        chain : Chain \union {Same}, enabled : SUBSET Chain]]
  /\ setting \in [Id -> {"on", "off"}]
  /\ request \in [Request -> Work]
  /\ late \in [Request -> SUBSET Id]
  /\ excused \subseteq SUBSET Id
  /\ overtaken \union lost \union faulted \subseteq Request

\* A user has one wallet per address (wallets.service.js:27), except where two requests
\* overlapped or an update, which does not look, moved a wallet there; and then the two have
\* different first chains, so that no event and no watch is stored for one row twice.
TwinsExplained ==
  \A i, j \in Live : i # j /\ wallet[i].address = wallet[j].address =>
    /\ wallet[i].chain # wallet[j].chain
    /\ {i, j} \in excused

\* A request is refused only for a reason the user can see (wallets.service.js:37-55, 65-80,
\* 89-97), an error is a failure or a clash with another wallet, and an answer shows what was
\* asked for unless another request changed the wallet since.
Explained(r) ==
  LET w == request[r]
  IN  CASE w.answer \in {"missing", "empty", "deleted"} -> w.id \notin Live
        [] w.answer = "conflict" -> late[r] # {}
        [] w.answer = "no user" -> ~ account
        [] w.answer = "error" -> \/ r \in faulted
                                 \/ w.kind = "create" /\ late[r] # {}
                                 \/ w.kind = "update" /\ w.address # Same
                                 \/ w.kind = "put" /\ w.id \notin Live
        [] w.answer = "ok" /\ w.kind # "put" ->
             r \notin overtaken => /\ w.address \in {Same, w.seen}
                                   /\ w.shown # {}
                                   /\ w.chains \in {{}, w.shown}
        [] OTHER -> w.answer # "unverified"

\* A PUT changes a flag it leaves out only when another PUT came between its read and its write
\* (wallets.service.js:124-133).
SettingsKept == lost \subseteq overtaken

RequestsExplained ==
  /\ TwinsExplained
  /\ \A r \in Request : Explained(r)
  /\ SettingsKept

-----------------------------------------------------------------------------
(* The invariant of the proofs.                                            *)

\* What the proofs assume: nothing can be asked for that means to leave it alone.
NamesAssumption == Same \notin Address \union Chain \union {"on", "off"}

\* What a request has of the wallet it works on: it was there, and if it is not done with a
\* creation it knows of every wallet that came to the address since it looked.
Begun(r) ==
  LET w == request[r]
  IN  /\ w.pc # "done" => w.answer = "none"
      /\ w.id # 0 => wallet[w.id].state # "none"
      /\ w.pc \notin {"new", "insert", "done"} => w.id \in Id
      /\ w.pc = "insert" => /\ w.kind = "create" /\ w.address # Same /\ w.chain # Same /\ w.chains # {}
                            /\ At(w.address) \subseteq late[r]
      /\ w.pc = "update" => w.kind \in {"create", "update"}
      /\ w.pc = "update" /\ w.kind = "create" =>
           /\ w.address # Same
           /\ \A i \in At(w.address) \ late[r] : i = w.id \/ wallet[i].chain # wallet[w.id].chain
      /\ w.pc = "verify" => w.id \notin Live

\* What a request that committed, or read a setting, finds when nobody overtook it.
Undisturbed(r) ==
  LET w == request[r]
  IN  /\ w.pc \in {"row", "chains"} => w.kind \in {"create", "update"}
      /\ w.pc \in {"row", "chains"} /\ r \notin overtaken =>
           /\ w.id \in Live
           /\ w.address \in {Same, wallet[w.id].address}
           /\ w.chains \in {{}, wallet[w.id].enabled}
           /\ w.pc = "chains" => w.seen = wallet[w.id].address
      /\ w.pc \in {"settings", "put"} => w.kind = "put"
      /\ w.pc = "put" => w.seen \in {"on", "off"}
      /\ w.pc = "put" /\ r \notin overtaken => w.seen = setting[w.id]

RequestsInv ==
  /\ TypeOK
  /\ \A i \in Live : wallet[i].enabled # {} /\ wallet[i].address # Same
  /\ \A r \in Request : Begun(r) /\ Undisturbed(r)
  /\ RequestsExplained
=============================================================================
