-------------------------- MODULE WalletPositions --------------------------
(***************************************************************************)
(* The protocol positions of one wallet, as one process answers requests   *)
(* for them (positions/positions.service.js, positions/positions.provider  *)
(* .js, positions/positions.repository.js): a detail request may call      *)
(* Zerion, chain after chain, and shares the call under way; a list request*)
(* takes what memory has and then what the database has. Zerion's answers  *)
(* are kept per address and chain, with a last good one for failures and a *)
(* pause after each 429; the wallet's result is kept whatever the address. *)
(* Other wallets, which may have an address in common with it, are left    *)
(* out, and so is a server without a key for Zerion.                       *)
(*                                                                         *)
(* The event loop runs the code between two awaits without interruption:   *)
(* that is one step. A part is what Zerion once returned for a chain.      *)
(***************************************************************************)
EXTENDS Integers

CONSTANTS
  Address,      \* addresses the wallet is given
  NumChains,    \* chains that may be enabled, in the order in which they are fetched
  Request,      \* requests served at the same time
  Ttl,          \* POSITIONS_CACHE_TTL_MS, here and in the provider
  DegradedTtl,  \* DEGRADED_POSITIONS_CACHE_TTL_MS
  GoodTtl,      \* POSITIONS_LAST_KNOWN_GOOD_TTL_MS
  CoolDown,     \* ZERION_RATE_LIMIT_COOLDOWN_MS
  MaxAge,       \* PERSISTED_POSITIONS_MAX_AGE_MS
  LoopTime,     \* how long the calls for all chains take at most
  DatabaseTime, \* how long a read of the database takes at most
  MaxAnswers,   \* bound: how many calls Zerion answers
  MaxTime       \* bound: the clock

ChainNo == 1 .. NumChains

VARIABLES
  now,          \* Date.now()
  address,      \* tracked_wallets.address
  changedAt,    \* history: when the address was changed, or -1; bound: it changes once
  enabled,      \* how many of the chains are enabled, the first ones: they stay
  stored,       \* the wallet_chain_positions_cache rows
  chainCache,   \* positionsCache of the provider
  chainGood,    \* positionsLastKnownGoodCache
  coolUntil,    \* zerionCooldownUntil
  cache,        \* positionsCache of the service, for this wallet
  joint,        \* inFlightPositionsPromises, for this wallet, and the call under way
  request,      \* what each request is doing
  answers       \* how many calls Zerion answered

row == <<address, changedAt, enabled>>
Enabled == 1 .. enabled

provider == <<chainCache, chainGood, coolUntil, answers>>
vars == <<now, row, stored, provider, cache, joint, request>>

None == [kind |-> "none"]
NoJoint == [at |-> "none"]
Idle == [at |-> "idle"]

Part == [kind : {"part"}, address : Address, at : 0 .. MaxTime, stored : BOOLEAN,
         captured : 0 .. MaxTime]

\* A response for one chain; an error takes the place of one.
Response == [kind : {"response"}, part : Part \union {None}, partial : BOOLEAN]
Error == [kind |-> "error"]

Result == [kind : {"result"}, address : Address, parts : [ChainNo -> Part \union {None}],
           partial : BOOLEAN, listOnly : BOOLEAN, expires : Nat]

TypeOK ==
  /\ now \in 0 .. MaxTime /\ address \in Address /\ changedAt \in -1 .. MaxTime
  /\ enabled \in ChainNo
  /\ coolUntil \in 0 .. MaxTime + CoolDown /\ answers \in 0 .. MaxAnswers
  /\ \A c \in ChainNo : stored[c] \in Part \union {None}
  /\ \A k \in Address \X ChainNo :
       /\ chainCache[k] = None \/ chainCache[k].value \in Response
       /\ chainGood[k] = None \/ chainGood[k].value \in Part
  /\ cache \in Result \union {None}
  /\ joint = NoJoint \/ /\ joint.at \in {"fetching", "calling", "persisting"}
                        /\ \A c \in ChainNo : joint.got[c] \in Response \union {Error, None}
  /\ \A r \in Request :
       /\ request[r].at \in {"idle", "found", "loading"}
       /\ request[r].at = "loading" => \A c \in ChainNo : request[r].peeked[c] \in Response \union {None}

Nowhere == [k \in Address \X ChainNo |-> None]

Init ==
  /\ now = 0
  /\ address = CHOOSE a \in Address : TRUE
  /\ changedAt = -1
  /\ enabled \in ChainNo
  /\ stored = [c \in ChainNo |-> None]
  /\ chainCache = Nowhere /\ chainGood = Nowhere /\ coolUntil = 0
  /\ cache = None /\ joint = NoJoint
  /\ request = [r \in Request |-> Idle]
  /\ answers = 0

Goto(r, work) == request' = [request EXCEPT ![r] = work]

----------------------------------------------------------------------------
(* Values and entries.                                                     *)

Fresh(entry) == entry # None /\ entry.expires > now
Cached(value, ttl) == [kind |-> "entry", value |-> value, expires |-> now + ttl]

\* peekCachedWalletPositionsForChain and peekLastKnownGoodPositionsForChain.
Peek(a, c) == IF Fresh(chainCache[<<a, c>>]) THEN chainCache[<<a, c>>].value ELSE None
PeekGood(a, c) == IF Fresh(chainGood[<<a, c>>]) THEN chainGood[<<a, c>>].value ELSE None

ResponseOf(part, partial) == [kind |-> "response", part |-> part, partial |-> partial]

Min2(x, y) == IF x < y THEN x ELSE y

\* aggregatePositionsResponse and setCachedPositions; a result that holds persisted
\* positions expires no later than they do.
ResultOf(a, responses, listOnly, until) ==
  LET partial == \E c \in Enabled : responses[c].kind # "response" \/ responses[c].partial IN
  [kind |-> "result", address |-> a, partial |-> partial, listOnly |-> listOnly,
   parts |-> [c \in ChainNo |-> IF responses[c].kind = "response" THEN responses[c].part ELSE None],
   expires |-> Min2(now + (IF partial THEN DegradedTtl ELSE Ttl), until)]

Forever == MaxTime + Ttl + DegradedTtl + MaxAge

----------------------------------------------------------------------------
(* A detail request.                                                       *)

\* findSupportedWallet.
Ask(r, kind) ==
  /\ request[r].at = "idle"
  /\ Goto(r, [at |-> "found", kind |-> kind, address |-> address, since |-> now])
  /\ UNCHANGED <<now, row, stored, provider, cache, joint>>

\* Answered from a result that no list request left, or by the promise all share.
Detail(r) ==
  /\ request[r].at = "found" /\ request[r].kind = "detail"
  /\ Goto(r, Idle)
  /\ IF (Fresh(cache) /\ ~cache.listOnly) \/ joint # NoJoint THEN joint' = joint
     ELSE joint' = [at |-> "fetching", address |-> request[r].address, since |-> now, chain |-> 1,
                    got |-> [c \in ChainNo |-> None], stale |-> None, captured |-> 0]
  /\ UNCHANGED <<now, row, stored, provider, cache>>

\* The loop goes on to the next chain, unless a complete response is stored first.
Received(response) ==
  joint' = IF response.kind = "response" /\ ~response.partial
           THEN [joint EXCEPT !.got[joint.chain] = response, !.stale = None,
                              !.at = "persisting", !.captured = now]
           ELSE [joint EXCEPT !.got[joint.chain] = response, !.stale = None,
                              !.at = "fetching", !.chain = @ + 1]

\* fetchWalletPositionsForChain up to its call: the cache, the pause after a 429,
\* or a call, for whose failure the good value known now is kept.
FetchNext ==
  LET a == joint.address
      c == joint.chain
      stale == PeekGood(a, c) IN
  /\ joint.at = "fetching" /\ joint.chain <= enabled
  /\ \/ /\ Peek(a, c) # None
        /\ Received(Peek(a, c))
        /\ UNCHANGED provider
     \/ /\ Peek(a, c) = None /\ coolUntil > now
        /\ Received(ResponseOf(stale, TRUE))
        /\ chainCache' = [chainCache EXCEPT ![<<a, c>>] = Cached(ResponseOf(stale, TRUE), Ttl)]
        /\ UNCHANGED <<chainGood, coolUntil, answers>>
     \/ /\ Peek(a, c) = None /\ coolUntil <= now
        /\ joint' = [joint EXCEPT !.at = "calling", !.stale = stale]
        /\ UNCHANGED provider
  /\ UNCHANGED <<now, row, stored, cache, request>>

\* The call ends and the loop goes on.
Settle(response) ==
  /\ joint.at = "calling"
  /\ Received(response)
  /\ UNCHANGED <<now, row, stored, cache, request>>

CacheForChain(response) ==
  chainCache' = [chainCache EXCEPT ![<<joint.address, joint.chain>>] = Cached(response, Ttl)]

\* Every page arrives, or too many of them.
ProviderAnswers(partial) ==
  LET p == [kind |-> "part", address |-> joint.address, at |-> now, stored |-> FALSE,
            captured |-> 0] IN
  /\ Settle(ResponseOf(p, partial))
  /\ answers < MaxAnswers /\ answers' = answers + 1
  /\ CacheForChain(ResponseOf(p, partial))
  /\ chainGood' = IF partial THEN chainGood
                  ELSE [chainGood EXCEPT ![<<joint.address, joint.chain>>] = Cached(p, GoodTtl)]
  /\ UNCHANGED coolUntil

\* A 429, or another failure. An empty response is cached after a 429 only.
ProviderFails(limited) ==
  LET response == ResponseOf(joint.stale, TRUE) IN
  /\ Settle(response)
  /\ coolUntil' = IF limited THEN now + CoolDown ELSE coolUntil
  /\ IF limited \/ joint.stale # None THEN CacheForChain(response) ELSE UNCHANGED chainCache
  /\ UNCHANGED <<chainGood, answers>>

\* Zerion does not know the chain.
ProviderRefuses == Settle(Error) /\ UNCHANGED provider

\* upsertWalletChainPositionsCache, which leaves a younger row, and whose failure is
\* swallowed.
Persist ==
  LET c == joint.chain IN
  /\ joint.at = "persisting"
  /\ \/ /\ stored[c] # None => stored[c].captured <= joint.captured
        /\ stored' = [stored EXCEPT ![c] = [joint.got[c].part EXCEPT !.stored = TRUE,
                                                                  !.captured = joint.captured]]
     \/ stored' = stored
  /\ joint' = [joint EXCEPT !.at = "fetching", !.chain = @ + 1, !.captured = 0]
  /\ UNCHANGED <<now, row, provider, cache, request>>

\* All chains are through. Without any response the promise is rejected.
FinishDetail ==
  /\ joint.at = "fetching" /\ joint.chain > enabled
  /\ cache' = IF \A c \in Enabled : joint.got[c] = Error THEN cache
              ELSE ResultOf(joint.address, joint.got, FALSE, Forever)
  /\ joint' = NoJoint
  /\ UNCHANGED <<now, row, stored, provider, request>>

----------------------------------------------------------------------------
(* A list request.                                                         *)

\* The result of a list request, from memory and what the database had. Nothing
\* known is answered with null.
ListResult(a, responses) ==
  LET until == {responses[c].part.captured + MaxAge :
                  c \in {d \in Enabled : /\ responses[d].kind = "response"
                                         /\ responses[d].part # None
                                         /\ responses[d].part.stored}} \union {Forever} IN
  IF \A c \in Enabled : responses[c] = None THEN cache
  ELSE ResultOf(a, responses, TRUE, CHOOSE u \in until : \A v \in until : u <= v)

\* getCachedWalletPositions up to its read of the database, which it needs only for
\* chains the provider's cache does not have.
ListFromMemory(r) ==
  LET a == request[r].address
      peeked == [c \in ChainNo |-> IF c \in Enabled THEN Peek(a, c) ELSE None] IN
  /\ request[r].at = "found" /\ request[r].kind = "list"
  /\ \/ Fresh(cache) /\ Goto(r, Idle) /\ UNCHANGED cache
     \/ /\ ~Fresh(cache) /\ \A c \in Enabled : peeked[c] # None
        /\ Goto(r, Idle)
        /\ cache' = ListResult(a, peeked)
     \/ /\ ~Fresh(cache) /\ \E c \in Enabled : peeked[c] = None
        /\ Goto(r, [at |-> "loading", kind |-> "list", address |-> a, since |-> request[r].since,
                    peeked |-> peeked])
        /\ UNCHANGED cache
  /\ UNCHANGED <<now, row, stored, provider, joint>>

\* Mutant: the rows of any address the wallet had.
PersistedForAnyAddress(a, c) ==
  IF stored[c] # None /\ stored[c].captured + MaxAge > now THEN ResponseOf(stored[c], TRUE) ELSE None

\* findWalletChainPositionsCaches: the rows of the address that are young enough, when
\* they are read and when they are used.
Persisted(a, c) ==
  IF stored[c] # None /\ stored[c].address = a /\ stored[c].captured + MaxAge > now
  THEN ResponseOf(stored[c], TRUE) ELSE None

\* Mutant: what was cached during the read is not looked at again.
NothingNewer == FALSE

\* newlyCachedPositions.
NewlyCached == Fresh(cache)

\* The rows are there, or their read has failed; meanwhile the cache may have been
\* filled.
ListFromRows(r) ==
  LET a == request[r].address
      peeked == request[r].peeked IN
  /\ request[r].at = "loading"
  /\ \E readable \in BOOLEAN :
       cache' = IF NewlyCached THEN cache
                ELSE ListResult(a, [c \in ChainNo |-> IF c \in Enabled /\ peeked[c] = None /\ readable
                                                    THEN Persisted(a, c) ELSE peeked[c]])
  /\ Goto(r, Idle)
  /\ UNCHANGED <<now, row, stored, provider, joint>>

----------------------------------------------------------------------------
(* The surroundings.                                                       *)

ChangeAddress(a) ==
  /\ changedAt = -1
  /\ a # address
  /\ address' = a /\ changedAt' = now /\ enabled' = enabled
  /\ UNCHANGED <<now, stored, provider, cache, joint, request>>

\* An entry that has expired is deleted when it is read; here, when it expires.
Kept(entry) == IF entry # None /\ entry.expires <= now + 1 THEN None ELSE entry

\* The database and the calls are not later than they may be.
Tick ==
  /\ now < MaxTime
  /\ \A r \in Request : request[r].at # "idle" => now < request[r].since + DatabaseTime
  /\ joint # NoJoint => now < joint.since + LoopTime
  /\ now' = now + 1
  /\ chainCache' = [k \in Address \X ChainNo |-> Kept(chainCache[k])]
  /\ chainGood' = [k \in Address \X ChainNo |-> Kept(chainGood[k])]
  /\ cache' = Kept(cache)
  /\ UNCHANGED <<row, stored, coolUntil, answers, joint, request>>

Next ==
  \/ Tick
  \/ \E r \in Request : \/ \E kind \in {"detail", "list"} : Ask(r, kind)
                        \/ Detail(r) \/ ListFromMemory(r) \/ ListFromRows(r)
  \/ \E b \in BOOLEAN : ProviderAnswers(b) \/ ProviderFails(b)
  \/ ProviderRefuses
  \/ FetchNext \/ Persist \/ FinishDetail
  \/ \E a \in Address : ChangeAddress(a)

Spec == Init /\ [][Next]_vars

----------------------------------------------------------------------------
(* Properties.                                                             *)

\* What a caller may be answered with is about one address: the wallet's, or for a
\* short while after its change the one before it. A complete result has every chain,
\* each fetched within two cache lifetimes and one loop; positions that stand in for
\* a failed call are of bounded age too. A result holds persisted ones only if it is
\* for lists; it is gone when they are a day old (README: "Persisted positions older
\* than 24 hours are ignored"), and they are not much older than they say they are.
HonestPositions ==
  cache # None =>
    LET found == {c \in ChainNo : cache.parts[c] # None} IN
    /\ \A c \in found : cache.parts[c].address = cache.address
    /\ cache.address # address => now < changedAt + DatabaseTime + LoopTime + Ttl
    /\ ~cache.partial => /\ found = Enabled
                         /\ \A c \in Enabled : now < cache.parts[c].at + 2 * Ttl + LoopTime
    /\ \A c \in found :
         LET p == cache.parts[c] IN
         IF p.stored
         THEN /\ cache.listOnly /\ cache.partial
              /\ now < p.captured + MaxAge /\ p.captured < p.at + Ttl
         ELSE now < p.at + GoodTtl + 2 * LoopTime + Ttl + DatabaseTime + DegradedTtl

\* A list request never puts its result in the place of a detail result that came
\* while it read the database (newlyCachedPositions).
DetailResultKept ==
  [][cache # None /\ ~cache.listOnly /\ cache' # None => ~cache'.listOnly]_vars
----------------------------------------------------------------------------
(* Why HonestPositions holds: an invariant that every step keeps.          *)

PositionsAssumption ==
  /\ Address # {} /\ NumChains \in Nat \ {0}
  /\ Ttl \in Nat \ {0} /\ DegradedTtl \in Nat \ {0} /\ MaxAge \in Nat \ {0}
  /\ GoodTtl \in Nat /\ CoolDown \in Nat /\ LoopTime \in Nat /\ DatabaseTime \in Nat
  /\ DegradedTtl <= Ttl /\ Ttl <= GoodTtl
  /\ MaxAnswers \in Nat /\ MaxTime \in Nat

Entry(value) == [kind : {"entry"}, value : value, expires : Nat]
Fetching == [at : {"fetching", "calling", "persisting"}, address : Address, since : 0 .. MaxTime,
             chain : 1 .. NumChains + 1, got : [ChainNo -> Response \union {Error, None}],
             stale : Part \union {None}, captured : 0 .. MaxTime]
Asking == [at : {"found"}, kind : {"detail", "list"}, address : Address, since : 0 .. MaxTime]
Loading == [at : {"loading"}, kind : {"list"}, address : Address, since : 0 .. MaxTime,
            peeked : [ChainNo -> Response \union {None}]]

Types ==
  /\ now \in 0 .. MaxTime /\ address \in Address /\ changedAt \in -1 .. MaxTime
  /\ enabled \in ChainNo
  /\ coolUntil \in 0 .. MaxTime + CoolDown /\ answers \in 0 .. MaxAnswers
  /\ stored \in [ChainNo -> Part \union {None}]
  /\ chainCache \in [Address \X ChainNo -> Entry(Response) \union {None}]
  /\ chainGood \in [Address \X ChainNo -> Entry(Part) \union {None}]
  /\ cache \in Result \union {None}
  /\ joint \in Fetching \union {NoJoint}
  /\ request \in [Request -> Asking \union Loading \union {Idle}]

\* A response for an address that is used at the time t: its part is from Zerion, and if
\* it is complete it was fetched within a cache lifetime.
Usable(v, a, t) ==
  /\ v.part # None => /\ v.part.address = a /\ ~v.part.stored
                      /\ t < v.part.at + GoodTtl + LoopTime + Ttl
  /\ ~v.partial => v.part # None /\ t < v.part.at + Ttl

\* What the provider module holds is for the address it is under and goes in time: it is
\* usable until then.
CacheSound(k, e) == e # None => Usable(e.value, k[1], e.expires - 1)
GoodSound(k, e) ==
  e # None => /\ e.value.address = k[1] /\ ~e.value.stored
              /\ e.expires <= e.value.at + GoodTtl
ProviderKept ==
  \A k \in Address \X ChainNo : CacheSound(k, chainCache[k]) /\ GoodSound(k, chainGood[k])

\* A row says that it is one, and it was young when it was captured.
RowSound(p) == p # None => p.stored /\ p.captured < p.at + Ttl
RowsKept == \A c \in ChainNo : RowSound(stored[c])

\* The call under way: when it began, it was for the wallet's address or for the one the
\* wallet had when a request read it, and what it got was usable then.
CallSound(j) ==
  j # NoJoint =>
    /\ j.since <= now /\ now <= j.since + LoopTime
    /\ j.address # address => changedAt # -1 /\ j.since <= changedAt + DatabaseTime
    /\ j.stale # None => /\ j.stale.address = j.address /\ ~j.stale.stored
                         /\ j.since < j.stale.at + GoodTtl
    /\ j.chain <= enabled + 1 /\ (j.at # "fetching" => j.chain <= enabled)
    /\ \A c \in ChainNo :
         j.got[c].kind = "response" => c \in Enabled /\ Usable(j.got[c], j.address, j.since)
    /\ j.at = "persisting" => /\ j.got[j.chain].kind = "response" /\ ~j.got[j.chain].partial
                              /\ j.captured < j.got[j.chain].part.at + Ttl

\* A request is not late, and it has the wallet's address or the one before it; what it
\* found in memory was usable when it began.
RequestSound(q) ==
  q.at # "idle" =>
    /\ q.since <= now /\ now <= q.since + DatabaseTime
    /\ q.address # address => changedAt # -1 /\ q.since <= changedAt
    /\ q.at = "loading" =>
         /\ \E c \in Enabled : q.peeked[c] = None
         /\ \A c \in ChainNo :
              q.peeked[c] # None => c \in Enabled /\ Usable(q.peeked[c], q.address, q.since)
RequestsSound == \A r \in Request : RequestSound(request[r])

\* The result goes before it breaks HonestPositions.
PartKept(v, p) ==
  /\ p.address = v.address
  /\ IF p.stored THEN /\ v.listOnly /\ v.partial
                      /\ v.expires <= p.captured + MaxAge /\ p.captured < p.at + Ttl
     ELSE v.expires <= p.at + GoodTtl + 2 * LoopTime + Ttl + DatabaseTime + DegradedTtl
ResultKept(v) ==
  v # None =>
    /\ now < v.expires /\ v.expires <= now + Ttl
    /\ v.address # address => /\ changedAt # -1
                              /\ v.expires <= changedAt + DatabaseTime + LoopTime + Ttl
    /\ ~v.partial => /\ \A c \in ChainNo : v.parts[c] # None <=> c \in Enabled
                     /\ \A c \in Enabled : v.expires <= v.parts[c].at + 2 * Ttl + LoopTime
    /\ \A c \in ChainNo : v.parts[c] # None => PartKept(v, v.parts[c])

PositionsInv ==
  Types /\ ProviderKept /\ RowsKept /\ CallSound(joint) /\ RequestsSound /\ ResultKept(cache)
=============================================================================
