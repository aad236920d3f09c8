--------------------------- MODULE WalletHoldings ---------------------------
(***************************************************************************)
(* The token holdings of one wallet, as one process answers requests for   *)
(* them (holdings/holdings.service.js, holdings/holdings.repository.js):   *)
(* a memory cache and a last known good value per request mode, the same   *)
(* per address and chain, one shared provider call per address and chain,  *)
(* and rows in the database that survive a restart. The caches of two      *)
(* wallets have no key in common.                                          *)
(*                                                                         *)
(* The event loop runs the code between two awaits without interruption:   *)
(* that is one step. A part is what one provider call returned for one     *)
(* chain: which address and when, and whether it is complete, still usable *)
(* or neither. Amounts are left out. Only supported chains are enabled.    *)
(***************************************************************************)
EXTENDS Integers

CONSTANTS
  Address,      \* addresses the wallet is given
  Chain,        \* chains that may be enabled
  Request,      \* requests served at the same time
  Quality,      \* what a chain's result may be like, of AnyQuality
  Ttl,          \* HOLDINGS_CACHE_TTL_MS
  DegradedTtl,  \* AGGREGATED_DEGRADED_HOLDINGS_CACHE_TTL_MS
  ChainDegradedTtl,  \* PER_CHAIN_DEGRADED_HOLDINGS_CACHE_TTL_MS
  GoodTtl,      \* LAST_KNOWN_GOOD_HOLDINGS_CACHE_TTL_MS
  MaxAge,       \* PERSISTED_HOLDINGS_MAX_AGE_MS
  Timeout,      \* HOLDINGS_CHAIN_TIMEOUT_MS
  DatabaseTime, \* DATABASE_STATEMENT_TIMEOUT_MS and the wait for a connection
  MaxAnswers,   \* bound: how many calls the provider answers
  MaxTime       \* bound: the clock

\* isDegradedHoldingsResult: balances are missing or come with a reason, or no token
\* has a usable price ("degraded"), also for being cut off at the page limit ("cut").
\* A "complete" one may still lack the prices of some tokens, as long as another has
\* one. The empty ones hold no token.
AnyQuality == {"complete", "complete_empty", "degraded", "degraded_empty", "cut"}

\* "usual": persisted values may be served. "live": requireLive.
Mode == {"usual", "live"}

VARIABLES
  now,          \* Date.now()
  address,      \* tracked_wallets.address
  changedAt,    \* history: when the address was changed, or -1; bound: it changes once
  enabled,      \* its tracked_wallet_chains, which stay: the result caches of other ones
                \* have other keys
  stored,       \* the wallet_chain_holdings_cache rows
  chainCache,   \* chainHoldingsCache
  chainGood,    \* chainLastKnownGoodHoldingsCache
  cache,        \* holdingsCache
  good,         \* lastKnownGoodHoldingsCache
  fetch,        \* inFlightChainHoldingsPromises and their provider calls
  joint,        \* inFlightHoldingsPromises
  request,      \* what each request is doing
  answers       \* how many calls the provider answered

row == <<address, changedAt, enabled>>
memory == <<chainCache, chainGood, cache, good>>
vars == <<now, row, stored, memory, fetch, joint, request, answers>>

None == [kind |-> "none"]
Part == [kind : {"part"}, address : Address, at : 0 .. MaxTime,
         quality : AnyQuality, source : {"live", "stored"}]
Result == [kind : {"result"}, address : Address, parts : [Chain -> Part \union {None}],
           partial : BOOLEAN]
Entry(value) == [kind : {"entry"}, value : value, expires : Nat]

NoJoint == [at |-> "none"]
Idle == [at |-> "idle"]
Waiting == [kind |-> "waiting"]

TypeOK ==
  /\ now \in 0 .. MaxTime /\ address \in Address /\ changedAt \in -1 .. MaxTime
  /\ enabled \in (SUBSET Chain) \ {{}}
  /\ stored \in [Chain -> Part \union {None}]
  /\ \A k \in Address \X Chain :
       /\ chainCache[k] \in Entry(Part) \union {None}
       /\ chainGood[k] \in Entry(Part) \union {None}
       /\ fetch[k].at \in {"none", "calling", "persisting"}
  /\ \A m \in Mode :
       /\ cache[m] = None \/ cache[m].value \in Result
       /\ good[m] = None \/ good[m].value \in Result
       /\ joint[m] = NoJoint
          \/ \A c \in Chain : joint[m].got[c] \in Part \union {None, Waiting}
  /\ \A r \in Request :
       /\ request[r].at \in {"idle", "found", "loading"}
       /\ request[r].at # "idle" => request[r].mode \in Mode /\ request[r].address \in Address
  /\ answers \in 0 .. MaxAnswers

Nowhere == [k \in Address \X Chain |-> None]

Init ==
  /\ now = 0
  /\ address = CHOOSE a \in Address : TRUE
  /\ changedAt = -1
  /\ enabled \in (SUBSET Chain) \ {{}}
  /\ stored = [c \in Chain |-> None]
  /\ chainCache = Nowhere /\ chainGood = Nowhere
  /\ cache = [m \in Mode |-> None] /\ good = [m \in Mode |-> None]
  /\ fetch = [k \in Address \X Chain |-> [at |-> "none"]]
  /\ joint = [m \in Mode |-> NoJoint]
  /\ request = [r \in Request |-> Idle]
  /\ answers = 0

----------------------------------------------------------------------------
(* Values and entries.                                                     *)

\* isUsableLastKnownGoodHoldingsResult and isDegradedHoldingsResult.
UsablePart(p) == p.quality \in {"complete", "complete_empty", "degraded"}
Degraded(p) == p.quality \notin {"complete", "complete_empty"}
UsableResult(v) ==
  LET found == {c \in Chain : v.parts[c] # None} IN
  /\ \A c \in found : v.parts[c].quality # "cut"
  /\ \/ \E c \in found : v.parts[c].quality \in {"complete", "degraded"}
     \/ ~v.partial

Fresh(entry) == entry # None /\ entry.expires > now
Cached(value, ttl) == [kind |-> "entry", value |-> value, expires |-> now + ttl]

\* Mutant: a live request takes what came from the database.
GoodForAnyone(mode, a, c) ==
  IF Fresh(chainGood[<<a, c>>]) THEN chainGood[<<a, c>>].value ELSE None

\* getLastKnownGoodHoldings.
KnownGood(mode) == IF Fresh(good[mode]) THEN good[mode].value ELSE None

\* getLastKnownGoodChainHoldings; a live request refuses a value from the database.
GoodFor(mode, a, c) ==
  IF Fresh(chainGood[<<a, c>>]) /\ (mode = "live" => chainGood[<<a, c>>].value.source = "live")
  THEN chainGood[<<a, c>>].value ELSE None

\* setCachedHoldings and setLastKnownGoodHoldings. What the caches hold under a
\* live key came from live requests, so the source need not be kept.
ResultCached(mode, v) ==
  cache' = [cache EXCEPT ![mode] = Cached(v, IF v.partial THEN DegradedTtl ELSE Ttl)]
ResultGood(mode, v) ==
  good' = IF UsableResult(v) THEN [good EXCEPT ![mode] = Cached(v, GoodTtl)] ELSE good

\* The request has its answer, or waits for the promise of its mode with no more
\* to do: what it is answered with is what the cache of the mode holds then.
Done(r) == request' = [request EXCEPT ![r] = Idle]

----------------------------------------------------------------------------
(* A request up to the shared work.                                        *)

\* findWalletById.
Ask(r, mode) ==
  /\ request[r].at = "idle"
  /\ request' = [request EXCEPT ![r] =
       [at |-> "found", mode |-> mode, address |-> address, since |-> now, good |-> None]]
  /\ UNCHANGED <<now, row, stored, memory, fetch, joint, answers>>

\* The requests of a mode share one promise: resolveChainHoldings for every chain.
\* A chain in the cache is there at once; for the others a call is under way or begun.
Join(r, known) ==
  LET mode == request[r].mode
      a == request[r].address
      ready(c) == Fresh(chainCache[<<a, c>>]) IN
  /\ Done(r)
  /\ IF joint[mode] # NoJoint THEN UNCHANGED <<fetch, joint>>
     ELSE /\ joint' = [joint EXCEPT ![mode] =
               [at |-> "running", address |-> a, since |-> now,
                good |-> known,
                stale |-> [c \in Chain |-> IF ready(c) THEN None ELSE GoodFor(mode, a, c)],
                got |-> [c \in Chain |-> IF c \notin enabled THEN None
                                         ELSE IF ready(c) THEN chainCache[<<a, c>>].value
                                         ELSE Waiting],
                late |-> FALSE]]
          /\ fetch' = [k \in Address \X Chain |->
               IF k[1] = a /\ k[2] \in enabled /\ ~ready(k[2]) /\ fetch[k].at = "none"
               THEN [at |-> "calling"] ELSE fetch[k]]

\* The cache answers, or a usual request looks at the database first.
Look(r) ==
  LET mode == request[r].mode IN
  /\ request[r].at = "found"
  /\ CASE Fresh(cache[mode]) -> Done(r) /\ UNCHANGED <<fetch, joint>>
       [] ~Fresh(cache[mode]) /\ mode = "usual" ->
            /\ request' = [request EXCEPT ![r].at = "loading", ![r].good = KnownGood(mode)]
            /\ UNCHANGED <<fetch, joint>>
       [] ~Fresh(cache[mode]) /\ mode = "live" -> Join(r, KnownGood(mode))
  /\ UNCHANGED <<now, row, stored, memory, answers>>

\* findWalletChainHoldingsCaches.
Persisted(a) ==
  {c \in enabled : /\ stored[c] # None
                   /\ stored[c].address = a
                   /\ stored[c].at >= now - MaxAge}

FromStore(c) == [stored[c] EXCEPT !.source = "stored"]

\* Rows are served at once, as a partial result; the chains' last known good
\* values are replaced by them.
Load(r) ==
  LET a == request[r].address
      found == Persisted(a)
      v == [kind |-> "result", address |-> a, partial |-> TRUE,
            parts |-> [c \in Chain |-> IF c \in found THEN FromStore(c) ELSE None]] IN
  /\ request[r].at = "loading"
  /\ IF found = {} THEN Join(r, request[r].good) /\ UNCHANGED memory
     ELSE /\ Done(r)
          /\ chainGood' = [k \in Address \X Chain |->
               IF k[1] = a /\ k[2] \in found THEN Cached(FromStore(k[2]), GoodTtl) ELSE chainGood[k]]
          /\ ResultCached("usual", v)
          /\ ResultGood("usual", v)
          /\ UNCHANGED <<chainCache, fetch, joint>>
  /\ UNCHANGED <<now, row, stored, answers>>

\* A read of the database fails, and its request with it.
ReadFails(r) ==
  /\ request[r].at \in {"found", "loading"}
  /\ Done(r)
  /\ UNCHANGED <<now, row, stored, memory, fetch, joint, answers>>

----------------------------------------------------------------------------
(* The provider call of one chain.                                         *)

\* The provider answers: the value is cached before it is written to the database.
ProviderAnswers(a, c) ==
  /\ fetch[<<a, c>>].at = "calling"
  /\ answers < MaxAnswers
  /\ answers' = answers + 1
  /\ \E quality \in Quality :
       LET p == [kind |-> "part", address |-> a, at |-> now, quality |-> quality, source |-> "live"] IN
       /\ chainCache' = [chainCache EXCEPT ![<<a, c>>] =
            Cached(p, IF Degraded(p) THEN ChainDegradedTtl ELSE Ttl)]
       /\ chainGood' = IF UsablePart(p) THEN [chainGood EXCEPT ![<<a, c>>] = Cached(p, GoodTtl)]
                       ELSE chainGood
       /\ fetch' = [fetch EXCEPT ![<<a, c>>] = [at |-> "persisting", part |-> p]]
  /\ UNCHANGED <<now, row, stored, cache, good, joint, request>>

\* The joint promise still awaits this chain of this address.
Awaits(mode, a, c) ==
  joint[mode] # NoJoint /\ joint[mode].address = a /\ joint[mode].got[c] = Waiting

\* persistChainHoldingsResult, whose failure is swallowed; the row says when the call
\* ended, and the last one written stays.
Persist(a, c) ==
  LET p == fetch[<<a, c>>].part IN
  /\ fetch[<<a, c>>].at = "persisting"
  /\ \/ stored' = IF UsablePart(p) THEN [stored EXCEPT ![c] = p] ELSE stored
     \/ stored' = stored
  /\ fetch' = [fetch EXCEPT ![<<a, c>>] = [at |-> "none"]]
  /\ joint' = [m \in Mode |-> IF Awaits(m, a, c) THEN [joint[m] EXCEPT !.got[c] = p]
                                                 ELSE joint[m]]
  /\ UNCHANGED <<now, row, memory, request, answers>>

\* The call fails: what was known before it takes its place, if anything.
ProviderFails(a, c) ==
  /\ fetch[<<a, c>>].at = "calling"
  /\ fetch' = [fetch EXCEPT ![<<a, c>>] = [at |-> "none"]]
  /\ joint' = [m \in Mode |-> IF Awaits(m, a, c)
                              THEN [joint[m] EXCEPT !.got[c] = joint[m].stale[c], !.late = TRUE]
                              ELSE joint[m]]
  /\ UNCHANGED <<now, row, stored, memory, request, answers>>

\* withTimeout, for every chain the promise waits for; the calls go on without it.
TimesOut(mode) ==
  /\ joint[mode] # NoJoint
  /\ \E c \in Chain : joint[mode].got[c] = Waiting
  /\ now >= joint[mode].since + Timeout
  /\ joint' = [joint EXCEPT ![mode].late = TRUE,
       ![mode].got = [c \in Chain |-> IF @[c] = Waiting THEN joint[mode].stale[c] ELSE @[c]]]
  /\ UNCHANGED <<now, row, stored, memory, fetch, request, answers>>

----------------------------------------------------------------------------
(* The result.                                                             *)

\* Every chain is settled: the parts are put together. If there are none, the
\* last known good result is used, then the last known good parts, then nothing.
Aggregate(mode) ==
  LET j == joint[mode]
      a == j.address
      known == [c \in Chain |-> IF c \in enabled THEN GoodFor(mode, a, c) ELSE None] IN
  IF \E c \in Chain : j.got[c] # None
  THEN [kind |-> "result", address |-> a, parts |-> j.got,
        partial |-> j.late \/ \E c \in enabled : j.got[c] = None \/ Degraded(j.got[c])]
  ELSE IF j.good # None THEN [j.good EXCEPT !.partial = TRUE]
  ELSE [kind |-> "result", address |-> a, parts |-> known, partial |-> TRUE]

Finish(mode) ==
  LET v == Aggregate(mode) IN
  /\ joint[mode] # NoJoint
  /\ \A c \in Chain : joint[mode].got[c] # Waiting
  /\ ResultCached(mode, v)
  /\ ResultGood(mode, v)
  /\ joint' = [joint EXCEPT ![mode] = NoJoint]
  /\ UNCHANGED <<now, row, stored, chainCache, chainGood, fetch, request, answers>>

----------------------------------------------------------------------------
(* The surroundings.                                                       *)

ChangeAddress(a) ==
  /\ changedAt = -1
  /\ a # address
  /\ address' = a /\ changedAt' = now /\ enabled' = enabled
  /\ UNCHANGED <<now, stored, memory, fetch, joint, request, answers>>

\* An entry that has expired is deleted when it is read; here, when it expires.
Kept(entry) == IF entry # None /\ entry.expires <= now + 1 THEN None ELSE entry

\* The database and the timers are not later than they may be.
Tick ==
  /\ now < MaxTime
  /\ \A r \in Request : request[r].at # "idle" => now < request[r].since + DatabaseTime
  /\ \A k \in Address \X Chain :
       fetch[k].at = "persisting" => now < fetch[k].part.at + DatabaseTime
  /\ \A m \in Mode : joint[m] # NoJoint => now < joint[m].since + Timeout
  /\ now' = now + 1
  /\ chainCache' = [k \in Address \X Chain |-> Kept(chainCache[k])]
  /\ chainGood' = [k \in Address \X Chain |-> Kept(chainGood[k])]
  /\ cache' = [m \in Mode |-> Kept(cache[m])]
  /\ good' = [m \in Mode |-> Kept(good[m])]
  /\ UNCHANGED <<row, stored, fetch, joint, request, answers>>

Next ==
  \/ Tick
  \/ \E r \in Request : (\E mode \in Mode : Ask(r, mode)) \/ Look(r) \/ Load(r) \/ ReadFails(r)
  \/ \E a \in Address, c \in Chain : ProviderAnswers(a, c) \/ Persist(a, c) \/ ProviderFails(a, c)
  \/ \E mode \in Mode : TimesOut(mode) \/ Finish(mode)
  \/ \E a \in Address : ChangeAddress(a)

Spec == Init /\ [][Next]_vars

----------------------------------------------------------------------------
(* Properties.                                                             *)

\* What a caller may be answered with: it is about one address; a live answer never
\* came through the database; and if it counts as complete, it has every chain (with
\* all balances, not with all prices, see AnyQuality), each fetched within two cache
\* lifetimes and a timeout, for the wallet's address or for the one before it, which is
\* served only so long after the change (getWalletHoldings, whose result caches know no
\* address).
HonestAnswers ==
  \A mode \in Mode : cache[mode] # None =>
    LET v == cache[mode].value
        found == {c \in Chain : v.parts[c] # None} IN
    /\ \A c \in found : v.parts[c].address = v.address
    /\ mode = "live" => \A c \in found : v.parts[c].source = "live"
    /\ ~v.partial =>
         /\ found = enabled
         /\ \A c \in enabled : now < v.parts[c].at + 2 * Ttl + Timeout
         /\ v.address # address => now < changedAt + DatabaseTime + Timeout + Ttl
----------------------------------------------------------------------------
(* Why HonestAnswers holds: an invariant that every step keeps. It needs   *)
(* the database not to be later than a complete part lives: 35 and 120     *)
(* seconds, unless the configuration says otherwise.                       *)

HoldingsAssumption ==
  /\ Address # {} /\ Quality \subseteq AnyQuality
  /\ Ttl \in Nat \ {0} /\ DegradedTtl \in Nat /\ ChainDegradedTtl \in Nat /\ GoodTtl \in Nat
  /\ MaxAge \in Nat /\ Timeout \in Nat /\ DatabaseTime \in Nat /\ DatabaseTime <= Ttl
  /\ MaxAnswers \in Nat /\ MaxTime \in Nat

Fetch == [at : {"none", "calling"}] \union [at : {"persisting"}, part : Part]
Joint == [at : {"running"}, address : Address, since : 0 .. MaxTime,
          good : Result \union {None}, stale : [Chain -> Part \union {None}],
          got : [Chain -> Part \union {None, Waiting}], late : BOOLEAN]
Asking == [at : {"found", "loading"}, mode : Mode, address : Address, since : 0 .. MaxTime,
           good : Result \union {None}]

Types ==
  /\ now \in 0 .. MaxTime /\ address \in Address /\ changedAt \in -1 .. MaxTime
  /\ enabled \in (SUBSET Chain) \ {{}}
  /\ stored \in [Chain -> Part \union {None}]
  /\ chainCache \in [Address \X Chain -> Entry(Part) \union {None}]
  /\ chainGood \in [Address \X Chain -> Entry(Part) \union {None}]
  /\ cache \in [Mode -> Entry(Result) \union {None}]
  /\ good \in [Mode -> Entry(Result) \union {None}]
  /\ fetch \in [Address \X Chain -> Fetch]
  /\ joint \in [Mode -> Joint \union {NoJoint}]
  /\ request \in [Request -> Asking \union {Idle}]
  /\ answers \in 0 .. MaxAnswers

\* A part that a request of the mode may be given for the address.
Honest(mode, a, p) == p.address = a /\ (mode = "live" => p.source = "live")
HonestResult(mode, v) ==
  \A c \in Chain : v.parts[c] # None => Honest(mode, v.address, v.parts[c])

\* What is known of a chain is for the address it is under; a complete part goes when it
\* is Ttl old, and its row is written in time.
ChainsKept ==
  \A k \in Address \X Chain :
    /\ chainCache[k] # None =>
         /\ Honest("live", k[1], chainCache[k].value)
         /\ ~Degraded(chainCache[k].value) => chainCache[k].expires <= chainCache[k].value.at + Ttl
    /\ chainGood[k] # None => chainGood[k].value.address = k[1]
    /\ fetch[k].at = "persisting" =>
         Honest("live", k[1], fetch[k].part) /\ now <= fetch[k].part.at + DatabaseTime

\* A request is not late, and it has the wallet's address or the one before it.
RequestsSound ==
  \A r \in Request : request[r].at # "idle" =>
    /\ request[r].since <= now /\ now <= request[r].since + DatabaseTime
    /\ request[r].address # address => changedAt # -1 /\ request[r].since <= changedAt
    /\ request[r].at = "loading" => request[r].mode = "usual"
    /\ request[r].good # None => HonestResult(request[r].mode, request[r].good)

\* The shared work: when it began, its address was the wallet's or had been when a
\* request read it, and a complete part it was given was not older than Ttl.
JointsSound ==
  \A m \in Mode : joint[m] # NoJoint =>
    LET j == joint[m] IN
    /\ j.since <= now /\ now <= j.since + Timeout
    /\ j.address # address => changedAt # -1 /\ j.since <= changedAt + DatabaseTime
    /\ j.good # None => HonestResult(m, j.good)
    /\ \A c \in Chain : j.stale[c] # None => Honest(m, j.address, j.stale[c])
    /\ \A c \in Chain :
         /\ j.got[c] # None => c \in enabled
         /\ j.got[c] \notin {None, Waiting} =>
              /\ Honest(m, j.address, j.got[c])
              /\ ~j.late /\ ~Degraded(j.got[c]) => j.since <= j.got[c].at + Ttl

\* A complete result goes before it breaks HonestAnswers.
CompleteKept(entry) ==
  LET v == entry.value
      t == entry.expires IN
  ~v.partial =>
    /\ now < t /\ t <= now + Ttl
    /\ {c \in Chain : v.parts[c] # None} = enabled
    /\ \A c \in enabled : t <= v.parts[c].at + 2 * Ttl + Timeout
    /\ v.address # address => changedAt # -1 /\ t <= changedAt + DatabaseTime + Timeout + Ttl

ResultsKept ==
  \A m \in Mode :
    /\ cache[m] # None => HonestResult(m, cache[m].value) /\ CompleteKept(cache[m])
    /\ good[m] # None => HonestResult(m, good[m].value)

HoldingsInv == Types /\ ChainsKept /\ RequestsSound /\ JointsSound /\ ResultsKept
=============================================================================
