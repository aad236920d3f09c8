--------------------------- MODULE PortfolioProofs ---------------------------
(***************************************************************************)
(* Theorems about the three specifications of Portfolio, for any addresses,*)
(* chains, requests and wallets, and all times that the assumptions allow. *)
(* The parts are proved one after the other; the theorems that the runs'   *)
(* properties hold, and those of all parts together, are at the end.       *)
(***************************************************************************)
EXTENDS Portfolio, NaturalsInduction, WellFoundedInduction, TLAPS

-----------------------------------------------------------------------------
(* Holdings (WalletHoldings).                                              *)
LEMMA PartTypes ==
  ASSUME Types, NEW a \in Address, NEW c \in Chain
  PROVE  /\ chainCache[<<a, c>>] # None => /\ chainCache[<<a, c>>].value \in Part
                                           /\ chainCache[<<a, c>>].expires \in Nat
         /\ chainGood[<<a, c>>] # None => /\ chainGood[<<a, c>>].value \in Part
                                          /\ chainGood[<<a, c>>].expires \in Nat
<1>1. <<a, c>> \in Address \X Chain
  OBVIOUS
<1> QED
  BY <1>1 DEF Types, Entry

LEMMA ResultTypes ==
  ASSUME Types, NEW m \in Mode
  PROVE  /\ cache[m] # None => cache[m].value \in Result /\ cache[m].expires \in Nat
         /\ good[m] # None => good[m].value \in Result /\ good[m].expires \in Nat
  BY DEF Types, Entry

\* The last known good values that a request may be given.
LEMMA GoodForHonest ==
  ASSUME Types, ChainsKept, NEW mode \in Mode, NEW a \in Address, NEW c \in Chain
  PROVE  /\ GoodFor(mode, a, c) \in Part \union {None}
         /\ GoodFor(mode, a, c) # None => Honest(mode, a, GoodFor(mode, a, c))
<1>1. <<a, c>> \in Address \X Chain /\ <<a, c>>[1] = a
  OBVIOUS
<1>2. chainGood[<<a, c>>] # None => chainGood[<<a, c>>].value.address = a
  BY <1>1 DEF ChainsKept
<1> QED
  BY <1>2, PartTypes DEF GoodFor, Fresh, Honest

LEMMA KnownGoodHonest ==
  ASSUME Types, ResultsKept, NEW mode \in Mode
  PROVE  /\ KnownGood(mode) \in Result \union {None}
         /\ KnownGood(mode) # None => HonestResult(mode, KnownGood(mode))
  BY ResultTypes DEF KnownGood, Fresh, ResultsKept

\* What is in the cache of a chain can be given to any request.
LEMMA ReadyHonest ==
  ASSUME HoldingsAssumption, Types, ChainsKept, NEW a \in Address, NEW c \in Chain,
         Fresh(chainCache[<<a, c>>])
  PROVE  LET p == chainCache[<<a, c>>].value IN
         /\ p \in Part /\ p.address = a /\ p.source = "live"
         /\ ~Degraded(p) => now <= p.at + Ttl
<1> DEFINE p == chainCache[<<a, c>>].value
<1>1. <<a, c>> \in Address \X Chain /\ <<a, c>>[1] = a
  OBVIOUS
<1>2. /\ chainCache[<<a, c>>] # None /\ chainCache[<<a, c>>].expires > now
      /\ p \in Part /\ chainCache[<<a, c>>].expires \in Nat
  BY PartTypes DEF Fresh
<1>3. /\ Honest("live", a, p)
      /\ ~Degraded(p) => chainCache[<<a, c>>].expires <= p.at + Ttl
  BY <1>1, <1>2 DEF ChainsKept
<1>4. now \in Int /\ p.at \in Int
  BY <1>2 DEF Types, Part
<1>5. ASSUME ~Degraded(p)
      PROVE  now <= p.at + Ttl
  <2>1. chainCache[<<a, c>>].expires <= p.at + Ttl
    BY <1>3, <1>5
  <2> QED
    BY <1>2, <1>4, <2>1 DEF HoldingsAssumption
<1> QED
  BY <1>2, <1>3, <1>5 DEF Honest

\* A result is put into the caches of its mode: if it is complete, its parts are not too
\* old, and neither is its address.
Presentable(v) ==
  ~v.partial =>
    /\ {c \in Chain : v.parts[c] # None} = enabled
    /\ \A c \in enabled : now <= v.parts[c].at + Ttl + Timeout
    /\ v.address # address => changedAt # -1 /\ now <= changedAt + DatabaseTime + Timeout

LEMMA ResultsStored ==
  ASSUME HoldingsAssumption, HoldingsInv, NEW mode \in Mode, NEW v \in Result,
         HonestResult(mode, v), Presentable(v), ResultCached(mode, v), ResultGood(mode, v),
         UNCHANGED <<now, row>>
  PROVE  /\ cache' \in [Mode -> Entry(Result) \union {None}]
         /\ good' \in [Mode -> Entry(Result) \union {None}]
         /\ ResultsKept'
<1> DEFINE ttl == IF v.partial THEN DegradedTtl ELSE Ttl
           new == Cached(v, ttl)
           last == Cached(v, GoodTtl)
<1>1. /\ cache' = [cache EXCEPT ![mode] = new]
      /\ good' = [good EXCEPT ![mode] = last] \/ good' = good
      /\ UNCHANGED <<now, address, changedAt, enabled>>
  BY DEF ResultCached, ResultGood, row
<1>2. now \in Nat /\ changedAt \in Int /\ enabled \subseteq Chain
  BY DEF HoldingsAssumption, HoldingsInv, Types
<1>3. new.expires = now + ttl /\ new.value = v /\ last.value = v /\ new.expires \in Nat
  BY <1>2 DEF Cached, HoldingsAssumption
<1>4. new \in Entry(Result) /\ last \in Entry(Result)
  BY <1>2 DEF Cached, Entry, HoldingsAssumption
<1>5. ~v.partial => new.expires = now + Ttl
  BY <1>3
<1> HIDE DEF new, last, ttl
<1>6. CompleteKept(new)
  <2> SUFFICES ASSUME ~v.partial
               PROVE  /\ now < now + Ttl /\ now + Ttl <= now + Ttl
                      /\ {c \in Chain : v.parts[c] # None} = enabled
                      /\ \A c \in enabled : now + Ttl <= v.parts[c].at + 2 * Ttl + Timeout
                      /\ v.address # address =>
                           changedAt # -1 /\ now + Ttl <= changedAt + DatabaseTime + Timeout + Ttl
    BY <1>3, <1>5 DEF CompleteKept
  <2>1. /\ {c \in Chain : v.parts[c] # None} = enabled
        /\ \A c \in enabled : now <= v.parts[c].at + Ttl + Timeout
        /\ v.address # address => changedAt # -1 /\ now <= changedAt + DatabaseTime + Timeout
    BY DEF Presentable
  <2>2. ASSUME NEW c \in enabled
        PROVE  now + Ttl <= v.parts[c].at + 2 * Ttl + Timeout
    <3>1. v.parts[c] # None /\ c \in Chain
      BY <2>1
    <3>2. v.parts[c] \in Part
      BY <3>1 DEF Result
    <3>3. v.parts[c].at \in Int
      BY <3>2 DEF Part
    <3>4. now <= v.parts[c].at + Ttl + Timeout
      BY <2>1
    <3> QED
      BY <1>2, <3>3, <3>4 DEF HoldingsAssumption
  <2> QED
    BY <1>2, <2>1, <2>2 DEF HoldingsAssumption
<1>7. cache' \in [Mode -> Entry(Result) \union {None}]
        /\ good' \in [Mode -> Entry(Result) \union {None}]
  BY <1>1, <1>4 DEF HoldingsInv, Types
<1>8. \A m \in Mode : /\ cache'[m] = cache[m] \/ (m = mode /\ cache'[m] = new)
                      /\ good'[m] = good[m] \/ (m = mode /\ good'[m] = last)
  BY <1>1 DEF HoldingsInv, Types
<1>9. \A m \in Mode :
        /\ cache'[m] # None => HonestResult(m, cache'[m].value) /\ CompleteKept(cache'[m])
        /\ good'[m] # None => HonestResult(m, good'[m].value)
  BY <1>3, <1>6, <1>8 DEF HoldingsInv, ResultsKept
<1>10. \A m \in Mode : CompleteKept(cache'[m]) => CompleteKept(cache[m])'
  BY <1>1 DEF CompleteKept
<1>11. \A m \in Mode : /\ HonestResult(m, cache'[m].value) => HonestResult(m, cache[m].value)'
                       /\ HonestResult(m, good'[m].value) => HonestResult(m, good[m].value)'
  BY DEF HonestResult, Honest
<1> QED
  BY <1>7, <1>9, <1>10, <1>11 DEF ResultsKept

\* What a step leaves alone.
LEMMA ChainsStay ==
  ASSUME ChainsKept, UNCHANGED <<now, chainCache, chainGood, fetch>>
  PROVE  ChainsKept'
  BY DEF ChainsKept, Honest, Degraded

LEMMA JointsStay ==
  ASSUME JointsSound, UNCHANGED <<now, row, joint>>
  PROVE  JointsSound'
  BY DEF JointsSound, HonestResult, Honest, Degraded, row

LEMMA ResultsStay ==
  ASSUME ResultsKept, UNCHANGED <<now, row, cache, good>>
  PROVE  ResultsKept'
  BY DEF ResultsKept, CompleteKept, HonestResult, Honest, row

\* One request changes: it is idle again, or it is sound.
RequestSound(q) ==
  /\ q.since <= now /\ now <= q.since + DatabaseTime
  /\ q.address # address => changedAt # -1 /\ q.since <= changedAt
  /\ q.at = "loading" => q.mode = "usual"
  /\ q.good # None => HonestResult(q.mode, q.good)

LEMMA RequestsKeep ==
  ASSUME HoldingsInv, UNCHANGED <<now, row>>, NEW r \in Request,
         NEW q \in Asking \union {Idle}, request' = [request EXCEPT ![r] = q],
         q # Idle => RequestSound(q)
  PROVE  /\ request' \in [Request -> Asking \union {Idle}]
         /\ RequestsSound'
<1>1. \A s \in Request : request'[s] = IF s = r THEN q ELSE request[s]
  BY DEF HoldingsInv, Types
<1>2. request' \in [Request -> Asking \union {Idle}]
  BY DEF HoldingsInv, Types
<1>3. \A s \in Request : request[s].at # "idle" => RequestSound(request[s])
  BY DEF HoldingsInv, RequestsSound, RequestSound
<1>4. q.at # "idle" => q # Idle
  BY DEF Idle
<1>5. \A s \in Request : request'[s].at # "idle" => RequestSound(request'[s])
  BY <1>1, <1>3, <1>4
<1>6. ASSUME NEW s \in Request, RequestSound(request'[s])
      PROVE  RequestSound(request[s])'
  BY <1>6 DEF RequestSound, HonestResult, Honest, row
<1>7. RequestsSound'
  <2>1. \A s \in Request : request'[s].at # "idle" => RequestSound(request[s])'
    BY <1>5, <1>6
  <2> QED
    BY <2>1 DEF RequestsSound, RequestSound
<1> QED
  BY <1>2, <1>7

LEMMA DoneKeeps ==
  ASSUME HoldingsInv, UNCHANGED <<now, row>>, NEW r \in Request, Done(r)
  PROVE  /\ request' \in [Request -> Asking \union {Idle}]
         /\ RequestsSound'
  BY RequestsKeep DEF Done

\* Some of the shared work changes, and is still sound.
JointSound(m, j) ==
  /\ j.since <= now /\ now <= j.since + Timeout
  /\ j.address # address => changedAt # -1 /\ j.since <= changedAt + DatabaseTime
  /\ j.good # None => HonestResult(m, j.good)
  /\ \A c \in Chain : j.stale[c] # None => Honest(m, j.address, j.stale[c])
  /\ \A c \in Chain :
       /\ j.got[c] # None => c \in enabled
       /\ j.got[c] \notin {None, Waiting} =>
            /\ Honest(m, j.address, j.got[c])
            /\ ~j.late /\ ~Degraded(j.got[c]) => j.since <= j.got[c].at + Ttl

LEMMA JointsKeep ==
  ASSUME HoldingsInv, UNCHANGED <<now, row>>,
         \A m \in Mode : joint'[m] # NoJoint => joint'[m] = joint[m] \/ JointSound(m, joint'[m])
  PROVE  JointsSound'
<1>1. \A m \in Mode : joint[m] # NoJoint => JointSound(m, joint[m])
  BY DEF HoldingsInv, JointsSound, JointSound
<1>2. \A m \in Mode : joint'[m] # NoJoint => JointSound(m, joint'[m])
  BY <1>1
<1>3. ASSUME NEW m \in Mode, JointSound(m, joint'[m])
      PROVE  JointSound(m, joint[m])'
  BY <1>3 DEF JointSound, HonestResult, Honest, Degraded, row
<1>4. \A m \in Mode : joint'[m] # NoJoint => JointSound(m, joint[m])'
  BY <1>2, <1>3
<1> QED
  BY <1>4 DEF JointsSound, JointSound

LEMMA RequestTypes ==
  ASSUME HoldingsInv, NEW r \in Request, request[r].at # "idle"
  PROVE  /\ request[r] \in Asking /\ request[r].mode \in Mode /\ request[r].address \in Address
         /\ request[r].good \in Result \union {None} /\ RequestSound(request[r])
<1>1. request[r] \in Asking \union {Idle}
  BY DEF HoldingsInv, Types
<1>2. request[r] \in Asking
  BY <1>1 DEF Idle
<1>3. RequestSound(request[r])
  BY DEF HoldingsInv, RequestsSound, RequestSound
<1> QED
  BY <1>2, <1>3 DEF Asking

\* The shared work begins with what the chains' caches have, and calls for the others.
LEMMA JoinKeeps ==
  ASSUME HoldingsAssumption, HoldingsInv, NEW r \in Request, request[r].at # "idle",
         NEW known \in Result \union {None},
         known # None => HonestResult(request[r].mode, known),
         Join(r, known), UNCHANGED <<now, row, chainCache, chainGood>>
  PROVE  /\ request' \in [Request -> Asking \union {Idle}]
         /\ joint' \in [Mode -> Joint \union {NoJoint}]
         /\ fetch' \in [Address \X Chain -> Fetch]
         /\ RequestsSound' /\ JointsSound' /\ ChainsKept'
<1> DEFINE mode == request[r].mode
           a == request[r].address
           ready(c) == Fresh(chainCache[<<a, c>>])
           stale == [c \in Chain |-> IF ready(c) THEN None ELSE GoodFor(mode, a, c)]
           got == [c \in Chain |-> IF c \notin enabled THEN None
                                   ELSE IF ready(c) THEN chainCache[<<a, c>>].value
                                   ELSE Waiting]
           begun == [at |-> "running", address |-> a, since |-> now, good |-> known, stale |-> stale,
                     got |-> got, late |-> FALSE]
<1>1. request' \in [Request -> Asking \union {Idle}] /\ RequestsSound'
  BY DoneKeeps DEF Join
<1>2. /\ mode \in Mode /\ a \in Address
      /\ request[r].since <= now /\ now <= request[r].since + DatabaseTime
      /\ a # address => changedAt # -1 /\ request[r].since <= changedAt
      /\ request[r].since \in Int /\ now \in 0 .. MaxTime /\ now \in Nat /\ changedAt \in Int
      /\ enabled \subseteq Chain
  BY RequestTypes DEF RequestSound, Asking, HoldingsInv, Types, HoldingsAssumption
<1>3. CASE joint[mode] # NoJoint
  <2>1. UNCHANGED <<fetch, joint>>
    BY <1>3 DEF Join
  <2> QED
    BY <1>1, <2>1, ChainsStay, JointsStay DEF HoldingsInv, Types
<1>4. CASE joint[mode] = NoJoint
  <2>1. /\ joint' = [joint EXCEPT ![mode] = begun]
        /\ fetch' = [k \in Address \X Chain |->
             IF k[1] = a /\ k[2] \in enabled /\ ~ready(k[2]) /\ fetch[k].at = "none"
             THEN [at |-> "calling"] ELSE fetch[k]]
    BY <1>4 DEF Join
  <2>2. /\ stale \in [Chain -> Part \union {None}]
        /\ \A c \in Chain : stale[c] # None => Honest(mode, a, stale[c])
    <3>1. ASSUME NEW c \in Chain
          PROVE  /\ stale[c] \in Part \union {None}
                 /\ stale[c] # None => Honest(mode, a, stale[c])
      <4>1. /\ GoodFor(mode, a, c) \in Part \union {None}
            /\ GoodFor(mode, a, c) # None => Honest(mode, a, GoodFor(mode, a, c))
        BY <1>2, GoodForHonest DEF HoldingsInv
      <4> QED
        BY <4>1
    <3> QED
      BY <3>1
  <2>3. ASSUME NEW c \in Chain
        PROVE  /\ got[c] \in Part \union {None, Waiting}
               /\ got[c] # None => c \in enabled
               /\ got[c] \notin {None, Waiting} =>
                    /\ Honest(mode, a, got[c])
                    /\ ~Degraded(got[c]) => now <= got[c].at + Ttl
    <3>1. CASE c \in enabled /\ ready(c)
      <4>1. got[c] = chainCache[<<a, c>>].value
        BY <3>1
      <4>2. /\ got[c] \in Part /\ got[c].address = a /\ got[c].source = "live"
            /\ ~Degraded(got[c]) => now <= got[c].at + Ttl
        BY <1>2, <3>1, <4>1, ReadyHonest DEF HoldingsInv
      <4> QED
        BY <3>1, <4>2 DEF Honest
    <3>2. CASE ~(c \in enabled /\ ready(c))
      BY <3>2
    <3> QED
      BY <3>1, <3>2
  <2>4. got \in [Chain -> Part \union {None, Waiting}]
    BY <2>3
  <2> HIDE DEF stale, got
  <2>5. begun \in Joint
    BY <1>2, <2>2, <2>4 DEF Joint
  <2>6. JointSound(mode, begun)
    <3>1. a # address => changedAt # -1 /\ now <= changedAt + DatabaseTime
      BY <1>2 DEF HoldingsAssumption
    <3>2. now <= now /\ now <= now + Timeout
      BY <1>2 DEF HoldingsAssumption
    <3> QED
      BY <2>2, <2>3, <3>1, <3>2 DEF JointSound
  <2> HIDE DEF begun
  <2>7. joint' \in [Mode -> Joint \union {NoJoint}]
    BY <2>1, <2>5 DEF HoldingsInv, Types
  <2>8. \A m \in Mode : joint'[m] = IF m = mode THEN begun ELSE joint[m]
    BY <1>2, <2>1 DEF HoldingsInv, Types
  <2>9. JointsSound'
    BY <2>6, <2>8, JointsKeep
  <2>10. \A k \in Address \X Chain : fetch'[k] = fetch[k] \/ fetch'[k] = [at |-> "calling"]
    BY <2>1
  <2>11. fetch' \in [Address \X Chain -> Fetch]
    <3>1. [at |-> "calling"] \in Fetch
      BY DEF Fetch
    <3>2. \A k \in Address \X Chain : fetch[k] \in Fetch
      BY DEF HoldingsInv, Types
    <3> QED
      BY <2>1, <3>1, <3>2
  <2>12. ChainsKept'
    BY <2>10 DEF HoldingsInv, ChainsKept, Honest, Degraded
  <2> QED
    BY <1>1, <2>7, <2>9, <2>11, <2>12
<1> QED
  BY <1>3, <1>4

LEMMA AskKeeps ==
  ASSUME HoldingsAssumption, HoldingsInv, NEW r \in Request, NEW mode \in Mode, Ask(r, mode)
  PROVE  HoldingsInv'
<1> DEFINE q == [at |-> "found", mode |-> mode, address |-> address, since |-> now, good |-> None]
<1>1. /\ request' = [request EXCEPT ![r] = q]
      /\ UNCHANGED <<now, row, stored, memory, fetch, joint, answers>>
  BY DEF Ask
<1>2. now \in 0 .. MaxTime /\ now \in Nat /\ address \in Address
  BY DEF HoldingsInv, Types, HoldingsAssumption
<1>3. q \in Asking /\ RequestSound(q)
  BY <1>2 DEF Asking, RequestSound, HoldingsAssumption
<1> HIDE DEF q
<1>4. request' \in [Request -> Asking \union {Idle}] /\ RequestsSound'
  BY <1>1, <1>3, RequestsKeep
<1>5. ChainsKept' /\ JointsSound' /\ ResultsKept'
  BY <1>1, ChainsStay, JointsStay, ResultsStay DEF HoldingsInv, memory
<1> QED
  BY <1>1, <1>4, <1>5 DEF HoldingsInv, Types, memory, row

LEMMA ReadFailsKeeps ==
  ASSUME HoldingsAssumption, HoldingsInv, NEW r \in Request, ReadFails(r)
  PROVE  HoldingsInv'
<1>1. Done(r) /\ UNCHANGED <<now, row, stored, memory, fetch, joint, answers>>
  BY DEF ReadFails
<1>2. request' \in [Request -> Asking \union {Idle}] /\ RequestsSound'
  BY <1>1, DoneKeeps
<1>3. ChainsKept' /\ JointsSound' /\ ResultsKept'
  BY <1>1, ChainsStay, JointsStay, ResultsStay DEF HoldingsInv, memory
<1> QED
  BY <1>1, <1>2, <1>3 DEF HoldingsInv, Types, memory, row

LEMMA LookKeeps ==
  ASSUME HoldingsAssumption, HoldingsInv, NEW r \in Request, Look(r)
  PROVE  HoldingsInv'
<1> DEFINE mode == request[r].mode
<1>1. request[r].at = "found" /\ UNCHANGED <<now, row, stored, memory, answers>>
  BY DEF Look
<1>2. /\ request[r] \in Asking /\ mode \in Mode /\ RequestSound(request[r])
  BY <1>1, RequestTypes
<1>3. /\ KnownGood(mode) \in Result \union {None}
      /\ KnownGood(mode) # None => HonestResult(mode, KnownGood(mode))
  BY <1>2, KnownGoodHonest DEF HoldingsInv
<1>4. ResultsKept'
  BY <1>1, ResultsStay DEF HoldingsInv, memory
<1>5. CASE Done(r) /\ UNCHANGED <<fetch, joint>>
  <2>1. request' \in [Request -> Asking \union {Idle}] /\ RequestsSound'
    BY <1>1, <1>5, DoneKeeps
  <2>2. ChainsKept' /\ JointsSound'
    BY <1>1, <1>5, ChainsStay, JointsStay DEF HoldingsInv, memory
  <2> QED
    BY <1>1, <1>4, <1>5, <2>1, <2>2 DEF HoldingsInv, Types, memory, row
<1>6. CASE mode = "usual" /\ UNCHANGED <<fetch, joint>> /\
           request' = [request EXCEPT ![r].at = "loading", ![r].good = KnownGood(mode)]
  <2> DEFINE q == [request[r] EXCEPT !.at = "loading", !.good = KnownGood(mode)]
  <2>1. request' = [request EXCEPT ![r] = q]
    BY <1>6 DEF HoldingsInv, Types
  <2>2. q \in Asking
    BY <1>2, <1>3 DEF Asking
  <2>3. /\ q.mode = mode /\ q.address = request[r].address /\ q.since = request[r].since
        /\ q.good = KnownGood(mode) /\ q.at = "loading"
    BY <1>2 DEF Asking
  <2>4. RequestSound(q)
    BY <1>2, <1>3, <1>6, <2>3 DEF RequestSound
  <2> HIDE DEF q
  <2>5. request' \in [Request -> Asking \union {Idle}] /\ RequestsSound'
    BY <1>1, <2>1, <2>2, <2>4, RequestsKeep
  <2>6. ChainsKept' /\ JointsSound'
    BY <1>1, <1>6, ChainsStay, JointsStay DEF HoldingsInv, memory
  <2> QED
    BY <1>1, <1>4, <1>6, <2>5, <2>6 DEF HoldingsInv, Types, memory, row
<1>7. CASE Join(r, KnownGood(mode))
  <2>1. /\ request' \in [Request -> Asking \union {Idle}]
        /\ joint' \in [Mode -> Joint \union {NoJoint}]
        /\ fetch' \in [Address \X Chain -> Fetch]
        /\ RequestsSound' /\ JointsSound' /\ ChainsKept'
    BY <1>1, <1>3, <1>7, JoinKeeps DEF memory
  <2> QED
    BY <1>1, <1>4, <2>1 DEF HoldingsInv, Types, memory, row
<1>8. \/ Done(r) /\ UNCHANGED <<fetch, joint>>
      \/ mode = "usual" /\ UNCHANGED <<fetch, joint>> /\
           request' = [request EXCEPT ![r].at = "loading", ![r].good = KnownGood(mode)]
      \/ Join(r, KnownGood(mode))
  BY <1>2 DEF Look, Mode
<1> QED
  BY <1>5, <1>6, <1>7, <1>8

\* A row of the address, as the memory caches take it.
LEMMA FromStoreHonest ==
  ASSUME HoldingsInv, NEW a \in Address, NEW c \in Persisted(a)
  PROVE  c \in Chain /\ FromStore(c) \in Part /\ FromStore(c).address = a
<1>1. c \in Chain /\ stored[c] # None /\ stored[c].address = a
  BY DEF HoldingsInv, Types, Persisted
<1>2. stored[c] \in Part
  BY <1>1 DEF HoldingsInv, Types
<1> QED
  BY <1>1, <1>2 DEF FromStore, Part

LEMMA LoadKeeps ==
  ASSUME HoldingsAssumption, HoldingsInv, NEW r \in Request, Load(r)
  PROVE  HoldingsInv'
<1> DEFINE a == request[r].address
           found == Persisted(a)
           v == [kind |-> "result", address |-> a, partial |-> TRUE,
                 parts |-> [c \in Chain |-> IF c \in found THEN FromStore(c) ELSE None]]
<1>1. request[r].at = "loading" /\ UNCHANGED <<now, row, stored, answers>>
  BY DEF Load
<1>2. /\ request[r] \in Asking /\ a \in Address /\ request[r].mode = "usual"
      /\ request[r].good \in Result \union {None}
      /\ request[r].good # None => HonestResult(request[r].mode, request[r].good)
  BY <1>1, RequestTypes DEF RequestSound
<1>3. CASE found = {}
  <2>1. Join(r, request[r].good) /\ UNCHANGED memory
    BY <1>3 DEF Load
  <2>2. /\ request' \in [Request -> Asking \union {Idle}]
        /\ joint' \in [Mode -> Joint \union {NoJoint}]
        /\ fetch' \in [Address \X Chain -> Fetch]
        /\ RequestsSound' /\ JointsSound' /\ ChainsKept'
    BY <1>1, <1>2, <2>1, JoinKeeps DEF memory
  <2>3. ResultsKept'
    BY <1>1, <2>1, ResultsStay DEF HoldingsInv, memory
  <2> QED
    BY <1>1, <2>1, <2>2, <2>3 DEF HoldingsInv, Types, memory, row
<1>4. CASE found # {}
  <2>1. /\ Done(r)
        /\ chainGood' = [k \in Address \X Chain |->
             IF k[1] = a /\ k[2] \in found THEN Cached(FromStore(k[2]), GoodTtl) ELSE chainGood[k]]
        /\ ResultCached("usual", v) /\ ResultGood("usual", v)
        /\ UNCHANGED <<chainCache, fetch, joint>>
    BY <1>4 DEF Load
  <2>2. request' \in [Request -> Asking \union {Idle}] /\ RequestsSound'
    BY <1>1, <2>1, DoneKeeps
  <2>3. \A c \in found : c \in Chain /\ FromStore(c) \in Part /\ FromStore(c).address = a
    BY <1>2, FromStoreHonest
  <2>4. v \in Result /\ v.partial /\ HonestResult("usual", v)
    <3>1. v.parts \in [Chain -> Part \union {None}]
      BY <2>3
    <3>2. \A c \in Chain : v.parts[c] # None => v.parts[c].address = a
      BY <2>3
    <3> QED
      BY <1>2, <3>1, <3>2 DEF Result, HonestResult, Honest
  <2> HIDE DEF v, found
  <2>5. /\ cache' \in [Mode -> Entry(Result) \union {None}]
        /\ good' \in [Mode -> Entry(Result) \union {None}]
        /\ ResultsKept'
    BY <1>1, <2>1, <2>4, ResultsStored DEF Mode, Presentable
  <2>6. ASSUME NEW k \in Address \X Chain
        PROVE  /\ chainGood'[k] \in Entry(Part) \union {None}
               /\ chainGood'[k] # None => chainGood'[k].value.address = k[1]
    <3>1. CASE k[1] = a /\ k[2] \in found
      <4>1. chainGood'[k] = Cached(FromStore(k[2]), GoodTtl)
        BY <2>1, <3>1
      <4>2. FromStore(k[2]) \in Part /\ FromStore(k[2]).address = k[1]
        BY <2>3, <3>1
      <4>3. now + GoodTtl \in Nat
        BY DEF HoldingsInv, Types, HoldingsAssumption
      <4> QED
        BY <4>1, <4>2, <4>3 DEF Cached, Entry
    <3>2. CASE ~(k[1] = a /\ k[2] \in found)
      <4>1. chainGood'[k] = chainGood[k]
        BY <2>1, <3>2
      <4> QED
        BY <4>1 DEF HoldingsInv, Types, ChainsKept
    <3> QED
      BY <3>1, <3>2
  <2>7. chainGood' \in [Address \X Chain -> Entry(Part) \union {None}]
    BY <2>1, <2>6
  <2>8. ChainsKept'
    BY <1>1, <2>1, <2>6 DEF HoldingsInv, ChainsKept, Honest, Degraded
  <2>9. JointsSound'
    BY <1>1, <2>1, JointsStay DEF HoldingsInv
  <2> QED
    BY <1>1, <2>1, <2>2, <2>5, <2>7, <2>8, <2>9 DEF HoldingsInv, Types, row
<1> QED
  BY <1>3, <1>4

LEMMA RequestsStay ==
  ASSUME RequestsSound, UNCHANGED <<now, row, request>>
  PROVE  RequestsSound'
  BY DEF RequestsSound, HonestResult, Honest, row

LEMMA ProviderAnswersKeeps ==
  ASSUME HoldingsAssumption, HoldingsInv, NEW a \in Address, NEW c \in Chain, ProviderAnswers(a, c)
  PROVE  HoldingsInv'
<1> DEFINE part(quality) == [kind |-> "part", address |-> a, at |-> now, quality |-> quality,
                             source |-> "live"]
<1>1. PICK quality \in Quality :
        /\ chainCache' = [chainCache EXCEPT ![<<a, c>>] =
             Cached(part(quality), IF Degraded(part(quality)) THEN ChainDegradedTtl ELSE Ttl)]
        /\ chainGood' = IF UsablePart(part(quality))
                        THEN [chainGood EXCEPT ![<<a, c>>] = Cached(part(quality), GoodTtl)]
                        ELSE chainGood
        /\ fetch' = [fetch EXCEPT ![<<a, c>>] = [at |-> "persisting", part |-> part(quality)]]
  BY DEF ProviderAnswers
<1>2. /\ answers < MaxAnswers /\ answers' = answers + 1
      /\ UNCHANGED <<now, row, stored, cache, good, joint, request>>
  BY DEF ProviderAnswers
<1> DEFINE p == part(quality)
           new == Cached(p, IF Degraded(p) THEN ChainDegradedTtl ELSE Ttl)
           last == Cached(p, GoodTtl)
           over == [at |-> "persisting", part |-> p]
<1>3. now \in 0 .. MaxTime /\ now \in Nat /\ quality \in AnyQuality
  BY DEF HoldingsInv, Types, HoldingsAssumption
<1>4. /\ p \in Part /\ p.address = a /\ p.at = now /\ Honest("live", a, p)
  BY <1>3 DEF Part, Honest
<1> HIDE DEF part, p
<1>5. /\ new \in Entry(Part) /\ new.value = p /\ last \in Entry(Part) /\ last.value = p
      /\ ~Degraded(p) => new.expires = now + Ttl
  BY <1>3, <1>4 DEF Cached, Entry, HoldingsAssumption
<1>6. over \in Fetch /\ over.part = p
  BY <1>4 DEF Fetch
<1>7. /\ chainCache' = [chainCache EXCEPT ![<<a, c>>] = new]
      /\ chainGood' = [chainGood EXCEPT ![<<a, c>>] = last] \/ chainGood' = chainGood
      /\ fetch' = [fetch EXCEPT ![<<a, c>>] = over]
  BY <1>1 DEF p
<1> HIDE DEF new, last, over
<1>8. <<a, c>> \in Address \X Chain /\ <<a, c>>[1] = a
  OBVIOUS
<1>9. /\ chainCache' \in [Address \X Chain -> Entry(Part) \union {None}]
      /\ chainGood' \in [Address \X Chain -> Entry(Part) \union {None}]
      /\ fetch' \in [Address \X Chain -> Fetch]
  BY <1>5, <1>6, <1>7, ZenonT(40) DEF HoldingsInv, Types
<1>10. \A k \in Address \X Chain :
        /\ chainCache'[k] = IF k = <<a, c>> THEN new ELSE chainCache[k]
        /\ chainGood'[k] = chainGood[k] \/ (k = <<a, c>> /\ chainGood'[k] = last)
        /\ fetch'[k] = IF k = <<a, c>> THEN over ELSE fetch[k]
  BY <1>7 DEF HoldingsInv, Types
<1>11. ASSUME NEW k \in Address \X Chain
       PROVE  /\ chainCache'[k] # None =>
                   /\ Honest("live", k[1], chainCache'[k].value)
                   /\ ~Degraded(chainCache'[k].value) =>
                        chainCache'[k].expires <= chainCache'[k].value.at + Ttl
              /\ chainGood'[k] # None => chainGood'[k].value.address = k[1]
              /\ fetch'[k].at = "persisting" =>
                   Honest("live", k[1], fetch'[k].part) /\ now <= fetch'[k].part.at + DatabaseTime
  <2>1. CASE k = <<a, c>>
    <3>1. chainCache'[k] = new /\ fetch'[k] = over /\ k[1] = a
      BY <1>8, <1>10, <2>1
    <3>2. now + Ttl <= p.at + Ttl /\ now <= p.at + DatabaseTime
      BY <1>3, <1>4 DEF HoldingsAssumption
    <3>3. chainGood'[k] # None => chainGood'[k].value.address = k[1]
      BY <1>4, <1>5, <1>8, <1>10, <2>1 DEF HoldingsInv, ChainsKept
    <3> QED
      BY <1>4, <1>5, <1>6, <3>1, <3>2, <3>3
  <2>2. CASE k # <<a, c>>
    <3>1. chainCache'[k] = chainCache[k] /\ chainGood'[k] = chainGood[k] /\ fetch'[k] = fetch[k]
      BY <1>10, <2>2
    <3> QED
      BY <3>1 DEF HoldingsInv, ChainsKept
  <2> QED
    BY <2>1, <2>2
<1>12. ChainsKept'
  BY <1>2, <1>11 DEF ChainsKept, Honest, Degraded
<1>13. RequestsSound' /\ JointsSound' /\ ResultsKept'
  BY <1>2, RequestsStay, JointsStay, ResultsStay DEF HoldingsInv
<1>14. answers' \in 0 .. MaxAnswers
  BY <1>2 DEF HoldingsInv, Types, HoldingsAssumption
<1> QED
  BY <1>2, <1>9, <1>12, <1>13, <1>14 DEF HoldingsInv, Types, row

\* The shared work is given a part or does without one.
LEMMA GotSound ==
  ASSUME HoldingsInv, NEW m \in Mode, joint[m] # NoJoint,
         NEW got \in [Chain -> Part \union {None, Waiting}],
         NEW late \in BOOLEAN, joint[m].late => late,
         \A c \in Chain :
           \/ got[c] = joint[m].got[c]
           \/ got[c] = None
           \/ /\ joint[m].got[c] # None /\ Honest(m, joint[m].address, got[c])
              /\ late \/ joint[m].since <= got[c].at + Ttl
  PROVE  LET j == [joint[m] EXCEPT !.got = got, !.late = late] IN
         j \in Joint /\ JointSound(m, j)
<1> DEFINE j == [joint[m] EXCEPT !.got = got, !.late = late]
<1>1. joint[m] \in Joint /\ JointSound(m, joint[m])
  BY DEF HoldingsInv, Types, JointsSound, JointSound
<1>2. /\ j \in Joint /\ j.got = got /\ j.late = late /\ j.since = joint[m].since
      /\ j.address = joint[m].address /\ j.good = joint[m].good /\ j.stale = joint[m].stale
  BY <1>1 DEF Joint
<1> HIDE DEF j
<1>3. ASSUME NEW c \in Chain
      PROVE  /\ got[c] # None => c \in enabled
             /\ got[c] \notin {None, Waiting} =>
                  /\ Honest(m, joint[m].address, got[c])
                  /\ ~late /\ ~Degraded(got[c]) => joint[m].since <= got[c].at + Ttl
  <2>1. /\ joint[m].got[c] # None => c \in enabled
        /\ joint[m].got[c] \notin {None, Waiting} =>
             /\ Honest(m, joint[m].address, joint[m].got[c])
             /\ ~joint[m].late /\ ~Degraded(joint[m].got[c]) =>
                  joint[m].since <= joint[m].got[c].at + Ttl
    BY <1>1 DEF JointSound
  <2> QED
    BY <2>1
<1>4. JointSound(m, j)
  BY <1>1, <1>2, <1>3 DEF JointSound
<1> QED
  BY <1>2, <1>4 DEF j

\* The call of a chain ends, with the chain's part or without one.
LEMMA ChainEndsKeeps ==
  ASSUME HoldingsAssumption, HoldingsInv, NEW a \in Address, NEW c \in Chain,
         UNCHANGED <<now, row, memory, request, answers>>,
         stored' \in [Chain -> Part \union {None}],
         fetch' = [fetch EXCEPT ![<<a, c>>] = [at |-> "none"]],
         joint' \in [Mode -> Joint \union {NoJoint}],
         \A m \in Mode : joint'[m] = joint[m] \/ JointSound(m, joint'[m])
  PROVE  HoldingsInv'
<1>1. [at |-> "none"] \in Fetch
  BY DEF Fetch
<1>2. fetch' \in [Address \X Chain -> Fetch]
  BY <1>1 DEF HoldingsInv, Types
<1>3. \A k \in Address \X Chain : fetch'[k] = fetch[k] \/ fetch'[k].at = "none"
  BY DEF HoldingsInv, Types
<1>4. ChainsKept'
  BY <1>3 DEF HoldingsInv, ChainsKept, Honest, Degraded, memory
<1>5. JointsSound'
  BY JointsKeep
<1>6. RequestsSound' /\ ResultsKept'
  BY RequestsStay, ResultsStay DEF HoldingsInv, memory
<1> QED
  BY <1>2, <1>4, <1>5, <1>6 DEF HoldingsInv, Types, row, memory

LEMMA PersistKeeps ==
  ASSUME HoldingsAssumption, HoldingsInv, NEW a \in Address, NEW c \in Chain, Persist(a, c)
  PROVE  HoldingsInv'
<1> DEFINE p == fetch[<<a, c>>].part
<1>1. /\ fetch[<<a, c>>].at = "persisting"
      /\ stored' = [stored EXCEPT ![c] = p] \/ stored' = stored
      /\ fetch' = [fetch EXCEPT ![<<a, c>>] = [at |-> "none"]]
      /\ joint' = [m \in Mode |-> IF Awaits(m, a, c) THEN [joint[m] EXCEPT !.got[c] = p]
                                                     ELSE joint[m]]
      /\ UNCHANGED <<now, row, memory, request, answers>>
  BY DEF Persist
<1>2. <<a, c>> \in Address \X Chain /\ <<a, c>>[1] = a
  OBVIOUS
<1>3. p \in Part /\ Honest("live", a, p) /\ now <= p.at + DatabaseTime
  BY <1>1, <1>2 DEF HoldingsInv, Types, Fetch, ChainsKept
<1> HIDE DEF p
<1>4. stored' \in [Chain -> Part \union {None}]
  BY <1>1, <1>3 DEF HoldingsInv, Types
<1>5. ASSUME NEW m \in Mode, Awaits(m, a, c)
      PROVE  joint'[m] \in Joint /\ JointSound(m, joint'[m])
  <2> DEFINE got == [joint[m].got EXCEPT ![c] = p]
  <2>1. joint[m] # NoJoint /\ joint[m].address = a /\ joint[m].got[c] = Waiting
    BY <1>5 DEF Awaits
  <2>2. joint[m] \in Joint /\ JointSound(m, joint[m])
    BY <2>1 DEF HoldingsInv, Types, JointsSound, JointSound
  <2>3. /\ got \in [Chain -> Part \union {None, Waiting}]
        /\ joint[m].late \in BOOLEAN
        /\ \A d \in Chain : got[d] = IF d = c THEN p ELSE joint[m].got[d]
    BY <1>3, <2>2 DEF Joint
  <2>4. joint'[m] = [joint[m] EXCEPT !.got = got, !.late = joint[m].late]
    <3>1. joint'[m] = [joint[m] EXCEPT !.got = got]
      BY <1>1, <1>5
    <3>2. [joint[m] EXCEPT !.got = got] = [joint[m] EXCEPT !.got = got, !.late = joint[m].late]
      BY <2>2 DEF Joint
    <3> QED
      BY <3>1, <3>2
  <2>5. joint[m].since <= p.at + Ttl
    <3>1. joint[m].since \in Int /\ now \in Int /\ p.at \in Int /\ joint[m].since <= now
      BY <1>3, <2>2 DEF Joint, HoldingsInv, Types, Part, JointSound
    <3> QED
      BY <1>3, <3>1 DEF HoldingsAssumption
  <2>6. Honest(m, joint[m].address, p) /\ joint[m].got[c] # None
    BY <1>3, <2>1 DEF Honest, None, Waiting
  <2>7. \A d \in Chain :
           \/ got[d] = joint[m].got[d]
           \/ got[d] = None
           \/ /\ joint[m].got[d] # None /\ Honest(m, joint[m].address, got[d])
              /\ joint[m].since <= got[d].at + Ttl
    BY <2>3, <2>5, <2>6
  <2> HIDE DEF got
  <2>8. CASE joint[m].late = TRUE
    <3>1. joint'[m] = [joint[m] EXCEPT !.got = got, !.late = TRUE]
      BY <2>4, <2>8
    <3> QED
      BY <2>1, <2>3, <2>7, <3>1, GotSound, ZenonT(40)
  <2>9. CASE joint[m].late = FALSE
    <3>1. joint'[m] = [joint[m] EXCEPT !.got = got, !.late = FALSE] /\ ~joint[m].late
      BY <2>4, <2>9
    <3> QED
      BY <2>1, <2>3, <2>7, <3>1, GotSound, ZenonT(40)
  <2> QED
    BY <2>3, <2>8, <2>9
<1>6. /\ joint' \in [Mode -> Joint \union {NoJoint}]
      /\ \A m \in Mode : joint'[m] = joint[m] \/ JointSound(m, joint'[m])
  <2>1. \A m \in Mode : joint'[m] = joint[m] \/ (joint'[m] \in Joint /\ JointSound(m, joint'[m]))
    BY <1>1, <1>5
  <2>2. joint \in [Mode -> Joint \union {NoJoint}] /\ joint' = [m \in Mode |-> joint'[m]]
    BY <1>1 DEF HoldingsInv, Types
  <2> QED
    BY <2>1, <2>2
<1> QED
  BY <1>1, <1>4, <1>6, ChainEndsKeeps

LEMMA ProviderFailsKeeps ==
  ASSUME HoldingsAssumption, HoldingsInv, NEW a \in Address, NEW c \in Chain, ProviderFails(a, c)
  PROVE  HoldingsInv'
<1>1. /\ fetch' = [fetch EXCEPT ![<<a, c>>] = [at |-> "none"]]
      /\ joint' = [m \in Mode |->
           IF Awaits(m, a, c)
           THEN [joint[m] EXCEPT !.got[c] = joint[m].stale[c], !.late = TRUE]
           ELSE joint[m]]
      /\ UNCHANGED <<now, row, stored, memory, request, answers>>
  BY DEF ProviderFails
<1>2. stored' \in [Chain -> Part \union {None}]
  BY <1>1 DEF HoldingsInv, Types
<1>3. ASSUME NEW m \in Mode, Awaits(m, a, c)
      PROVE  joint'[m] \in Joint /\ JointSound(m, joint'[m])
  <2> DEFINE got == [joint[m].got EXCEPT ![c] = joint[m].stale[c]]
  <2>1. joint[m] # NoJoint /\ joint[m].address = a /\ joint[m].got[c] = Waiting
    BY <1>3 DEF Awaits
  <2>2. joint[m] \in Joint /\ JointSound(m, joint[m])
    BY <2>1 DEF HoldingsInv, Types, JointsSound, JointSound
  <2>3. /\ got \in [Chain -> Part \union {None, Waiting}]
        /\ \A d \in Chain : got[d] = IF d = c THEN joint[m].stale[c] ELSE joint[m].got[d]
    BY <2>2 DEF Joint
  <2>4. joint'[m] = [joint[m] EXCEPT !.got = got, !.late = TRUE]
    BY <1>1, <1>3
  <2>5. \A d \in Chain :
           \/ got[d] = joint[m].got[d]
           \/ got[d] = None
           \/ joint[m].got[d] # None /\ Honest(m, joint[m].address, got[d])
    BY <2>1, <2>2, <2>3 DEF JointSound, None, Waiting
  <2> HIDE DEF got
  <2> QED
    BY <2>1, <2>3, <2>4, <2>5, GotSound, ZenonT(40)
<1>4. /\ joint' \in [Mode -> Joint \union {NoJoint}]
      /\ \A m \in Mode : joint'[m] = joint[m] \/ JointSound(m, joint'[m])
  <2>1. \A m \in Mode : joint'[m] = joint[m] \/ (joint'[m] \in Joint /\ JointSound(m, joint'[m]))
    BY <1>1, <1>3
  <2>2. joint \in [Mode -> Joint \union {NoJoint}] /\ joint' = [m \in Mode |-> joint'[m]]
    BY <1>1 DEF HoldingsInv, Types
  <2> QED
    BY <2>1, <2>2
<1> QED
  BY <1>1, <1>2, <1>4, ChainEndsKeeps

LEMMA TimesOutKeeps ==
  ASSUME HoldingsAssumption, HoldingsInv, NEW mode \in Mode, TimesOut(mode)
  PROVE  HoldingsInv'
<1> DEFINE got == [c \in Chain |-> IF joint[mode].got[c] = Waiting THEN joint[mode].stale[c]
                                                                ELSE joint[mode].got[c]]
           new == [joint[mode] EXCEPT !.got = got, !.late = TRUE]
<1>1. /\ joint[mode] # NoJoint
      /\ UNCHANGED <<now, row, stored, memory, fetch, request, answers>>
      /\ joint' = [joint EXCEPT ![mode].late = TRUE,
           ![mode].got = [c \in Chain |-> IF @[c] = Waiting THEN joint[mode].stale[c] ELSE @[c]]]
  BY DEF TimesOut
<1>2. joint[mode] \in Joint /\ JointSound(mode, joint[mode])
  BY <1>1 DEF HoldingsInv, Types, JointsSound, JointSound
<1>3. joint' = [joint EXCEPT ![mode] = new]
  <2>1. joint \in [Mode -> Joint \union {NoJoint}]
    BY DEF HoldingsInv, Types
  <2>2. joint' = [joint EXCEPT ![mode] = [joint[mode] EXCEPT !.late = TRUE, !.got = got]]
    BY <1>1, <2>1
  <2>3. [joint[mode] EXCEPT !.late = TRUE, !.got = got] = new
    BY <1>2 DEF Joint
  <2> QED
    BY <2>2, <2>3
<1>4. got \in [Chain -> Part \union {None, Waiting}]
  BY <1>2 DEF Joint
<1>5. \A c \in Chain :
         \/ got[c] = joint[mode].got[c]
         \/ got[c] = None
         \/ joint[mode].got[c] # None /\ Honest(mode, joint[mode].address, got[c])
  BY <1>2 DEF JointSound, None, Waiting
<1> HIDE DEF got
<1>6. new \in Joint /\ JointSound(mode, new)
  BY <1>1, <1>4, <1>5, GotSound
<1> HIDE DEF new
<1>7. joint' \in [Mode -> Joint \union {NoJoint}]
  BY <1>3, <1>6 DEF HoldingsInv, Types
<1>8. \A m \in Mode : joint'[m] = joint[m] \/ JointSound(m, joint'[m])
  BY <1>3, <1>6 DEF HoldingsInv, Types
<1>9. JointsSound'
  BY <1>1, <1>8, JointsKeep
<1>10. ChainsKept' /\ RequestsSound' /\ ResultsKept'
  BY <1>1, ChainsStay, RequestsStay, ResultsStay DEF HoldingsInv, memory
<1> QED
  BY <1>1, <1>7, <1>9, <1>10 DEF HoldingsInv, Types, row, memory

\* What the shared work ends with can be answered with.
LEMMA AggregateHonest ==
  ASSUME HoldingsAssumption, HoldingsInv, NEW mode \in Mode, joint[mode] # NoJoint,
         \A c \in Chain : joint[mode].got[c] # Waiting
  PROVE  Aggregate(mode) \in Result /\ HonestResult(mode, Aggregate(mode))
           /\ Presentable(Aggregate(mode))
<1> DEFINE j == joint[mode]
           v == Aggregate(mode)
<1>1. j \in Joint /\ JointSound(mode, j)
  BY DEF HoldingsInv, Types, JointsSound, JointSound
<1>2. /\ j.address \in Address /\ j.since \in 0 .. MaxTime /\ j.late \in BOOLEAN
      /\ j.got \in [Chain -> Part \union {None}] /\ j.good \in Result \union {None}
  <2>1. \A c \in Chain : j.got[c] \in Part \union {None}
    BY <1>1 DEF Joint
  <2> QED
    BY <1>1, <2>1 DEF Joint
<1>3. now \in Nat /\ changedAt \in Int /\ enabled \subseteq Chain
  BY DEF HoldingsInv, Types, HoldingsAssumption
<1>4. CASE \E c \in Chain : j.got[c] # None
  <2> DEFINE partial == j.late \/ \E c \in enabled : j.got[c] = None \/ Degraded(j.got[c])
             result == [kind |-> "result", address |-> j.address, parts |-> j.got,
               partial |-> partial]
  <2>1. v = result
    BY <1>4, Zenon DEF Aggregate
  <2>2. partial \in BOOLEAN
    BY <1>2
  <2>3. ~partial => ~j.late /\ \A c \in enabled : j.got[c] # None /\ ~Degraded(j.got[c])
    OBVIOUS
  <2> HIDE DEF partial
  <2>4. /\ result \in Result /\ result.partial = partial /\ result.parts = j.got
        /\ result.address = j.address
    BY <1>2, <2>2 DEF Result
  <2>5. HonestResult(mode, result)
    BY <1>1, <2>4 DEF HonestResult, JointSound
  <2>6. ASSUME ~partial
        PROVE  /\ {c \in Chain : j.got[c] # None} = enabled
               /\ \A c \in enabled : now <= j.got[c].at + Ttl + Timeout
               /\ j.address # address => changedAt # -1 /\ now <= changedAt + DatabaseTime + Timeout
    <3>1. {c \in Chain : j.got[c] # None} = enabled
      BY <1>1, <1>3, <2>3, <2>6 DEF JointSound
    <3>2. now <= j.since + Timeout /\ j.since \in Nat
      BY <1>1, <1>2 DEF JointSound, HoldingsAssumption
    <3>3. ASSUME NEW c \in enabled
          PROVE  now <= j.got[c].at + Ttl + Timeout
      <4>1. c \in Chain /\ j.got[c] # None /\ ~Degraded(j.got[c]) /\ ~j.late
        BY <1>3, <2>3, <2>6
      <4>2. j.since <= j.got[c].at + Ttl
        BY <1>1, <4>1 DEF JointSound
      <4>3. j.got[c].at \in Int
        BY <1>2, <4>1 DEF Part
      <4> QED
        BY <1>3, <3>2, <4>2, <4>3 DEF HoldingsAssumption
    <3>4. ASSUME j.address # address
          PROVE  changedAt # -1 /\ now <= changedAt + DatabaseTime + Timeout
      <4>1. changedAt # -1 /\ j.since <= changedAt + DatabaseTime
        BY <1>1, <3>4 DEF JointSound
      <4> QED
        BY <1>3, <3>2, <4>1 DEF HoldingsAssumption
    <3> QED
      BY <3>1, <3>3, <3>4
  <2> HIDE DEF result
  <2>7. Presentable(result)
    BY <2>4, <2>6 DEF Presentable
  <2> QED
    BY <2>1, <2>4, <2>5, <2>7
<1>5. CASE ~(\E c \in Chain : j.got[c] # None) /\ j.good # None
  <2>1. v = [j.good EXCEPT !.partial = TRUE]
    BY <1>5 DEF Aggregate
  <2>2. j.good \in Result /\ HonestResult(mode, j.good)
    BY <1>1, <1>2, <1>5 DEF JointSound
  <2>3. v \in Result /\ v.partial /\ v.parts = j.good.parts /\ v.address = j.good.address
    BY <2>1, <2>2 DEF Result
  <2> QED
    BY <2>2, <2>3 DEF HonestResult, Presentable
<1>6. CASE ~(\E c \in Chain : j.got[c] # None) /\ j.good = None
  <2> DEFINE known == [c \in Chain |-> IF c \in enabled THEN GoodFor(mode, j.address, c) ELSE None]
  <2>1. v = [kind |-> "result", address |-> j.address, parts |-> known, partial |-> TRUE]
    BY <1>6 DEF Aggregate
  <2>2. ASSUME NEW c \in Chain
        PROVE  known[c] \in Part \union {None}
                 /\ (known[c] # None => Honest(mode, j.address, known[c]))
    <3>1. /\ GoodFor(mode, j.address, c) \in Part \union {None}
          /\ GoodFor(mode, j.address, c) # None
               => Honest(mode, j.address, GoodFor(mode, j.address, c))
      BY <1>2, GoodForHonest DEF HoldingsInv
    <3> QED
      BY <3>1
  <2>3. known \in [Chain -> Part \union {None}]
    BY <2>2
  <2> HIDE DEF known
  <2>4. v \in Result /\ v.partial /\ v.parts = known /\ v.address = j.address
    BY <1>2, <2>1, <2>3 DEF Result
  <2> QED
    BY <2>2, <2>4 DEF HonestResult, Presentable
<1> QED
  BY <1>4, <1>5, <1>6

LEMMA FinishKeeps ==
  ASSUME HoldingsAssumption, HoldingsInv, NEW mode \in Mode, Finish(mode)
  PROVE  HoldingsInv'
<1>1. /\ joint[mode] # NoJoint
      /\ \A c \in Chain : joint[mode].got[c] # Waiting
      /\ ResultCached(mode, Aggregate(mode)) /\ ResultGood(mode, Aggregate(mode))
      /\ joint' = [joint EXCEPT ![mode] = NoJoint]
      /\ UNCHANGED <<now, row, stored, chainCache, chainGood, fetch, request, answers>>
  BY DEF Finish
<1>2. /\ cache' \in [Mode -> Entry(Result) \union {None}]
      /\ good' \in [Mode -> Entry(Result) \union {None}]
      /\ ResultsKept'
  BY <1>1, AggregateHonest, ResultsStored
<1>3. joint' \in [Mode -> Joint \union {NoJoint}]
  BY <1>1 DEF HoldingsInv, Types
<1>4. \A m \in Mode : joint'[m] # NoJoint => joint'[m] = joint[m]
  BY <1>1 DEF HoldingsInv, Types
<1>5. JointsSound'
  BY <1>1, <1>4, JointsKeep
<1>6. ChainsKept' /\ RequestsSound'
  BY <1>1, ChainsStay, RequestsStay DEF HoldingsInv
<1> QED
  BY <1>1, <1>2, <1>3, <1>5, <1>6 DEF HoldingsInv, Types, row

\* The address changes: what is under way and what is kept was for it until now.
LEMMA ChangeAddressKeeps ==
  ASSUME HoldingsAssumption, HoldingsInv, NEW a \in Address, ChangeAddress(a)
  PROVE  HoldingsInv'
<1>1. /\ changedAt = -1 /\ address' = a /\ changedAt' = now /\ enabled' = enabled
      /\ UNCHANGED <<now, stored, memory, fetch, joint, request, answers>>
  BY DEF ChangeAddress
<1>2. now \in 0 .. MaxTime /\ now \in Nat
  BY DEF HoldingsInv, Types, HoldingsAssumption
<1>3. now # -1
  BY <1>2
<1>4. Types'
  BY <1>1, <1>2 DEF HoldingsInv, Types, memory
<1>5. ChainsKept'
  BY <1>1, ChainsStay DEF HoldingsInv, memory
<1>6. RequestsSound'
  <2> SUFFICES ASSUME NEW r \in Request, request[r].at # "idle"
               PROVE  /\ request[r].since <= now /\ now <= request[r].since + DatabaseTime
                      /\ request[r].at = "loading" => request[r].mode = "usual"
                      /\ request[r].good # None => HonestResult(request[r].mode, request[r].good)'
    BY <1>1, <1>3 DEF RequestsSound
  <2>1. RequestSound(request[r])
    BY RequestTypes
  <2>2. ASSUME request[r].good # None
        PROVE  HonestResult(request[r].mode, request[r].good)'
    <3>1. HonestResult(request[r].mode, request[r].good)
      BY <2>1, <2>2 DEF RequestSound
    <3>2. UNCHANGED request
      BY <1>1
    <3> QED
      BY <3>1, <3>2 DEF HonestResult, Honest
  <2> QED
    BY <2>1, <2>2 DEF RequestSound
<1>7. JointsSound'
  <2> SUFFICES ASSUME NEW m \in Mode, joint[m] # NoJoint
               PROVE  JointSound(m, joint[m])'
    BY <1>1 DEF JointsSound, JointSound
  <2>1. JointSound(m, joint[m]) /\ joint[m] \in Joint
    BY DEF HoldingsInv, Types, JointsSound, JointSound
  <2>2. joint[m].since <= now /\ joint[m].since \in Nat
    BY <2>1 DEF JointSound, Joint, HoldingsAssumption
  <2>3. joint[m].since <= now + DatabaseTime
    BY <1>2, <2>2 DEF HoldingsAssumption
  <2> QED
    BY <1>1, <1>3, <2>1, <2>3 DEF JointSound, HonestResult, Honest, Degraded
<1>8. ResultsKept'
  <2> SUFFICES ASSUME NEW m \in Mode
               PROVE  /\ cache[m] # None
                           => HonestResult(m, cache[m].value)' /\ CompleteKept(cache[m])'
                      /\ good[m] # None => HonestResult(m, good[m].value)'
    BY <1>1 DEF ResultsKept, memory
  <2>1. UNCHANGED <<cache, good>>
    BY <1>1 DEF memory
  <2>2. /\ cache[m] # None => HonestResult(m, cache[m].value)'
        /\ good[m] # None => HonestResult(m, good[m].value)'
    BY <2>1 DEF HoldingsInv, ResultsKept, HonestResult, Honest
  <2>3. ASSUME cache[m] # None
        PROVE  CompleteKept(cache[m])'
    <3>1. CompleteKept(cache[m]) /\ cache[m].expires \in Nat
      BY <2>3, ResultTypes DEF HoldingsInv, ResultsKept
    <3>2. cache[m].expires <= now + Ttl => cache[m].expires <= now + DatabaseTime + Timeout + Ttl
      BY <1>2, <3>1 DEF HoldingsAssumption
    <3> QED
      BY <1>1, <1>3, <2>1, <3>1, <3>2 DEF CompleteKept
  <2> QED
    BY <2>2, <2>3
<1> QED
  BY <1>4, <1>5, <1>6, <1>7, <1>8 DEF HoldingsInv

LEMMA TickKeeps ==
  ASSUME HoldingsAssumption, HoldingsInv, Tick
  PROVE  HoldingsInv'
<1>1. /\ now < MaxTime /\ now' = now + 1
      /\ \A r \in Request : request[r].at # "idle" => now < request[r].since + DatabaseTime
      /\ \A k \in Address \X Chain :
           fetch[k].at = "persisting" => now < fetch[k].part.at + DatabaseTime
      /\ \A m \in Mode : joint[m] # NoJoint => now < joint[m].since + Timeout
  BY DEF Tick
<1>2. /\ chainCache' = [k \in Address \X Chain |-> Kept(chainCache[k])]
      /\ chainGood' = [k \in Address \X Chain |-> Kept(chainGood[k])]
      /\ cache' = [m \in Mode |-> Kept(cache[m])]
      /\ good' = [m \in Mode |-> Kept(good[m])]
      /\ UNCHANGED <<row, stored, fetch, joint, request, answers>>
  BY DEF Tick
<1>3. UNCHANGED <<address, changedAt, enabled>>
  BY <1>2 DEF row
<1>4. now \in 0 .. MaxTime /\ now \in Nat /\ MaxTime \in Nat
  BY DEF HoldingsInv, Types, HoldingsAssumption
<1>5. /\ \A k \in Address \X Chain :
            /\ chainCache'[k] = None \/ chainCache'[k] = chainCache[k]
            /\ chainGood'[k] = None \/ chainGood'[k] = chainGood[k]
      /\ \A m \in Mode :
            /\ cache'[m] = None \/ (cache'[m] = cache[m] /\ ~(cache[m].expires <= now + 1))
            /\ good'[m] = None \/ good'[m] = good[m]
  BY <1>2 DEF Kept
<1>6. Types'
  <2>1. /\ chainCache' \in [Address \X Chain -> Entry(Part) \union {None}]
        /\ chainGood' \in [Address \X Chain -> Entry(Part) \union {None}]
    BY <1>2, <1>5 DEF HoldingsInv, Types
  <2>2. cache' \in [Mode -> Entry(Result) \union {None}]
          /\ good' \in [Mode -> Entry(Result) \union {None}]
    BY <1>2, <1>5 DEF HoldingsInv, Types
  <2>3. now' \in 0 .. MaxTime
    BY <1>1, <1>4
  <2> QED
    BY <1>2, <1>3, <2>1, <2>2, <2>3 DEF HoldingsInv, Types
<1>7. ChainsKept'
  <2> SUFFICES ASSUME NEW k \in Address \X Chain
               PROVE  /\ chainCache'[k] # None =>
                           /\ Honest("live", k[1], chainCache'[k].value)
                           /\ ~Degraded(chainCache'[k].value) =>
                                chainCache'[k].expires <= chainCache'[k].value.at + Ttl
                      /\ chainGood'[k] # None => chainGood'[k].value.address = k[1]
                      /\ fetch[k].at = "persisting" =>
                           Honest("live", k[1], fetch[k].part)
                             /\ now + 1 <= fetch[k].part.at + DatabaseTime
    BY <1>1, <1>2 DEF ChainsKept, Honest, Degraded
  <2>1. fetch[k].at = "persisting" => fetch[k].part.at \in Int
    BY DEF HoldingsInv, Types, Fetch, Part
  <2>2. fetch[k].at = "persisting" => now + 1 <= fetch[k].part.at + DatabaseTime
    BY <1>1, <1>4, <2>1 DEF HoldingsAssumption
  <2> QED
    BY <1>5, <2>2 DEF HoldingsInv, ChainsKept
<1>8. RequestsSound'
  <2> SUFFICES ASSUME NEW r \in Request, request[r].at # "idle"
               PROVE  RequestSound(request[r])'
    BY <1>2 DEF RequestsSound, RequestSound
  <2>1. RequestSound(request[r]) /\ request[r] \in Asking
    BY RequestTypes
  <2>2. request[r].since \in Int
    BY <2>1 DEF Asking
  <2>3. request[r].since <= now + 1 /\ now + 1 <= request[r].since + DatabaseTime
    BY <1>1, <1>4, <2>1, <2>2 DEF RequestSound, HoldingsAssumption
  <2> QED
    BY <1>1, <1>2, <1>3, <2>1, <2>3 DEF RequestSound, HonestResult, Honest
<1>9. JointsSound'
  <2> SUFFICES ASSUME NEW m \in Mode, joint[m] # NoJoint
               PROVE  JointSound(m, joint[m])'
    BY <1>2 DEF JointsSound, JointSound
  <2>1. JointSound(m, joint[m]) /\ joint[m] \in Joint
    BY DEF HoldingsInv, Types, JointsSound, JointSound
  <2>2. joint[m].since \in Int
    BY <2>1 DEF Joint
  <2>3. joint[m].since <= now + 1 /\ now + 1 <= joint[m].since + Timeout
    BY <1>1, <1>4, <2>1, <2>2 DEF JointSound, HoldingsAssumption
  <2> QED
    BY <1>1, <1>2, <1>3, <2>1, <2>3 DEF JointSound, HonestResult, Honest, Degraded
<1>10. ResultsKept'
  <2> SUFFICES ASSUME NEW m \in Mode
               PROVE  /\ cache'[m] # None
                           => HonestResult(m, cache[m].value)' /\ CompleteKept(cache[m])'
                      /\ good'[m] # None => HonestResult(m, good[m].value)'
    BY DEF ResultsKept
  <2>1. /\ cache'[m] # None => HonestResult(m, cache[m].value)'
        /\ good'[m] # None => HonestResult(m, good[m].value)'
    BY <1>5 DEF HoldingsInv, ResultsKept, HonestResult, Honest
  <2>2. ASSUME cache'[m] # None
        PROVE  CompleteKept(cache[m])'
    <3>1. cache'[m] = cache[m] /\ ~(cache[m].expires <= now + 1) /\ cache[m] # None
      BY <1>5, <2>2
    <3>2. CompleteKept(cache[m]) /\ cache[m].expires \in Nat
      BY <3>1, ResultTypes DEF HoldingsInv, ResultsKept
    <3>3. now + 1 < cache[m].expires
      BY <1>4, <3>1, <3>2
    <3>4. cache[m].expires <= now + Ttl => cache[m].expires <= now + 1 + Ttl
      BY <1>4, <3>2 DEF HoldingsAssumption
    <3> QED
      BY <1>1, <1>3, <3>1, <3>2, <3>3, <3>4 DEF CompleteKept
  <2> QED
    BY <2>1, <2>2
<1> QED
  BY <1>6, <1>7, <1>8, <1>9, <1>10 DEF HoldingsInv

LEMMA HoldingsInit == ASSUME HoldingsAssumption, Init PROVE HoldingsInv
<1>1. Types
  <2>1. address \in Address
    BY DEF HoldingsAssumption, Init
  <2>2. [at |-> "none"] \in Fetch
    BY DEF Fetch
  <2> QED
    BY <2>1, <2>2 DEF HoldingsAssumption, Init, Types, Nowhere
<1>2. ChainsKept
  BY DEF Init, ChainsKept, Nowhere
<1>3. RequestsSound
  BY DEF Init, RequestsSound, Idle
<1>4. JointsSound
  BY DEF Init, JointsSound
<1>5. ResultsKept
  BY DEF Init, ResultsKept
<1> QED
  BY <1>1, <1>2, <1>3, <1>4, <1>5 DEF HoldingsInv

LEMMA HoldingsNext ==
  ASSUME HoldingsAssumption, HoldingsInv, [Next]_vars
  PROVE  HoldingsInv'
<1>1. CASE Next
  <2>1. ASSUME NEW r \in Request,
               (\E mode \in Mode : Ask(r, mode)) \/ Look(r) \/ Load(r) \/ ReadFails(r)
        PROVE  HoldingsInv'
    BY <2>1, AskKeeps, LookKeeps, LoadKeeps, ReadFailsKeeps
  <2>2. ASSUME NEW a \in Address, NEW c \in Chain,
               ProviderAnswers(a, c) \/ Persist(a, c) \/ ProviderFails(a, c)
        PROVE  HoldingsInv'
    BY <2>2, ProviderAnswersKeeps, PersistKeeps, ProviderFailsKeeps
  <2>3. ASSUME NEW mode \in Mode, TimesOut(mode) \/ Finish(mode)
        PROVE  HoldingsInv'
    BY <2>3, TimesOutKeeps, FinishKeeps
  <2> QED
    BY <1>1, <2>1, <2>2, <2>3, TickKeeps, ChangeAddressKeeps DEF Next
<1>2. CASE UNCHANGED vars
  <2>1. UNCHANGED <<now, row, stored, memory, fetch, joint, request, answers>>
    BY <1>2 DEF vars
  <2>2. ChainsKept' /\ RequestsSound' /\ JointsSound' /\ ResultsKept'
    BY <2>1, ChainsStay, RequestsStay, JointsStay, ResultsStay DEF HoldingsInv, memory
  <2> QED
    BY <2>1, <2>2 DEF HoldingsInv, Types, row, memory
<1> QED
  BY <1>1, <1>2

\* The invariant of the holdings holds.
THEOREM HoldingsInvariant ==
  ASSUME HoldingsAssumption
  PROVE  Spec => []HoldingsInv
<1>1. Init => HoldingsInv
  BY HoldingsInit
<1>2. HoldingsInv /\ [Next]_vars => HoldingsInv'
  BY HoldingsNext
<1> QED
  BY <1>1, <1>2, PTL DEF Spec

LEMMA HoldingsInvImplies ==
  ASSUME HoldingsAssumption, HoldingsInv
  PROVE  TypeOK /\ HonestAnswers
<1>1. TypeOK
  <2>1. \A k \in Address \X Chain :
          /\ chainCache[k] \in Entry(Part) \union {None}
          /\ chainGood[k] \in Entry(Part) \union {None}
          /\ fetch[k].at \in {"none", "calling", "persisting"}
    BY DEF HoldingsInv, Types, Fetch
  <2>2. \A m \in Mode :
          /\ cache[m] = None \/ cache[m].value \in Result
          /\ good[m] = None \/ good[m].value \in Result
          /\ joint[m] = NoJoint
             \/ \A c \in Chain : joint[m].got[c] \in Part \union {None, Waiting}
    BY ResultTypes DEF HoldingsInv, Types, Joint
  <2>3. \A r \in Request :
          /\ request[r].at \in {"idle", "found", "loading"}
          /\ request[r].at # "idle" => request[r].mode \in Mode /\ request[r].address \in Address
    BY DEF HoldingsInv, Types, Asking, Idle
  <2> QED
    BY <2>1, <2>2, <2>3 DEF HoldingsInv, Types, TypeOK
<1>2. HonestAnswers
  <2> SUFFICES ASSUME NEW mode \in Mode, cache[mode] # None
               PROVE  LET v == cache[mode].value
                          found == {c \in Chain : v.parts[c] # None} IN
                      /\ \A c \in found : v.parts[c].address = v.address
                      /\ mode = "live" => \A c \in found : v.parts[c].source = "live"
                      /\ ~v.partial =>
                           /\ found = enabled
                           /\ \A c \in enabled : now < v.parts[c].at + 2 * Ttl + Timeout
                           /\ v.address # address => now < changedAt + DatabaseTime + Timeout + Ttl
    BY DEF HonestAnswers
  <2> DEFINE v == cache[mode].value
             found == {c \in Chain : v.parts[c] # None}
  <2>1. /\ v \in Result /\ cache[mode].expires \in Nat /\ now \in Nat /\ changedAt \in Int
        /\ HonestResult(mode, v) /\ CompleteKept(cache[mode]) /\ enabled \subseteq Chain
    BY ResultTypes DEF HoldingsInv, Types, ResultsKept, HoldingsAssumption
  <2>2. /\ \A c \in found : v.parts[c].address = v.address
        /\ mode = "live" => \A c \in found : v.parts[c].source = "live"
    BY <2>1 DEF HonestResult, Honest
  <2>3. ASSUME ~v.partial
        PROVE  /\ found = enabled
               /\ \A c \in enabled : now < v.parts[c].at + 2 * Ttl + Timeout
               /\ v.address # address => now < changedAt + DatabaseTime + Timeout + Ttl
    <3>1. /\ now < cache[mode].expires /\ found = enabled
          /\ \A c \in enabled : cache[mode].expires <= v.parts[c].at + 2 * Ttl + Timeout
          /\ v.address # address => cache[mode].expires <= changedAt + DatabaseTime + Timeout + Ttl
      BY <2>1, <2>3 DEF CompleteKept
    <3>2. ASSUME NEW c \in enabled
          PROVE  now < v.parts[c].at + 2 * Ttl + Timeout
      <4>1. v.parts[c] \in Part
        BY <2>1, <3>1 DEF Result
      <4>2. v.parts[c].at \in Int /\ cache[mode].expires <= v.parts[c].at + 2 * Ttl + Timeout
        BY <3>1, <4>1 DEF Part
      <4> QED
        BY <2>1, <3>1, <4>2 DEF HoldingsAssumption
    <3>3. ASSUME v.address # address
          PROVE  now < changedAt + DatabaseTime + Timeout + Ttl
      BY <2>1, <3>1, <3>3 DEF HoldingsAssumption
    <3> QED
      BY <3>1, <3>2, <3>3
  <2> QED
    BY <2>2, <2>3
<1> QED
  BY <1>1, <1>2

-----------------------------------------------------------------------------
(* Positions (WalletPositions).                                            *)
LEMMA LessIsRelated ==
  ASSUME NEW S \in SUBSET Nat, NEW x \in S, NEW y \in S, x < y
  PROVE  <<x, y>> \in OpToRel(<, Nat)
  BY DEF OpToRel

\* A nonempty set of natural numbers has a least one.
LEMMA LeastExists ==
  ASSUME NEW S \in SUBSET Nat, S # {}
  PROVE  \E x \in S : \A y \in S : x <= y
<1>1. PICK x \in S : \A y \in S : ~(<<y, x>> \in OpToRel(<, Nat))
  BY NatLessThanWellFounded, WFMin
<1>2. \A y \in S : ~(y < x)
  BY <1>1, LessIsRelated
<1> QED
  BY <1>2

Responses == [Positions!ChainNo -> Positions!Response \union {Positions!Error, Positions!None}]

LEMMA ResponseTypes ==
  /\ \A v \in Positions!Response \union {Positions!Error, Positions!None} : v.kind = "response"
       <=> v \in Positions!Response
  /\ \A v \in Positions!Response : v # Positions!None /\ v # Positions!Error
  /\ \A p \in Positions!Part : p # Positions!None
  BY DEF Positions!Response, Positions!Error, Positions!None, Positions!Part

LEMMA UsableEarlier ==
  ASSUME Positions!PositionsAssumption, NEW v \in Positions!Response, NEW a \in Address,
         NEW t \in Int, NEW s \in Int,
         Positions!Usable(v, a, t), s <= t
  PROVE  Positions!Usable(v, a, s)
<1>1. v.part # Positions!None => v.part.at \in Int
  BY DEF Positions!Response, Positions!Part
<1>2. ASSUME v.part # Positions!None
      PROVE  s < v.part.at + PositionsGoodTtl + LoopTime + PositionsTtl
  <2>1. t < v.part.at + PositionsGoodTtl + LoopTime + PositionsTtl
    BY <1>2 DEF Positions!Usable
  <2> QED
    BY <1>1, <1>2, <2>1 DEF Positions!PositionsAssumption
<1>3. ASSUME ~v.partial
      PROVE  s < v.part.at + PositionsTtl
  <2>1. v.part # Positions!None /\ t < v.part.at + PositionsTtl
    BY <1>3 DEF Positions!Usable
  <2> QED
    BY <1>1, <2>1 DEF Positions!PositionsAssumption
<1> QED
  BY <1>2, <1>3 DEF Positions!Usable

\* What memory has for a chain is usable now.
LEMMA PeekUsable ==
  ASSUME Positions!PositionsAssumption, Positions!Types, Positions!ProviderKept,
         NEW a \in Address, NEW c \in Positions!ChainNo
  PROVE  /\ Positions!Peek(a, c) \in Positions!Response \union {Positions!None}
         /\ Positions!Peek(a, c) # Positions!None
              => Positions!Usable(Positions!Peek(a, c), a, positionsNow)
<1> DEFINE e == positionsCache[<<a, c>>]
<1>1. <<a, c>> \in Address \X Positions!ChainNo /\ <<a, c>>[1] = a
  OBVIOUS
<1>2. e \in Positions!Entry(Positions!Response) \union {Positions!None}
  BY <1>1 DEF Positions!Types
<1>3. CASE Positions!Fresh(e)
  <2>1. e \in Positions!Entry(Positions!Response) /\ e # Positions!None /\ e.expires > positionsNow
    BY <1>2, <1>3 DEF Positions!Fresh
  <2>2. e.value \in Positions!Response /\ e.expires \in Int /\ positionsNow \in Int
          /\ Positions!Peek(a, c) = e.value
    BY <1>3, <2>1 DEF Positions!Entry, Positions!Types, Positions!Peek
  <2>3. Positions!Usable(e.value, a, e.expires - 1)
    BY <1>1, <2>1 DEF Positions!ProviderKept, Positions!CacheSound
  <2>4. positionsNow <= e.expires - 1 /\ e.expires - 1 \in Int
    BY <2>1, <2>2
  <2>5. Positions!Usable(e.value, a, positionsNow)
    BY <2>2, <2>3, <2>4, UsableEarlier
  <2> QED
    BY <2>2, <2>5
<1>4. CASE ~Positions!Fresh(e)
  BY <1>4 DEF Positions!Peek
<1> QED
  BY <1>3, <1>4

\* The last good value, if it has not gone.
LEMMA PeekGoodSound ==
  ASSUME Positions!PositionsAssumption, Positions!Types, Positions!ProviderKept,
         NEW a \in Address, NEW c \in Positions!ChainNo
  PROVE  /\ Positions!PeekGood(a, c) \in Positions!Part \union {Positions!None}
         /\ Positions!PeekGood(a, c) # Positions!None =>
              /\ Positions!PeekGood(a, c).address = a /\ ~Positions!PeekGood(a, c).stored
              /\ positionsNow < Positions!PeekGood(a, c).at + PositionsGoodTtl
<1> DEFINE e == lastGood[<<a, c>>]
<1>1. <<a, c>> \in Address \X Positions!ChainNo /\ <<a, c>>[1] = a
  OBVIOUS
<1>2. e \in Positions!Entry(Positions!Part) \union {Positions!None}
  BY <1>1 DEF Positions!Types
<1>3. CASE Positions!Fresh(e)
  <2>1. e \in Positions!Entry(Positions!Part) /\ e # Positions!None /\ e.expires > positionsNow
    BY <1>2, <1>3 DEF Positions!Fresh
  <2>2. e.value \in Positions!Part /\ e.expires \in Int /\ positionsNow \in Int
          /\ Positions!PeekGood(a, c) = e.value
    BY <1>3, <2>1 DEF Positions!Entry, Positions!Types, Positions!PeekGood
  <2>3. e.value.address = a /\ ~e.value.stored /\ e.expires <= e.value.at + PositionsGoodTtl
    BY <1>1, <2>1 DEF Positions!ProviderKept, Positions!GoodSound
  <2>4. e.value.at \in Int
    BY <2>2 DEF Positions!Part
  <2>5. positionsNow < e.value.at + PositionsGoodTtl
    BY <2>1, <2>2, <2>3, <2>4 DEF Positions!PositionsAssumption
  <2> QED
    BY <2>2, <2>3, <2>5
<1>4. CASE ~Positions!Fresh(e)
  BY <1>4 DEF Positions!PeekGood
<1> QED
  BY <1>3, <1>4

\* Nothing but the call, the requests or the result changes: what holds of the new value
\* holds after the step.
LEMMA Stay ==
  ASSUME UNCHANGED <<positionsNow, Positions!row>>
  PROVE  /\ Positions!CallSound(sharing') => Positions!CallSound(sharing)'
         /\ (\A r \in Request : Positions!RequestSound(positionsRequest'[r]))
              => Positions!RequestsSound'
         /\ Positions!ResultKept(positions') => Positions!ResultKept(positions)'
<1>1. UNCHANGED <<positionsNow, owner, movedAt, numEnabled>> /\ UNCHANGED Positions!Enabled
  BY DEF Positions!row, Positions!Enabled
<1>2. Positions!CallSound(sharing') => Positions!CallSound(sharing)'
  BY <1>1 DEF Positions!CallSound, Positions!Usable
<1>3. ASSUME \A r \in Request : Positions!RequestSound(positionsRequest'[r])
      PROVE  Positions!RequestsSound'
  BY <1>1, <1>3 DEF Positions!RequestsSound, Positions!RequestSound, Positions!Usable
<1>4. Positions!ResultKept(positions') => Positions!ResultKept(positions)'
  BY <1>1 DEF Positions!ResultKept, Positions!PartKept
<1> QED
  BY <1>2, <1>3, <1>4

LEMMA RequestKeeps ==
  ASSUME Positions!PositionsInv, UNCHANGED <<positionsNow, Positions!row>>, NEW r \in Request,
         NEW q \in Positions!Asking \union Positions!Loading \union {Positions!Idle},
           Positions!RequestSound(q), Positions!Goto(r, q)
  PROVE  /\ positionsRequest'
              \in [Request -> Positions!Asking \union Positions!Loading \union {Positions!Idle}]
         /\ Positions!RequestsSound'
<1>1. \A s \in Request : positionsRequest'[s] = IF s = r THEN q ELSE positionsRequest[s]
  BY DEF Positions!PositionsInv, Positions!Types, Positions!Goto
<1>2. positionsRequest'
        \in [Request -> Positions!Asking \union Positions!Loading \union {Positions!Idle}]
  BY DEF Positions!PositionsInv, Positions!Types, Positions!Goto
<1>3. \A s \in Request : Positions!RequestSound(positionsRequest'[s])
  BY <1>1 DEF Positions!PositionsInv, Positions!RequestsSound
<1> QED
  BY <1>2, <1>3, Stay

LEMMA IdleSound == Positions!Idle \in {Positions!Idle} /\ Positions!RequestSound(Positions!Idle)
  BY DEF Positions!RequestSound, Positions!Idle

\* An entry for a chain changes.
LEMMA ChainCacheKeeps ==
  ASSUME Positions!PositionsInv, NEW a \in Address, NEW c \in Positions!ChainNo,
         NEW e \in Positions!Entry(Positions!Response),
         Positions!CacheSound(<<a, c>>, e),
         positionsCache' = [positionsCache EXCEPT ![<<a, c>>] = e]
  PROVE  /\ positionsCache'
              \in [Address \X Positions!ChainNo -> Positions!Entry(Positions!Response)
              \union {Positions!None}]
         /\ \A k \in Address \X Positions!ChainNo : Positions!CacheSound(k, positionsCache'[k])
<1>1. \A k \in Address \X Positions!ChainNo :
        positionsCache'[k] = IF k = <<a, c>> THEN e ELSE positionsCache[k]
  BY DEF Positions!PositionsInv, Positions!Types
<1> QED
  BY <1>1 DEF Positions!PositionsInv, Positions!Types, Positions!ProviderKept

\* A response that is kept from now on, usable until it goes.
LEMMA CachedSound ==
  ASSUME Positions!PositionsAssumption, Positions!Types, NEW a \in Address,
         NEW c \in Positions!ChainNo, NEW v \in Positions!Response,
         Positions!Usable(v, a, positionsNow + PositionsTtl - 1)
  PROVE  Positions!Cached(v, PositionsTtl) \in Positions!Entry(Positions!Response)
           /\ Positions!CacheSound(<<a, c>>, Positions!Cached(v, PositionsTtl))
<1>1. positionsNow \in Nat /\ PositionsTtl \in Nat
  BY DEF Positions!Types, Positions!PositionsAssumption
<1>2. Positions!Cached(v, PositionsTtl) \in Positions!Entry(Positions!Response)
  BY <1>1 DEF Positions!Cached, Positions!Entry
<1>3. Positions!Cached(v, PositionsTtl).value = v
        /\ Positions!Cached(v, PositionsTtl).expires - 1 = positionsNow + PositionsTtl - 1
        /\ <<a, c>>[1] = a
  BY <1>1 DEF Positions!Cached
<1> QED
  BY <1>2, <1>3 DEF Positions!CacheSound

\* A part that stands in for an answer.
LEMMA StaleUsable ==
  ASSUME Positions!PositionsAssumption, Positions!Types, NEW a \in Address,
         NEW p \in Positions!Part \union {Positions!None},
         NEW t \in Int,
         p # Positions!None
           => p.address = a /\ ~p.stored /\ t < p.at + PositionsGoodTtl + LoopTime + PositionsTtl
  PROVE  Positions!ResponseOf(p, TRUE) \in Positions!Response
           /\ Positions!Usable(Positions!ResponseOf(p, TRUE), a, t)
  BY DEF Positions!ResponseOf, Positions!Response, Positions!Usable

\* What is known of the call under way.
LEMMA CallTypes ==
  ASSUME Positions!PositionsAssumption, Positions!PositionsInv, sharing # Positions!NoJoint
  PROVE  /\ sharing \in Positions!Fetching /\ Positions!CallSound(sharing)
         /\ sharing.address \in Address /\ sharing.since \in Nat /\ positionsNow \in Nat
         /\ sharing.since <= positionsNow /\ positionsNow <= sharing.since + LoopTime
         /\ sharing.chain \in 1 .. NumChains + 1 /\ numEnabled \in Positions!ChainNo
              /\ NumChains \in Nat
  BY DEF Positions!PositionsInv, Positions!Types, Positions!Fetching, Positions!CallSound,
     Positions!PositionsAssumption

LEMMA ChainTypes ==
  ASSUME Positions!PositionsAssumption, Positions!PositionsInv, sharing # Positions!NoJoint,
         sharing.chain <= numEnabled
  PROVE  /\ sharing.chain \in Positions!ChainNo /\ sharing.chain \in Positions!Enabled
         /\ sharing.chain + 1 \in 1 .. NumChains + 1 /\ sharing.chain + 1 <= numEnabled + 1
  BY CallTypes DEF Positions!ChainNo, Positions!Enabled

\* A response that is usable now is received.
LEMMA ReceivedKeeps ==
  ASSUME Positions!PositionsAssumption, Positions!PositionsInv, sharing # Positions!NoJoint,
         sharing.at # "persisting",
         sharing.chain <= numEnabled, NEW v \in Positions!Response \union {Positions!Error},
         v # Positions!Error
           => Positions!Usable(v, sharing.address, positionsNow), Positions!Received(v),
         UNCHANGED <<positionsNow, Positions!row>>
  PROVE  /\ sharing' \in Positions!Fetching \union {Positions!NoJoint}
         /\ Positions!CallSound(sharing)'
<1> DEFINE done == [sharing EXCEPT !.got[sharing.chain] = v, !.stale = Positions!None, !.at = "persisting",
                                   !.captured = positionsNow]
           more == [sharing EXCEPT !.got[sharing.chain] = v, !.stale = Positions!None, !.at = "fetching",
                                   !.chain = @ + 1]
           complete == v.kind = "response" /\ ~v.partial
<1>1. /\ sharing \in Positions!Fetching /\ Positions!CallSound(sharing)
           /\ sharing.address \in Address
      /\ sharing.since \in Nat /\ positionsNow \in Nat /\ sharing.since <= positionsNow
      /\ sharing.chain \in Positions!ChainNo /\ sharing.chain \in Positions!Enabled
      /\ sharing.chain + 1 \in 1 .. NumChains + 1 /\ sharing.chain + 1 <= numEnabled + 1
      /\ positionsNow \in 0 .. PositionsTime
  BY CallTypes, ChainTypes DEF Positions!PositionsInv, Positions!Types
<1>2. sharing' = IF complete THEN done ELSE more
  BY DEF Positions!Received
<1>3. /\ \A c \in Positions!ChainNo : done.got[c] = IF c = sharing.chain THEN v ELSE sharing.got[c]
      /\ \A c \in Positions!ChainNo : more.got[c] = IF c = sharing.chain THEN v ELSE sharing.got[c]
  BY <1>1 DEF Positions!Fetching
<1>4. /\ done \in Positions!Fetching /\ done.stale = Positions!None /\ done.at = "persisting"
           /\ done.captured = positionsNow
      /\ done.address = sharing.address /\ done.since = sharing.since /\ done.chain = sharing.chain
  BY <1>1 DEF Positions!Fetching
<1>5. /\ more \in Positions!Fetching /\ more.stale = Positions!None /\ more.at = "fetching"
      /\ more.address = sharing.address /\ more.since = sharing.since
           /\ more.chain = sharing.chain + 1
  BY <1>1 DEF Positions!Fetching
<1>6. v.kind = "response"
        => v \in Positions!Response /\ Positions!Usable(v, sharing.address, positionsNow)
  BY ResponseTypes DEF Positions!Error
<1>7. v.kind = "response" => Positions!Usable(v, sharing.address, sharing.since)
  BY <1>1, <1>6, UsableEarlier
<1>8. \A c \in Positions!ChainNo : sharing.got[c].kind = "response" =>
        c \in Positions!Enabled /\ Positions!Usable(sharing.got[c], sharing.address, sharing.since)
  BY <1>1 DEF Positions!CallSound
<1> HIDE DEF done, more
<1>9. CASE complete
  <2>1. sharing' = done /\ v.kind = "response" /\ ~v.partial
          /\ positionsNow < v.part.at + PositionsTtl
    BY <1>2, <1>6, <1>9 DEF Positions!Usable
  <2>2. \A c \in Positions!ChainNo : done.got[c].kind = "response" =>
          c \in Positions!Enabled /\ Positions!Usable(done.got[c], done.address, done.since)
    BY <1>1, <1>3, <1>4, <1>7, <1>8
  <2>3. done.got[done.chain] = v
    BY <1>1, <1>3, <1>4
  <2>4. Positions!CallSound(done)
    BY <1>1, <1>4, <2>1, <2>2, <2>3, CallTypes, ChainTypes DEF Positions!CallSound,
       Positions!ChainNo, Positions!Enabled
  <2> QED
    BY <1>4, <2>1, <2>4, Stay
<1>10. CASE ~complete
  <2>1. sharing' = more
    BY <1>2, <1>10
  <2>2. \A c \in Positions!ChainNo : more.got[c].kind = "response" =>
          c \in Positions!Enabled /\ Positions!Usable(more.got[c], more.address, more.since)
    BY <1>1, <1>3, <1>5, <1>7, <1>8
  <2>3. Positions!CallSound(more)
    BY <1>1, <1>5, <2>2, CallTypes DEF Positions!CallSound
  <2> QED
    BY <1>5, <2>1, <2>3, Stay
<1> QED
  BY <1>9, <1>10

LEMMA FetchNextKeeps ==
  ASSUME Positions!PositionsAssumption, Positions!PositionsInv, Positions!FetchNext
  PROVE  Positions!PositionsInv'
<1> DEFINE a == sharing.address
           c == sharing.chain
           stale == Positions!PeekGood(a, c)
           v == Positions!ResponseOf(stale, TRUE)
           calling == [sharing EXCEPT !.at = "calling", !.stale = stale]
<1>0. coolUntil \in Int /\ positionsNow \in Int
  BY DEF Positions!PositionsInv, Positions!Types, Positions!PositionsAssumption
<1>1. /\ sharing.at = "fetching" /\ sharing.chain <= numEnabled
      /\ UNCHANGED <<positionsNow, Positions!row, persisted, positions, positionsRequest>>
  BY DEF Positions!FetchNext
<1>2. sharing # Positions!NoJoint
  BY <1>1 DEF Positions!NoJoint
<1>3. /\ sharing \in Positions!Fetching /\ Positions!CallSound(sharing) /\ a \in Address
           /\ c \in Positions!ChainNo
      /\ positionsNow \in Nat /\ sharing.since <= positionsNow /\ sharing.since \in Nat
  BY <1>1, <1>2, CallTypes, ChainTypes
<1>4. UNCHANGED <<positionsNow, owner, movedAt, numEnabled, persisted, positions,
        positionsRequest>> /\ Positions!row' = Positions!row
  BY <1>1 DEF Positions!row
<1>5. Positions!RowsKept' /\ Positions!RequestsSound' /\ Positions!ResultKept(positions)'
  BY <1>4, Stay DEF Positions!PositionsInv, Positions!RowsKept, Positions!RowSound,
     Positions!RequestsSound
<1>6. Positions!Types /\ Positions!ProviderKept
  BY DEF Positions!PositionsInv
<1>7. ASSUME sharing' \in Positions!Fetching \union {Positions!NoJoint},
             Positions!CallSound(sharing)',
             positionsCache'
               \in [Address \X Positions!ChainNo -> Positions!Entry(Positions!Response)
               \union {Positions!None}],
             \A k \in Address \X Positions!ChainNo : Positions!CacheSound(k, positionsCache'[k]),
             UNCHANGED <<lastGood, coolUntil, zerionAnswers>>
      PROVE  Positions!PositionsInv'
  <2>1. Positions!Types'
    BY <1>4, <1>6, <1>7 DEF Positions!Types
  <2>2. Positions!ProviderKept'
    BY <1>6, <1>7 DEF Positions!ProviderKept, Positions!CacheSound, Positions!GoodSound,
       Positions!Usable
  <2> QED
    BY <1>5, <1>7, <2>1, <2>2 DEF Positions!PositionsInv
<1>8. ASSUME UNCHANGED Positions!provider
      PROVE  /\ positionsCache'
                  \in [Address \X Positions!ChainNo -> Positions!Entry(Positions!Response)
                  \union {Positions!None}]
             /\ \A k \in Address \X Positions!ChainNo : Positions!CacheSound(k, positionsCache'[k])
             /\ UNCHANGED <<lastGood, coolUntil, zerionAnswers>>
  BY <1>6, <1>8 DEF Positions!Types, Positions!ProviderKept, Positions!provider
<1>9. CASE Positions!Peek(a, c) # Positions!None
  <2>1. Positions!Received(Positions!Peek(a, c)) /\ UNCHANGED Positions!provider
    BY <1>0, <1>9 DEF Positions!FetchNext
  <2>2. Positions!Peek(a, c) \in Positions!Response
          /\ Positions!Usable(Positions!Peek(a, c), a, positionsNow)
    BY <1>3, <1>6, <1>9, PeekUsable
  <2>3. sharing' \in Positions!Fetching \union {Positions!NoJoint} /\ Positions!CallSound(sharing)'
    BY <1>1, <1>2, <1>4, <2>1, <2>2, ReceivedKeeps
  <2> QED
    BY <1>7, <1>8, <2>1, <2>3
<1>10. CASE Positions!Peek(a, c) = Positions!None /\ coolUntil > positionsNow
  <2>1. /\ Positions!Received(v) /\ UNCHANGED <<lastGood, coolUntil, zerionAnswers>>
        /\ positionsCache' = [positionsCache EXCEPT ![<<a, c>>] = Positions!Cached(v, PositionsTtl)]
    BY <1>0, <1>10 DEF Positions!FetchNext, Positions!ResponseOf
  <2>2. /\ stale \in Positions!Part \union {Positions!None}
        /\ stale # Positions!None
             => stale.address = a /\ ~stale.stored /\ positionsNow < stale.at + PositionsGoodTtl
    BY <1>3, <1>6, PeekGoodSound
  <2> HIDE DEF stale
  <2>3. positionsNow + PositionsTtl - 1 \in Int /\ positionsNow <= positionsNow + PositionsTtl - 1
    BY <1>3 DEF Positions!PositionsAssumption
  <2>4. stale # Positions!None => stale.at \in Int
    BY <2>2 DEF Positions!Part
  <2>5. stale # Positions!None
          => positionsNow + PositionsTtl - 1 < stale.at + PositionsGoodTtl + LoopTime + PositionsTtl
    BY <1>3, <2>2, <2>4 DEF Positions!PositionsAssumption
  <2>6. v \in Positions!Response /\ Positions!Usable(v, a, positionsNow + PositionsTtl - 1)
    BY <1>3, <1>6, <2>2, <2>3, <2>5, StaleUsable
  <2> HIDE DEF v
  <2>7. Positions!Usable(v, a, positionsNow)
    BY <1>0, <1>3, <2>3, <2>6, UsableEarlier
  <2>8. sharing' \in Positions!Fetching \union {Positions!NoJoint} /\ Positions!CallSound(sharing)'
    BY <1>1, <1>2, <1>4, <2>1, <2>6, <2>7, ReceivedKeeps
  <2>9. Positions!Cached(v, PositionsTtl) \in Positions!Entry(Positions!Response)
          /\ Positions!CacheSound(<<a, c>>, Positions!Cached(v, PositionsTtl))
    BY <1>3, <1>6, <2>6, CachedSound
  <2>10. /\ positionsCache'
              \in [Address \X Positions!ChainNo -> Positions!Entry(Positions!Response)
              \union {Positions!None}]
         /\ \A k \in Address \X Positions!ChainNo : Positions!CacheSound(k, positionsCache'[k])
    BY <1>3, <2>1, <2>9, ChainCacheKeeps
  <2> QED
    BY <1>7, <2>1, <2>8, <2>10
<1>11. CASE Positions!Peek(a, c) = Positions!None /\ coolUntil <= positionsNow
  <2>1. sharing' = calling /\ UNCHANGED Positions!provider
    BY <1>0, <1>11 DEF Positions!FetchNext, Positions!ResponseOf
  <2>2. /\ stale \in Positions!Part \union {Positions!None}
        /\ stale # Positions!None
             => stale.address = a /\ ~stale.stored /\ positionsNow < stale.at + PositionsGoodTtl
    BY <1>3, <1>6, PeekGoodSound
  <2> HIDE DEF stale
  <2>3. stale # Positions!None => stale.at \in Int
    BY <2>2 DEF Positions!Part
  <2>4. stale # Positions!None => sharing.since < stale.at + PositionsGoodTtl
    BY <1>3, <2>2, <2>3 DEF Positions!PositionsAssumption
  <2>5. calling \in Positions!Fetching /\ calling.at = "calling" /\ calling.stale = stale
        /\ calling.address = a /\ calling.since = sharing.since /\ calling.chain = c
        /\ calling.got = sharing.got
    BY <1>3, <2>2 DEF Positions!Fetching
  <2> HIDE DEF calling
  <2>6. Positions!CallSound(calling)
    BY <1>1, <1>2, <1>3, <2>2, <2>4, <2>5 DEF Positions!CallSound
  <2>7. sharing' \in Positions!Fetching \union {Positions!NoJoint} /\ Positions!CallSound(sharing)'
    BY <1>4, <2>1, <2>5, <2>6, Stay
  <2> QED
    BY <1>7, <1>8, <2>1, <2>7
<1> QED
  BY <1>9, <1>10, <1>11, <1>0

\* The end of a call: what it leaves alone, and that the loop goes on.
LEMMA PositionsSettleKeeps ==
  ASSUME Positions!PositionsAssumption, Positions!PositionsInv,
         NEW v \in Positions!Response \union {Positions!Error},
         v # Positions!Error
           => Positions!Usable(v, sharing.address, positionsNow), Positions!Settle(v)
  PROVE  /\ sharing # Positions!NoJoint /\ sharing.address \in Address
              /\ sharing.chain \in Positions!ChainNo
         /\ UNCHANGED <<positionsNow, Positions!row, owner, movedAt, numEnabled, persisted,
              positions, positionsRequest>>
         /\ sharing' \in Positions!Fetching \union {Positions!NoJoint}
              /\ Positions!CallSound(sharing)'
         /\ Positions!RowsKept' /\ Positions!RequestsSound' /\ Positions!ResultKept(positions)'
<1>1. /\ sharing.at = "calling" /\ Positions!Received(v)
           /\ UNCHANGED <<positionsNow, Positions!row, persisted, positions, positionsRequest>>
  BY DEF Positions!Settle
<1>2. sharing # Positions!NoJoint
  BY <1>1 DEF Positions!NoJoint
<1>3. Positions!CallSound(sharing) /\ sharing.address \in Address
  BY <1>2, CallTypes
<1>4. sharing.chain <= numEnabled
  BY <1>1, <1>2, <1>3 DEF Positions!CallSound
<1>5. sharing.chain \in Positions!ChainNo
  BY <1>2, <1>4, ChainTypes
<1>6. sharing' \in Positions!Fetching \union {Positions!NoJoint} /\ Positions!CallSound(sharing)'
  BY <1>1, <1>2, <1>4, ReceivedKeeps
<1>7. UNCHANGED <<positionsNow, owner, movedAt, numEnabled, persisted, positions,
        positionsRequest>> /\ Positions!row' = Positions!row
  BY <1>1 DEF Positions!row
<1>8. Positions!RowsKept' /\ Positions!RequestsSound' /\ Positions!ResultKept(positions)'
  BY <1>7, Stay DEF Positions!PositionsInv, Positions!RowsKept, Positions!RowSound,
     Positions!RequestsSound
<1> QED
  BY <1>2, <1>3, <1>5, <1>6, <1>7, <1>8

LEMMA PositionsProviderAnswersKeeps ==
  ASSUME Positions!PositionsAssumption, Positions!PositionsInv, NEW partial \in BOOLEAN,
         Positions!ProviderAnswers(partial)
  PROVE  Positions!PositionsInv'
<1> DEFINE a == sharing.address
           c == sharing.chain
           p == [kind |-> "part", address |-> a, at |-> positionsNow, stored |-> FALSE,
             captured |-> 0]
           v == [kind |-> "response", part |-> p, partial |-> partial]
           e == Positions!Cached(v, PositionsTtl)
           last == Positions!Cached(p, PositionsGoodTtl)
<1>1. /\ Positions!Settle(v) /\ zerionAnswers < PositionsAnswers
           /\ zerionAnswers' = zerionAnswers + 1
      /\ positionsCache' = [positionsCache EXCEPT ![<<a, c>>] = e]
      /\ lastGood' = IF partial THEN lastGood ELSE [lastGood EXCEPT ![<<a, c>>] = last]
      /\ coolUntil' = coolUntil
  BY DEF Positions!ProviderAnswers, Positions!ResponseOf, Positions!CacheForChain
<1>2. sharing # Positions!NoJoint
  BY <1>1 DEF Positions!Settle, Positions!NoJoint
<1>3. /\ a \in Address /\ positionsNow \in 0 .. PositionsTime /\ positionsNow \in Nat
           /\ 0 \in 0 .. PositionsTime
  BY <1>2, CallTypes DEF Positions!PositionsInv, Positions!Types, Positions!PositionsAssumption
<1>4. p \in Positions!Part /\ v \in Positions!Response /\ v # Positions!Error
  BY <1>3, ResponseTypes DEF Positions!Part, Positions!Response
<1>5. /\ p.address = a /\ p.stored = FALSE /\ p.at = positionsNow /\ p # Positions!None
           /\ v.part = p
  BY <1>4, ResponseTypes
<1> HIDE DEF p, v
<1>6. positionsNow + PositionsTtl - 1 \in Int /\ positionsNow <= positionsNow + PositionsTtl - 1
      /\ positionsNow + PositionsTtl - 1 < positionsNow + PositionsGoodTtl + LoopTime
           + PositionsTtl /\ positionsNow + PositionsTtl - 1 < positionsNow + PositionsTtl
  BY <1>3 DEF Positions!PositionsAssumption
<1>7. Positions!Usable(v, a, positionsNow + PositionsTtl - 1)
  BY <1>5, <1>6 DEF Positions!Usable
<1>8. Positions!Usable(v, a, positionsNow)
  BY <1>3, <1>4, <1>6, <1>7, UsableEarlier
<1>9. /\ UNCHANGED <<positionsNow, Positions!row, owner, movedAt, numEnabled, persisted, positions,
           positionsRequest>>
      /\ sharing' \in Positions!Fetching \union {Positions!NoJoint}
           /\ Positions!CallSound(sharing)' /\ c \in Positions!ChainNo
      /\ Positions!RowsKept' /\ Positions!RequestsSound' /\ Positions!ResultKept(positions)'
  BY <1>1, <1>4, <1>8, PositionsSettleKeeps
<1>10. e \in Positions!Entry(Positions!Response) /\ Positions!CacheSound(<<a, c>>, e)
  BY <1>3, <1>4, <1>7, <1>9, CachedSound DEF Positions!PositionsInv
<1>11. last \in Positions!Entry(Positions!Part) /\ Positions!GoodSound(<<a, c>>, last)
  <2>1. last.value = p /\ last.expires = positionsNow + PositionsGoodTtl /\ <<a, c>>[1] = a
    BY DEF Positions!Cached
  <2>2. positionsNow + PositionsGoodTtl \in Nat
    BY <1>3 DEF Positions!PositionsAssumption
  <2>3. last \in Positions!Entry(Positions!Part)
    BY <1>4, <2>2 DEF Positions!Cached, Positions!Entry
  <2> QED
    BY <1>5, <2>1, <2>2, <2>3 DEF Positions!GoodSound
<1> HIDE DEF e, last
<1>12. /\ positionsCache'
            \in [Address \X Positions!ChainNo -> Positions!Entry(Positions!Response)
            \union {Positions!None}]
       /\ \A k \in Address \X Positions!ChainNo : Positions!CacheSound(k, positionsCache'[k])
  BY <1>1, <1>3, <1>9, <1>10, ChainCacheKeeps
<1>13. /\ lastGood' \in [Address \X Positions!ChainNo -> Positions!Entry(Positions!Part)
            \union {Positions!None}]
       /\ \A k \in Address \X Positions!ChainNo : lastGood'[k] = lastGood[k]
            \/ (k = <<a, c>> /\ lastGood'[k] = last)
  BY <1>1, <1>11 DEF Positions!PositionsInv, Positions!Types
<1>14. \A k \in Address \X Positions!ChainNo : Positions!GoodSound(k, lastGood'[k])
  BY <1>11, <1>13 DEF Positions!PositionsInv, Positions!ProviderKept
<1>15. zerionAnswers' \in 0 .. PositionsAnswers
  BY <1>1 DEF Positions!PositionsInv, Positions!Types, Positions!PositionsAssumption
<1>16. Positions!ProviderKept'
  BY <1>12, <1>14 DEF Positions!ProviderKept, Positions!CacheSound, Positions!GoodSound,
     Positions!Usable
<1> QED
  BY <1>1, <1>9, <1>12, <1>13, <1>15, <1>16 DEF Positions!PositionsInv, Positions!Types

LEMMA PositionsProviderFailsKeeps ==
  ASSUME Positions!PositionsAssumption, Positions!PositionsInv, NEW limited \in BOOLEAN,
         Positions!ProviderFails(limited)
  PROVE  Positions!PositionsInv'
<1> DEFINE a == sharing.address
           c == sharing.chain
           stale == sharing.stale
           v == [kind |-> "response", part |-> stale, partial |-> TRUE]
           e == Positions!Cached(v, PositionsTtl)
<1>1. /\ Positions!Settle(v) /\ UNCHANGED <<lastGood, zerionAnswers>>
      /\ coolUntil' = IF limited THEN positionsNow + CoolDown ELSE coolUntil
      /\ positionsCache' = positionsCache
           \/ positionsCache' = [positionsCache EXCEPT ![<<a, c>>] = e]
  BY DEF Positions!ProviderFails, Positions!ResponseOf, Positions!CacheForChain
<1>2. sharing # Positions!NoJoint
  BY <1>1 DEF Positions!Settle, Positions!NoJoint
<1>3. /\ sharing \in Positions!Fetching /\ Positions!CallSound(sharing) /\ a \in Address
           /\ positionsNow \in Nat
      /\ sharing.since \in Nat /\ sharing.since <= positionsNow
           /\ positionsNow <= sharing.since + LoopTime
      /\ positionsNow \in 0 .. PositionsTime /\ Positions!Types
  BY <1>2, CallTypes DEF Positions!PositionsInv, Positions!Types
<1>4. /\ stale \in Positions!Part \union {Positions!None}
      /\ stale # Positions!None
           => stale.address = a /\ ~stale.stored /\ sharing.since < stale.at + PositionsGoodTtl
  BY <1>2, <1>3 DEF Positions!Fetching, Positions!CallSound
<1> HIDE DEF stale
<1>5. stale # Positions!None => stale.at \in Int
  BY <1>4 DEF Positions!Part
<1>6. stale # Positions!None
        => positionsNow + PositionsTtl - 1 < stale.at + PositionsGoodTtl + LoopTime + PositionsTtl
  BY <1>3, <1>4, <1>5 DEF Positions!PositionsAssumption
<1>7. positionsNow + PositionsTtl - 1 \in Int /\ positionsNow <= positionsNow + PositionsTtl - 1
  BY <1>3 DEF Positions!PositionsAssumption
<1>8. v \in Positions!Response /\ Positions!Usable(v, a, positionsNow + PositionsTtl - 1)
        /\ v # Positions!Error
  BY <1>3, <1>4, <1>6, <1>7, StaleUsable, ResponseTypes DEF Positions!ResponseOf
<1> HIDE DEF v
<1>9. Positions!Usable(v, a, positionsNow)
  BY <1>3, <1>7, <1>8, UsableEarlier
<1>10. /\ UNCHANGED <<positionsNow, Positions!row, owner, movedAt, numEnabled, persisted,
            positions, positionsRequest>>
       /\ sharing' \in Positions!Fetching \union {Positions!NoJoint}
            /\ Positions!CallSound(sharing)' /\ c \in Positions!ChainNo
       /\ Positions!RowsKept' /\ Positions!RequestsSound' /\ Positions!ResultKept(positions)'
  BY <1>1, <1>8, <1>9, PositionsSettleKeeps
<1>11. e \in Positions!Entry(Positions!Response) /\ Positions!CacheSound(<<a, c>>, e)
  BY <1>3, <1>8, <1>10, CachedSound
<1> HIDE DEF e
<1>12. /\ positionsCache'
            \in [Address \X Positions!ChainNo -> Positions!Entry(Positions!Response)
            \union {Positions!None}]
       /\ \A k \in Address \X Positions!ChainNo : Positions!CacheSound(k, positionsCache'[k])
  <2>1. CASE positionsCache' = positionsCache
    BY <2>1 DEF Positions!PositionsInv, Positions!Types, Positions!ProviderKept
  <2>2. CASE positionsCache' = [positionsCache EXCEPT ![<<a, c>>] = e]
    BY <1>3, <1>10, <1>11, <2>2, ChainCacheKeeps
  <2> QED
    BY <1>1, <2>1, <2>2
<1>13. coolUntil' \in 0 .. PositionsTime + CoolDown
  <2>1. coolUntil \in 0 .. PositionsTime + CoolDown
    BY <1>3 DEF Positions!Types
  <2>2. positionsNow + CoolDown \in 0 .. PositionsTime + CoolDown
    BY <1>3 DEF Positions!PositionsAssumption
  <2> QED
    BY <1>1, <2>1, <2>2
<1>14. Positions!ProviderKept'
  BY <1>1, <1>12 DEF Positions!PositionsInv, Positions!ProviderKept, Positions!CacheSound,
     Positions!GoodSound, Positions!Usable
<1> QED
  BY <1>1, <1>3, <1>10, <1>12, <1>13, <1>14 DEF Positions!PositionsInv, Positions!Types

LEMMA ProviderRefusesKeeps ==
  ASSUME Positions!PositionsAssumption, Positions!PositionsInv, Positions!ProviderRefuses
  PROVE  Positions!PositionsInv'
<1>1. Positions!Settle(Positions!Error)
        /\ UNCHANGED <<positionsCache, lastGood, coolUntil, zerionAnswers>>
  BY DEF Positions!ProviderRefuses, Positions!provider
<1>2. /\ UNCHANGED <<positionsNow, Positions!row, owner, movedAt, numEnabled, persisted, positions,
           positionsRequest>>
      /\ sharing' \in Positions!Fetching \union {Positions!NoJoint} /\ Positions!CallSound(sharing)'
      /\ Positions!RowsKept' /\ Positions!RequestsSound' /\ Positions!ResultKept(positions)'
  BY <1>1, PositionsSettleKeeps
<1>3. Positions!Types'
  BY <1>1, <1>2 DEF Positions!PositionsInv, Positions!Types
<1>4. Positions!ProviderKept'
  BY <1>1 DEF Positions!PositionsInv, Positions!ProviderKept, Positions!CacheSound,
     Positions!GoodSound, Positions!Usable
<1> QED
  BY <1>2, <1>3, <1>4 DEF Positions!PositionsInv

\* The upsert of a complete response: a row of now, or none.
LEMMA PositionsPersistKeeps ==
  ASSUME Positions!PositionsAssumption, Positions!PositionsInv, Positions!Persist
  PROVE  Positions!PositionsInv'
<1> DEFINE c == sharing.chain
           p == sharing.got[c].part
           new == [p EXCEPT !.stored = TRUE, !.captured = sharing.captured]
           next == [sharing EXCEPT !.at = "fetching", !.chain = @ + 1, !.captured = 0]
<1>1. /\ sharing.at = "persisting"
      /\ persisted' = persisted \/ persisted' = [persisted EXCEPT ![c] = new]
      /\ sharing' = next
      /\ UNCHANGED <<positionsNow, Positions!row, Positions!provider, positions, positionsRequest>>
  BY DEF Positions!Persist
<1>2. sharing # Positions!NoJoint
  BY <1>1 DEF Positions!NoJoint
<1>3. UNCHANGED <<owner, movedAt, numEnabled, positionsCache, lastGood, coolUntil, zerionAnswers>>
  BY <1>1 DEF Positions!row, Positions!provider
<1>4. sharing \in Positions!Fetching /\ Positions!CallSound(sharing)
  BY <1>2, CallTypes
<1>5. /\ c <= numEnabled /\ sharing.got[c].kind = "response" /\ ~sharing.got[c].partial
      /\ sharing.captured < p.at + PositionsTtl
  BY <1>1, <1>2, <1>4 DEF Positions!CallSound
<1>6. /\ c \in Positions!ChainNo /\ c \in Positions!Enabled /\ c + 1 \in 1 .. NumChains + 1
           /\ c + 1 <= numEnabled + 1
  BY <1>2, <1>5, ChainTypes
<1>7. sharing.got[c] \in Positions!Response \union {Positions!Error, Positions!None}
  BY <1>4, <1>6 DEF Positions!Fetching
<1>8. sharing.got[c] \in Positions!Response
        /\ Positions!Usable(sharing.got[c], sharing.address, sharing.since)
  BY <1>2, <1>4, <1>5, <1>6, <1>7, ResponseTypes DEF Positions!CallSound
<1>9. p \in Positions!Part
  BY <1>5, <1>8 DEF Positions!Usable, Positions!Response
<1>10. sharing.captured \in 0 .. PositionsTime /\ 0 \in 0 .. PositionsTime
  BY <1>4 DEF Positions!Fetching, Positions!PositionsAssumption
<1> HIDE DEF p
<1>11. new \in Positions!Part /\ new.stored = TRUE /\ new.captured = sharing.captured
         /\ new.at = p.at
  BY <1>9, <1>10 DEF Positions!Part
<1>12. new \in Positions!Part /\ Positions!RowSound(new)
  BY <1>5, <1>11 DEF Positions!RowSound
<1> HIDE DEF new
<1>13. persisted' \in [Positions!ChainNo -> Positions!Part \union {Positions!None}]
  BY <1>1, <1>12 DEF Positions!PositionsInv, Positions!Types
<1>14. \A d \in Positions!ChainNo : persisted'[d] = persisted[d] \/ persisted'[d] = new
  BY <1>1 DEF Positions!PositionsInv, Positions!Types
<1>15. Positions!RowsKept'
  BY <1>12, <1>14 DEF Positions!PositionsInv, Positions!RowsKept, Positions!RowSound
<1>16. /\ next \in Positions!Fetching /\ next.at = "fetching" /\ next.chain = c + 1
       /\ next.address = sharing.address /\ next.since = sharing.since /\ next.stale = sharing.stale
       /\ next.got = sharing.got
  BY <1>4, <1>6, <1>10 DEF Positions!Fetching
<1> HIDE DEF next
<1>17. Positions!CallSound(next)
  BY <1>2, <1>4, <1>6, <1>16 DEF Positions!CallSound
<1>18. Positions!CallSound(sharing)'
  BY <1>1, <1>17, Stay
<1>19. Positions!Types'
  BY <1>1, <1>3, <1>13, <1>16 DEF Positions!PositionsInv, Positions!Types
<1>20. Positions!ProviderKept'
  BY <1>3 DEF Positions!PositionsInv, Positions!ProviderKept, Positions!CacheSound,
     Positions!GoodSound, Positions!Usable
<1>21. Positions!RequestsSound' /\ Positions!ResultKept(positions)'
  BY <1>1, Stay DEF Positions!PositionsInv, Positions!RequestsSound
<1> QED
  BY <1>15, <1>18, <1>19, <1>20, <1>21 DEF Positions!PositionsInv

\* A response that a result may be made of now: of a chain that is enabled, and not too old.
Fitting(v, c, a, listOnly, until) ==
  /\ c \in Positions!Enabled
  /\ ~v.partial => v.part # Positions!None /\ ~v.part.stored
  /\ v.part # Positions!None =>
       /\ v.part.address = a
       /\ IF v.part.stored
          THEN /\ listOnly /\ until <= v.part.captured + PositionsMaxAge
            /\ v.part.captured < v.part.at + PositionsTtl
          ELSE positionsNow < v.part.at + PositionsGoodTtl + 2 * LoopTime + PositionsTtl
            + DatabaseTime

\* If they are all complete, none is older than a cache lifetime and a loop.
Timely(responses) ==
  (\A c \in Positions!Enabled : responses[c].kind = "response" /\ ~responses[c].partial) =>
    \A c \in Positions!Enabled : positionsNow < responses[c].part.at + PositionsTtl + LoopTime

\* The responses there are give a result that can be kept.
LEMMA ResultOfKept ==
  ASSUME Positions!PositionsAssumption, Positions!Types, NEW a \in Address,
         NEW responses \in Responses,
         NEW listOnly \in BOOLEAN, NEW until \in Nat, positionsNow < until,
         a # owner => movedAt # -1 /\ positionsNow <= movedAt + DatabaseTime + LoopTime,
         \A c \in Positions!ChainNo : responses[c].kind = "response" =>
                                      Fitting(responses[c], c, a, listOnly, until),
         Timely(responses)
  PROVE  LET v == Positions!ResultOf(a, responses, listOnly, until) IN
         v \in Positions!Result /\ Positions!ResultKept(v) /\ v.listOnly = listOnly
<1> DEFINE partial == \E c \in Positions!Enabled : responses[c].kind # "response"
             \/ responses[c].partial
           parts == [c
             \in Positions!ChainNo |-> IF responses[c].kind = "response" THEN responses[c].part ELSE Positions!None]
           ttl == IF partial THEN PositionsDegradedTtl ELSE PositionsTtl
           expires == Positions!Min2(positionsNow + ttl, until)
           v == [kind |-> "result", address |-> a, parts |-> parts, partial |-> partial,
                 listOnly |-> listOnly, expires |-> expires]
<1>1. Positions!ResultOf(a, responses, listOnly, until) = v
  BY Zenon DEF Positions!ResultOf
<1>2. partial \in BOOLEAN
  OBVIOUS
<1>3. Positions!Enabled \subseteq Positions!ChainNo
  BY DEF Positions!Types, Positions!Enabled, Positions!ChainNo, Positions!PositionsAssumption
<1>4. \A c \in Positions!ChainNo : responses[c].kind = "response"
        => responses[c] \in Positions!Response
  BY ResponseTypes DEF Responses
<1>5. parts \in [Positions!ChainNo -> Positions!Part \union {Positions!None}]
  BY <1>4 DEF Positions!Response
<1>6. \A c \in Positions!ChainNo : parts[c] # Positions!None
        => responses[c].kind = "response" /\ responses[c].part = parts[c]
  OBVIOUS
<1>7. ~partial => \A c \in Positions!Enabled : /\ responses[c].kind = "response" /\ ~responses[c].partial
                                               /\ parts[c] = responses[c].part
  BY <1>3
<1> HIDE DEF partial, parts
<1>8. /\ ttl \in Nat /\ 0 < ttl /\ ttl <= PositionsTtl /\ (partial => ttl = PositionsDegradedTtl)
           /\ positionsNow \in Nat
      /\ movedAt \in Int
  BY DEF Positions!PositionsAssumption, Positions!Types
<1> HIDE DEF ttl
<1>9. expires \in Nat /\ positionsNow < expires /\ expires <= positionsNow + ttl /\ expires <= until
  BY <1>8 DEF Positions!Min2
<1> HIDE DEF expires
<1>10. v \in Positions!Result
  BY <1>2, <1>5, <1>9, Zenon DEF Positions!Result
<1>11. /\ v.address = a /\ v.parts = parts /\ v.listOnly = listOnly /\ v.expires = expires
  OBVIOUS
<1>12. v.partial = partial
  BY Zenon
<1> HIDE DEF v
<1>13. positionsNow < v.expires /\ v.expires <= positionsNow + PositionsTtl
  BY <1>8, <1>9, <1>11 DEF Positions!PositionsAssumption
<1>14. ASSUME a # owner
       PROVE  movedAt # -1 /\ v.expires <= movedAt + DatabaseTime + LoopTime + PositionsTtl
  BY <1>8, <1>9, <1>11, <1>13, <1>14 DEF Positions!PositionsAssumption
<1>15. ASSUME NEW c \in Positions!ChainNo, responses[c].kind = "response"
       PROVE  c \in Positions!Enabled
  BY <1>15 DEF Fitting
<1>16. ASSUME ~partial, NEW c \in Positions!Enabled
       PROVE  /\ parts[c] # Positions!None /\ parts[c].at \in Int
                   /\ positionsNow < parts[c].at + PositionsTtl + LoopTime
              /\ ~parts[c].stored
  <2>1. c \in Positions!ChainNo /\ responses[c].kind = "response" /\ ~responses[c].partial
        /\ parts[c] = responses[c].part
    BY <1>3, <1>7, <1>16
  <2>2. Fitting(responses[c], c, a, listOnly, until)
    BY <2>1
  <2>3. parts[c] # Positions!None /\ ~parts[c].stored
    BY <2>1, <2>2 DEF Fitting
  <2>4. positionsNow < parts[c].at + PositionsTtl + LoopTime
    BY <1>7, <1>16, <2>1 DEF Timely
  <2>5. parts[c] \in Positions!Part
    BY <1>5, <2>1, <2>3
  <2> QED
    BY <2>3, <2>5, <2>4 DEF Positions!Part
<1>17. ASSUME ~partial
       PROVE  /\ \A c \in Positions!ChainNo : parts[c] # Positions!None <=> c \in Positions!Enabled
              /\ \A c \in Positions!Enabled : v.expires <= parts[c].at + 2 * PositionsTtl + LoopTime
  <2>1. \A c \in Positions!ChainNo : parts[c] # Positions!None => c \in Positions!Enabled
    BY <1>6, <1>15
  <2>2. ASSUME NEW c \in Positions!Enabled
        PROVE  v.expires <= parts[c].at + 2 * PositionsTtl + LoopTime
    <3>1. parts[c].at \in Int /\ positionsNow < parts[c].at + PositionsTtl + LoopTime
      BY <1>16, <1>17
    <3> QED
      BY <1>8, <1>9, <1>11, <1>13, <3>1 DEF Positions!PositionsAssumption
  <2> QED
    BY <1>16, <1>17, <2>1, <2>2
<1>18. ASSUME NEW c \in Positions!ChainNo, parts[c] # Positions!None
       PROVE  Positions!PartKept(v, parts[c])
  <2> DEFINE p == parts[c]
  <2>1. responses[c].kind = "response" /\ responses[c].part = p /\ c \in Positions!Enabled
    BY <1>6, <1>15, <1>18
  <2>2. Fitting(responses[c], c, a, listOnly, until) /\ p \in Positions!Part
    BY <1>5, <1>18, <2>1
  <2>3. p.at \in Int /\ p.captured \in Int /\ p.stored \in BOOLEAN
    BY <2>2 DEF Positions!Part
  <2>4. p.address = a
    BY <1>18, <2>1, <2>2 DEF Fitting
  <2>5. ASSUME p.stored
        PROVE  /\ listOnly /\ partial /\ expires <= p.captured + PositionsMaxAge
               /\ p.captured < p.at + PositionsTtl
    <3>1. listOnly /\ until <= p.captured + PositionsMaxAge /\ p.captured < p.at + PositionsTtl
      BY <1>18, <2>1, <2>2, <2>5 DEF Fitting
    <3>2. partial
      BY <1>16, <2>1, <2>5
    <3> QED
      BY <1>9, <2>3, <3>1, <3>2 DEF Positions!PositionsAssumption
  <2>6. ASSUME ~p.stored
        PROVE  expires <= p.at + PositionsGoodTtl + 2 * LoopTime + PositionsTtl + DatabaseTime
                 + PositionsDegradedTtl
    <3>1. positionsNow < p.at + PositionsGoodTtl + 2 * LoopTime + PositionsTtl + DatabaseTime
      BY <1>18, <2>1, <2>2, <2>6 DEF Fitting
    <3>2. CASE partial
      BY <1>8, <1>9, <2>3, <3>1, <3>2 DEF Positions!PositionsAssumption
    <3>3. CASE ~partial
      <4>1. positionsNow < p.at + PositionsTtl + LoopTime
        BY <1>16, <2>1, <3>3
      <4> QED
        BY <1>8, <1>9, <2>3, <4>1 DEF Positions!PositionsAssumption
    <3> QED
      BY <3>2, <3>3
  <2> QED
    BY <1>11, <1>12, <2>4, <2>5, <2>6 DEF Positions!PartKept
<1>19. Positions!ResultKept(v)
  BY <1>11, <1>12, <1>13, <1>14, <1>17, <1>18 DEF Positions!ResultKept
<1> QED
  BY <1>1, <1>10, <1>11, <1>19

\* The result changes, and can be kept.
LEMMA CacheKeeps ==
  ASSUME Positions!PositionsInv,
         UNCHANGED <<positionsNow, Positions!row, persisted, positionsCache, lastGood, coolUntil,
           zerionAnswers>>,
         sharing' \in Positions!Fetching \union {Positions!NoJoint}, Positions!CallSound(sharing)',
         positionsRequest'
           \in [Request -> Positions!Asking \union Positions!Loading \union {Positions!Idle}],
           Positions!RequestsSound',
         positions' \in Positions!Result \union {Positions!None}, Positions!ResultKept(positions')
  PROVE  Positions!PositionsInv'
<1>1. UNCHANGED <<positionsNow, owner, movedAt, numEnabled, persisted, positionsCache, lastGood,
        coolUntil, zerionAnswers>>
  BY DEF Positions!row
<1>2. Positions!Types'
  BY <1>1 DEF Positions!PositionsInv, Positions!Types
<1>3. Positions!ProviderKept' /\ Positions!RowsKept'
  BY <1>1 DEF Positions!PositionsInv, Positions!ProviderKept, Positions!CacheSound,
     Positions!GoodSound, Positions!Usable, Positions!RowsKept, Positions!RowSound
<1>4. Positions!ResultKept(positions)'
  BY Stay
<1> QED
  BY <1>2, <1>3, <1>4 DEF Positions!PositionsInv

LEMMA FinishDetailKeeps ==
  ASSUME Positions!PositionsAssumption, Positions!PositionsInv, Positions!FinishDetail
  PROVE  Positions!PositionsInv'
<1> DEFINE a == sharing.address
           v == Positions!ResultOf(a, sharing.got, FALSE, Positions!Forever)
<1>1. /\ sharing.at = "fetching" /\ sharing' = Positions!NoJoint
      /\ positions' = positions \/ positions' = v
      /\ UNCHANGED <<positionsNow, Positions!row, persisted, Positions!provider, positionsRequest>>
  BY DEF Positions!FinishDetail
<1>2. sharing # Positions!NoJoint
  BY <1>1 DEF Positions!NoJoint
<1>3. /\ sharing \in Positions!Fetching /\ Positions!CallSound(sharing) /\ a \in Address
           /\ positionsNow \in Nat /\ Positions!Types
      /\ sharing.since \in Nat /\ positionsNow <= sharing.since + LoopTime
  BY <1>2, CallTypes DEF Positions!PositionsInv
<1>4. sharing.got \in Responses
  BY <1>3 DEF Positions!Fetching, Responses
<1>5. Positions!Forever \in Nat /\ positionsNow < Positions!Forever
  BY <1>3 DEF Positions!Forever, Positions!PositionsAssumption, Positions!Types
<1>6. a # owner => movedAt # -1 /\ positionsNow <= movedAt + DatabaseTime + LoopTime
  <2>1. movedAt \in Int
    BY <1>3 DEF Positions!Types, Positions!PositionsAssumption
  <2>2. a # owner => movedAt # -1 /\ sharing.since <= movedAt + DatabaseTime
    BY <1>2, <1>3 DEF Positions!CallSound
  <2> QED
    BY <1>3, <2>1, <2>2 DEF Positions!PositionsAssumption
<1>7. ASSUME NEW c \in Positions!ChainNo, sharing.got[c].kind = "response"
      PROVE  Fitting(sharing.got[c], c, a, FALSE, Positions!Forever)
  <2> DEFINE g == sharing.got[c]
  <2>1. g \in Positions!Response /\ c \in Positions!Enabled /\ Positions!Usable(g, a, sharing.since)
    BY <1>2, <1>3, <1>4, <1>7, ResponseTypes DEF Positions!CallSound, Responses
  <2>2. g.part # Positions!None => g.part \in Positions!Part
    BY <2>1 DEF Positions!Response
  <2>3. g.part # Positions!None => g.part.at \in Int
    BY <2>2 DEF Positions!Part
  <2>4. /\ g.part # Positions!None => /\ g.part.address = a /\ ~g.part.stored
                                      /\ sharing.since < g.part.at + PositionsGoodTtl + LoopTime
                                           + PositionsTtl
        /\ ~g.partial => g.part # Positions!None /\ sharing.since < g.part.at + PositionsTtl
    BY <2>1 DEF Positions!Usable
  <2> HIDE DEF g
  <2>5. g.part # Positions!None
          => positionsNow < g.part.at + PositionsGoodTtl + 2 * LoopTime + PositionsTtl
          + DatabaseTime
    BY <1>3, <2>3, <2>4 DEF Positions!PositionsAssumption
  <2>6. Fitting(g, c, a, FALSE, Positions!Forever)
    BY <2>1, <2>4, <2>5 DEF Fitting
  <2> QED
    BY <2>6 DEF g
<1>8. Timely(sharing.got)
  <2> SUFFICES ASSUME NEW c \in Positions!Enabled, sharing.got[c].kind = "response",
                        ~sharing.got[c].partial
               PROVE  positionsNow < sharing.got[c].part.at + PositionsTtl + LoopTime
    BY DEF Timely
  <2>1. c \in Positions!ChainNo
    BY <1>3 DEF Positions!Types, Positions!Enabled, Positions!ChainNo,
       Positions!PositionsAssumption
  <2>2. sharing.got[c] \in Positions!Response /\ Positions!Usable(sharing.got[c], a, sharing.since)
    BY <1>2, <1>3, <1>4, <2>1, ResponseTypes DEF Positions!CallSound, Responses
  <2>3. sharing.got[c].part # Positions!None
          /\ sharing.since < sharing.got[c].part.at + PositionsTtl
    BY <2>2 DEF Positions!Usable
  <2>4. sharing.got[c].part \in Positions!Part
    BY <2>2, <2>3 DEF Positions!Response
  <2>5. sharing.got[c].part.at \in Int
    BY <2>4 DEF Positions!Part
  <2> QED
    BY <1>3, <2>3, <2>5 DEF Positions!PositionsAssumption
<1>9. v \in Positions!Result /\ Positions!ResultKept(v)
  BY <1>3, <1>4, <1>5, <1>6, <1>7, <1>8, ResultOfKept
<1>10. positions' \in Positions!Result \union {Positions!None} /\ Positions!ResultKept(positions')
  BY <1>1, <1>9 DEF Positions!PositionsInv, Positions!Types
<1>11. Positions!CallSound(sharing)' /\ Positions!RequestsSound'
  BY <1>1, Stay DEF Positions!PositionsInv, Positions!RequestsSound, Positions!CallSound
<1>12. positionsRequest'
         \in [Request -> Positions!Asking \union Positions!Loading \union {Positions!Idle}]
  BY <1>1, <1>3 DEF Positions!Types
<1> QED
  BY <1>1, <1>10, <1>11, <1>12, CacheKeeps DEF Positions!provider

\* What a list request may make its result of: a row of the database besides.
Listable(v, c, a) ==
  /\ c \in Positions!Enabled
  /\ ~v.partial => v.part # Positions!None /\ ~v.part.stored
  /\ v.part # Positions!None =>
       /\ v.part.address = a
       /\ IF v.part.stored
          THEN positionsNow < v.part.captured + PositionsMaxAge
            /\ v.part.captured < v.part.at + PositionsTtl
          ELSE positionsNow < v.part.at + PositionsGoodTtl + 2 * LoopTime + PositionsTtl
            + DatabaseTime

LEMMA ListResultKept ==
  ASSUME Positions!PositionsAssumption, Positions!Types, Positions!ResultKept(positions),
         NEW a \in Address,
         NEW responses \in Responses,
         a # owner => movedAt # -1 /\ positionsNow <= movedAt + DatabaseTime + LoopTime,
         \A c \in Positions!ChainNo : responses[c].kind = "response" => Listable(responses[c], c, a),
         Timely(responses)
  PROVE  /\ Positions!ListResult(a, responses) \in Positions!Result \union {Positions!None}
         /\ Positions!ResultKept(Positions!ListResult(a, responses))
<1> DEFINE rows == {d \in Positions!Enabled : /\ responses[d].kind = "response"
                                              /\ responses[d].part # Positions!None
                                              /\ responses[d].part.stored}
           until == {responses[c].part.captured + PositionsMaxAge : c \in rows}
             \union {Positions!Forever}
           least == CHOOSE u \in until : \A v \in until : u <= v
<1>1. Positions!Enabled \subseteq Positions!ChainNo /\ positionsNow \in Nat
  BY DEF Positions!Types, Positions!Enabled, Positions!ChainNo, Positions!PositionsAssumption
<1>2. Positions!Forever \in Nat /\ positionsNow < Positions!Forever
  BY <1>1 DEF Positions!Forever, Positions!PositionsAssumption, Positions!Types
<1>3. ASSUME NEW c \in rows
      PROVE  /\ responses[c].part.captured + PositionsMaxAge \in Nat
             /\ positionsNow < responses[c].part.captured + PositionsMaxAge
  <2>1. /\ c \in Positions!ChainNo /\ responses[c].kind = "response"
             /\ responses[c].part # Positions!None
        /\ responses[c].part.stored
    BY <1>1, <1>3
  <2>2. Listable(responses[c], c, a)
    BY <2>1
  <2>3. responses[c] \in Positions!Response
    BY <2>1, ResponseTypes DEF Responses
  <2>4. responses[c].part \in Positions!Part
    BY <2>1, <2>3 DEF Positions!Response
  <2>5. responses[c].part.captured \in Nat
    BY <2>4 DEF Positions!Part, Positions!PositionsAssumption
  <2>6. positionsNow < responses[c].part.captured + PositionsMaxAge
    BY <2>1, <2>2 DEF Listable
  <2> QED
    BY <2>5, <2>6 DEF Positions!PositionsAssumption
<1> HIDE DEF rows
<1>4. until \in SUBSET Nat /\ until # {} /\ \A u \in until : positionsNow < u
  BY <1>2, <1>3
<1>5. \E u \in until : \A v \in until : u <= v
  <2> HIDE DEF until
  <2> QED
    BY <1>4, LeastExists
<1>6. least \in until /\ \A v \in until : least <= v
  <2> HIDE DEF until
  <2> QED
    BY <1>5
<1> HIDE DEF least
<1>7. least \in Nat /\ positionsNow < least
  BY <1>4, <1>6
<1>8. ASSUME NEW c \in Positions!ChainNo, responses[c].kind = "response"
      PROVE  Fitting(responses[c], c, a, TRUE, least)
  <2>1. Listable(responses[c], c, a)
    BY <1>8
  <2>2. ASSUME responses[c].part # Positions!None, responses[c].part.stored
        PROVE  least <= responses[c].part.captured + PositionsMaxAge
    <3>1. c \in rows
      BY <1>8, <2>1, <2>2 DEF Listable, rows
    <3> QED
      BY <1>6, <3>1
  <2> QED
    BY <2>1, <2>2 DEF Listable, Fitting
<1>9. /\ Positions!ResultOf(a, responses, TRUE, least) \in Positions!Result
      /\ Positions!ResultKept(Positions!ResultOf(a, responses, TRUE, least))
  BY <1>7, <1>8, ResultOfKept
<1>10. Positions!ListResult(a, responses) = positions
         \/ Positions!ListResult(a, responses) = Positions!ResultOf(a, responses, TRUE, least)
  BY Zenon DEF Positions!ListResult, least, until, rows
<1> QED
  BY <1>9, <1>10 DEF Positions!Types

\* A request that is at work.
LEMMA PositionsRequestTypes ==
  ASSUME Positions!PositionsAssumption, Positions!PositionsInv, NEW r \in Request,
         positionsRequest[r].at # "idle"
  PROVE  /\ positionsRequest[r] \in Positions!Asking \union Positions!Loading
              /\ Positions!RequestSound(positionsRequest[r])
         /\ positionsRequest[r].address \in Address /\ positionsRequest[r].since \in Nat
              /\ positionsRequest[r].since \in 0 .. PositionsTime
         /\ positionsRequest[r].since <= positionsNow
              /\ positionsNow <= positionsRequest[r].since + DatabaseTime /\ positionsNow \in Nat
         /\ positionsRequest[r].address # owner => /\ movedAt # -1 /\ positionsRequest[r].since <= movedAt
                                                   /\ positionsNow <= movedAt + DatabaseTime
                                                        + LoopTime
<1>1. positionsRequest[r] \in Positions!Asking \union Positions!Loading
        /\ Positions!RequestSound(positionsRequest[r])
  BY DEF Positions!PositionsInv, Positions!Types, Positions!RequestsSound, Positions!Idle
<1>2. /\ positionsRequest[r].address \in Address /\ positionsRequest[r].since \in 0 .. PositionsTime
      /\ positionsNow \in 0 .. PositionsTime /\ movedAt \in Int /\ PositionsTime \in Nat
  BY <1>1 DEF Positions!PositionsInv, Positions!Types, Positions!Asking, Positions!Loading,
     Positions!PositionsAssumption
<1>3. /\ positionsRequest[r].since <= positionsNow
           /\ positionsNow <= positionsRequest[r].since + DatabaseTime
      /\ positionsRequest[r].address # owner => movedAt # -1 /\ positionsRequest[r].since <= movedAt
  BY <1>1 DEF Positions!RequestSound
<1> QED
  BY <1>1, <1>2, <1>3 DEF Positions!PositionsAssumption

\* A response that was usable when the request began can be listed.
LEMMA UsableListable ==
  ASSUME Positions!PositionsAssumption, Positions!PositionsInv, NEW v \in Positions!Response,
         NEW c \in Positions!ChainNo, c \in Positions!Enabled,
         NEW a \in Address, NEW t \in Nat, Positions!Usable(v, a, t),
           positionsNow <= t + DatabaseTime
  PROVE  Listable(v, c, a)
<1>1. positionsNow \in Nat
  BY DEF Positions!PositionsInv, Positions!Types, Positions!PositionsAssumption
<1>2. v.part # Positions!None => v.part \in Positions!Part
  BY DEF Positions!Response
<1>3. v.part # Positions!None => v.part.at \in Int
  BY <1>2 DEF Positions!Part
<1>4. /\ v.part # Positions!None => /\ v.part.address = a /\ ~v.part.stored
                                    /\ t < v.part.at + PositionsGoodTtl + LoopTime + PositionsTtl
      /\ ~v.partial => v.part # Positions!None /\ t < v.part.at + PositionsTtl
  BY DEF Positions!Usable
<1>5. v.part # Positions!None
        => positionsNow < v.part.at + PositionsGoodTtl + 2 * LoopTime + PositionsTtl + DatabaseTime
  BY <1>1, <1>3, <1>4 DEF Positions!PositionsAssumption
<1> QED
  BY <1>4, <1>5 DEF Listable

\* What a list request leaves alone.
LEMMA ListStays ==
  ASSUME Positions!PositionsInv, UNCHANGED <<positionsNow, Positions!row, sharing>>
  PROVE  sharing' \in Positions!Fetching \union {Positions!NoJoint} /\ Positions!CallSound(sharing)'
<1>1. sharing' \in Positions!Fetching \union {Positions!NoJoint} /\ Positions!CallSound(sharing')
  BY DEF Positions!PositionsInv, Positions!Types
<1> QED
  BY <1>1, Stay

LEMMA ListFromMemoryKeeps ==
  ASSUME Positions!PositionsAssumption, Positions!PositionsInv, NEW r \in Request,
         Positions!ListFromMemory(r)
  PROVE  Positions!PositionsInv'
<1> DEFINE a == positionsRequest[r].address
           peeked == [c \in Positions!ChainNo |-> IF c
             \in Positions!Enabled THEN Positions!Peek(a, c) ELSE Positions!None]
           q == [at |-> "loading", kind |-> "list", address |-> a, since |-> positionsRequest[r].since,
                 peeked |-> peeked]
<1>1. /\ positionsRequest[r].at = "found"
      /\ \/ Positions!Goto(r, Positions!Idle) /\ positions' = positions
         \/ Positions!Goto(r, Positions!Idle) /\ positions' = Positions!ListResult(a, peeked)
         \/ /\ \E c \in Positions!Enabled : peeked[c] = Positions!None
            /\ Positions!Goto(r, q) /\ positions' = positions
      /\ UNCHANGED <<positionsNow, Positions!row, persisted, Positions!provider, sharing>>
  BY DEF Positions!ListFromMemory
<1>2. /\ a \in Address /\ positionsRequest[r].since \in Nat
           /\ positionsRequest[r].since \in 0 .. PositionsTime
      /\ positionsRequest[r].since <= positionsNow
           /\ positionsNow <= positionsRequest[r].since + DatabaseTime /\ positionsNow \in Nat
      /\ a # owner => /\ movedAt # -1 /\ positionsRequest[r].since <= movedAt
                      /\ positionsNow <= movedAt + DatabaseTime + LoopTime
  BY <1>1, PositionsRequestTypes
<1>3. Positions!Types /\ Positions!ProviderKept /\ Positions!ResultKept(positions)
  BY DEF Positions!PositionsInv
<1>4. ASSUME NEW c \in Positions!ChainNo
      PROVE  /\ peeked[c] \in Positions!Response \union {Positions!None}
             /\ peeked[c] # Positions!None
                  => c \in Positions!Enabled /\ Positions!Usable(peeked[c], a, positionsNow)
  <2>1. Positions!Peek(a, c) \in Positions!Response \union {Positions!None}
          /\ (Positions!Peek(a, c) # Positions!None
          => Positions!Usable(Positions!Peek(a, c), a, positionsNow))
    BY <1>2, <1>3, PeekUsable
  <2> QED
    BY <2>1
<1>5. peeked \in [Positions!ChainNo -> Positions!Response \union {Positions!None}]
  <2>1. \A c \in Positions!ChainNo : peeked[c] \in Positions!Response \union {Positions!None}
    BY <1>4
  <2>2. peeked = [c \in Positions!ChainNo |-> peeked[c]]
    OBVIOUS
  <2> HIDE DEF peeked
  <2> QED
    BY <2>1, <2>2
<1> HIDE DEF peeked
<1>6. sharing' \in Positions!Fetching \union {Positions!NoJoint} /\ Positions!CallSound(sharing)'
  BY <1>1, ListStays
<1>7. ASSUME Positions!Goto(r, Positions!Idle),
             positions' \in Positions!Result \union {Positions!None},
             Positions!ResultKept(positions')
      PROVE  Positions!PositionsInv'
  <2>1. positionsRequest'
          \in [Request -> Positions!Asking \union Positions!Loading \union {Positions!Idle}]
          /\ Positions!RequestsSound'
    BY <1>1, <1>7, IdleSound, RequestKeeps
  <2> QED
    BY <1>1, <1>6, <1>7, <2>1, CacheKeeps DEF Positions!provider
<1>8. CASE Positions!Goto(r, Positions!Idle) /\ positions' = positions
  BY <1>3, <1>7, <1>8 DEF Positions!Types
<1>9. CASE Positions!Goto(r, Positions!Idle) /\ positions' = Positions!ListResult(a, peeked)
  <2>1. peeked \in Responses
    BY <1>5 DEF Responses
  <2>2. ASSUME NEW c \in Positions!ChainNo, peeked[c].kind = "response"
        PROVE  Listable(peeked[c], c, a)
    <3>1. peeked[c] \in Positions!Response /\ c \in Positions!Enabled
            /\ Positions!Usable(peeked[c], a, positionsNow)
      BY <1>4, <2>2, ResponseTypes DEF Positions!None
    <3>2. positionsNow <= positionsNow + DatabaseTime
      BY <1>2 DEF Positions!PositionsAssumption
    <3> QED
      BY <1>2, <3>1, <3>2, UsableListable
  <2>3. Timely(peeked)
    <3> SUFFICES ASSUME NEW c \in Positions!Enabled, peeked[c].kind = "response", ~peeked[c].partial
                 PROVE  positionsNow < peeked[c].part.at + PositionsTtl + LoopTime
      BY DEF Timely
    <3>1. c \in Positions!ChainNo
      BY <1>3 DEF Positions!Types, Positions!Enabled, Positions!ChainNo,
         Positions!PositionsAssumption
    <3>2. peeked[c] \in Positions!Response /\ Positions!Usable(peeked[c], a, positionsNow)
      BY <1>4, <3>1, ResponseTypes DEF Positions!None
    <3>3. peeked[c].part # Positions!None /\ positionsNow < peeked[c].part.at + PositionsTtl
      BY <3>2 DEF Positions!Usable
    <3>4. peeked[c].part \in Positions!Part
      BY <3>2, <3>3 DEF Positions!Response
    <3>5. peeked[c].part.at \in Int
      BY <3>4 DEF Positions!Part
    <3> QED
      BY <1>2, <3>3, <3>5 DEF Positions!PositionsAssumption
  <2>4. Positions!ListResult(a, peeked) \in Positions!Result \union {Positions!None}
          /\ Positions!ResultKept(Positions!ListResult(a, peeked))
    BY <1>2, <1>3, <2>1, <2>2, <2>3, ListResultKept
  <2> QED
    BY <1>7, <1>9, <2>4
<1>10. CASE (\E c \in Positions!Enabled : peeked[c] = Positions!None) /\ Positions!Goto(r, q)
              /\ positions' = positions
  <2>1. q \in Positions!Loading
    BY <1>2, <1>5 DEF Positions!Loading
  <2>2. ASSUME NEW c \in Positions!ChainNo, peeked[c] # Positions!None
        PROVE  c \in Positions!Enabled /\ Positions!Usable(peeked[c], a, positionsRequest[r].since)
    <3>1. peeked[c] \in Positions!Response /\ c \in Positions!Enabled
            /\ Positions!Usable(peeked[c], a, positionsNow)
      BY <1>4, <2>2
    <3>2. Positions!Usable(peeked[c], a, positionsRequest[r].since)
      BY <1>2, <3>1, UsableEarlier
    <3> QED
      BY <3>1, <3>2
  <2>3. Positions!RequestSound(q)
    BY <1>2, <1>10, <2>2 DEF Positions!RequestSound
  <2> HIDE DEF q
  <2>4. positionsRequest'
          \in [Request -> Positions!Asking \union Positions!Loading \union {Positions!Idle}]
          /\ Positions!RequestsSound'
    BY <1>1, <1>10, <2>1, <2>3, RequestKeeps
  <2>5. positions' \in Positions!Result \union {Positions!None} /\ Positions!ResultKept(positions')
    BY <1>3, <1>10 DEF Positions!Types
  <2> QED
    BY <1>1, <1>6, <2>4, <2>5, CacheKeeps DEF Positions!provider
<1> QED
  BY <1>1, <1>8, <1>9, <1>10

\* A row that is young enough stands in for a chain, as an incomplete response.
LEMMA PersistedListable ==
  ASSUME Positions!PositionsAssumption, Positions!PositionsInv, NEW a \in Address,
         NEW c \in Positions!ChainNo, c \in Positions!Enabled
  PROVE  /\ Positions!Persisted(a, c) \in Positions!Response \union {Positions!None}
         /\ Positions!Persisted(a, c) # Positions!None => Listable(Positions!Persisted(a, c), c, a)
<1> DEFINE v == [kind |-> "response", part |-> persisted[c], partial |-> TRUE]
<1>1. CASE persisted[c] # Positions!None /\ persisted[c].address = a
             /\ persisted[c].captured + PositionsMaxAge > positionsNow
  <2>1. Positions!Persisted(a, c) = v
    BY <1>1 DEF Positions!Persisted, Positions!ResponseOf
  <2>2. persisted[c] \in Positions!Part /\ persisted[c].stored
          /\ persisted[c].captured < persisted[c].at + PositionsTtl
    BY <1>1 DEF Positions!PositionsInv, Positions!Types, Positions!RowsKept, Positions!RowSound
  <2>3. v \in Positions!Response
    BY <2>2 DEF Positions!Response
  <2>4. persisted[c].captured \in Nat /\ positionsNow \in Nat
    BY <2>2 DEF Positions!Part, Positions!PositionsInv, Positions!Types,
       Positions!PositionsAssumption
  <2>5. positionsNow < persisted[c].captured + PositionsMaxAge
    BY <1>1, <2>4 DEF Positions!PositionsAssumption
  <2>6. Listable(v, c, a)
    BY <1>1, <2>2, <2>5 DEF Listable
  <2> HIDE DEF v
  <2> QED
    BY <2>1, <2>3, <2>6
<1>2. CASE ~(persisted[c] # Positions!None /\ persisted[c].address = a
             /\ persisted[c].captured + PositionsMaxAge > positionsNow)
  BY <1>2 DEF Positions!Persisted
<1> QED
  BY <1>1, <1>2

LEMMA ListFromRowsKeeps ==
  ASSUME Positions!PositionsAssumption, Positions!PositionsInv, NEW r \in Request,
         Positions!ListFromRows(r)
  PROVE  Positions!PositionsInv'
<1> DEFINE a == positionsRequest[r].address
           t == positionsRequest[r].since
           peeked == positionsRequest[r].peeked
           f(readable) == [c \in Positions!ChainNo |-> IF c \in Positions!Enabled /\ peeked[c] = Positions!None /\ readable
                                                     THEN Positions!Persisted(a, c) ELSE peeked[c]]
<1>1. PICK readable \in BOOLEAN :
        positions' = IF Positions!NewlyCached THEN positions
                     ELSE Positions!ListResult(a, f(readable))
  BY DEF Positions!ListFromRows
<1>2. /\ positionsRequest[r].at = "loading" /\ Positions!Goto(r, Positions!Idle)
      /\ UNCHANGED <<positionsNow, Positions!row, persisted, Positions!provider, sharing>>
  BY DEF Positions!ListFromRows
<1>3. /\ positionsRequest[r] \in Positions!Asking \union Positions!Loading
           /\ Positions!RequestSound(positionsRequest[r])
      /\ a \in Address /\ t \in Nat /\ t <= positionsNow /\ positionsNow <= t + DatabaseTime
           /\ positionsNow \in Nat
      /\ a # owner => movedAt # -1 /\ positionsNow <= movedAt + DatabaseTime + LoopTime
  BY <1>2, PositionsRequestTypes
<1>4. peeked \in [Positions!ChainNo -> Positions!Response \union {Positions!None}]
  BY <1>2, <1>3 DEF Positions!Asking, Positions!Loading
<1>5. \A c \in Positions!ChainNo : peeked[c] # Positions!None
        => c \in Positions!Enabled /\ Positions!Usable(peeked[c], a, t)
  BY <1>2, <1>3 DEF Positions!RequestSound
<1>6. Positions!Types /\ Positions!ResultKept(positions) /\ Positions!ProviderKept
  BY DEF Positions!PositionsInv
<1> DEFINE g == f(readable)
<1>7. \A c \in Positions!ChainNo : \/ c \in Positions!Enabled /\ g[c] = Positions!Persisted(a, c)
                                 \/ g[c] = peeked[c]
  OBVIOUS
<1>8. g = [c \in Positions!ChainNo |-> g[c]]
  OBVIOUS
<1>9. positions' = IF Positions!NewlyCached THEN positions ELSE Positions!ListResult(a, g)
  BY <1>1
<1> HIDE DEF g, f, a, t, peeked
<1>10. ASSUME NEW c \in Positions!ChainNo
       PROVE  g[c] \in Positions!Response \union {Positions!None}
  BY <1>3, <1>4, <1>7, PersistedListable
<1>11. g \in Responses
  BY <1>8, <1>10 DEF Responses
<1>12. ASSUME NEW c \in Positions!ChainNo, g[c].kind = "response"
       PROVE  Listable(g[c], c, a)
  <2>1. g[c] \in Positions!Response /\ g[c] # Positions!None
    BY <1>10, <1>12, ResponseTypes DEF Positions!None
  <2>2. CASE c \in Positions!Enabled /\ g[c] = Positions!Persisted(a, c)
    BY <1>3, <2>1, <2>2, PersistedListable
  <2>3. CASE g[c] = peeked[c]
    BY <1>3, <1>5, <2>1, <2>3, UsableListable
  <2> QED
    BY <1>7, <2>2, <2>3
<1>13. Timely(g)
  <2>1. PICK c \in Positions!Enabled : peeked[c] = Positions!None
    BY <1>2, <1>3 DEF Positions!RequestSound, peeked
  <2>2. c \in Positions!ChainNo
    BY <1>6 DEF Positions!Types, Positions!Enabled, Positions!ChainNo,
       Positions!PositionsAssumption
  <2>3. g[c] = Positions!None \/ g[c] = Positions!Persisted(a, c)
    BY <1>7, <2>1, <2>2
  <2>4. g[c] = Positions!None \/ g[c] = Positions!ResponseOf(persisted[c], TRUE)
    BY <2>3 DEF Positions!Persisted
  <2>5. g[c].kind # "response" \/ g[c].partial
    BY <2>4 DEF Positions!None, Positions!ResponseOf
  <2> QED
    BY <2>5 DEF Timely
<1>14. positions' \in Positions!Result \union {Positions!None} /\ Positions!ResultKept(positions')
  <2>1. CASE positions' = positions
    BY <1>6, <2>1 DEF Positions!Types
  <2>2. CASE positions' = Positions!ListResult(a, g)
    BY <1>3, <1>6, <1>11, <1>12, <1>13, <2>2, ListResultKept
  <2> QED
    BY <1>9, <2>1, <2>2
<1>15. positionsRequest'
         \in [Request -> Positions!Asking \union Positions!Loading \union {Positions!Idle}]
         /\ Positions!RequestsSound'
  BY <1>2, IdleSound, RequestKeeps
<1>16. sharing' \in Positions!Fetching \union {Positions!NoJoint} /\ Positions!CallSound(sharing)'
  BY <1>2, ListStays
<1> QED
  BY <1>2, <1>14, <1>15, <1>16, CacheKeeps DEF Positions!provider

LEMMA PositionsAskKeeps ==
  ASSUME Positions!PositionsAssumption, Positions!PositionsInv, NEW r \in Request,
         NEW kind \in {"detail", "list"},
         Positions!Ask(r, kind)
  PROVE  Positions!PositionsInv'
<1> DEFINE q == [at |-> "found", kind |-> kind, address |-> owner, since |-> positionsNow]
<1>1. Positions!Goto(r, q)
        /\ UNCHANGED <<positionsNow, Positions!row, persisted, Positions!provider, positions,
        sharing>>
  BY DEF Positions!Ask
<1>2. positionsNow \in 0 .. PositionsTime /\ positionsNow \in Nat /\ owner \in Address
  BY DEF Positions!PositionsInv, Positions!Types, Positions!PositionsAssumption
<1>3. q \in Positions!Asking /\ Positions!RequestSound(q)
  BY <1>2 DEF Positions!Asking, Positions!RequestSound, Positions!PositionsAssumption
<1> HIDE DEF q
<1>4. positionsRequest'
        \in [Request -> Positions!Asking \union Positions!Loading \union {Positions!Idle}]
        /\ Positions!RequestsSound'
  BY <1>1, <1>3, RequestKeeps
<1>5. sharing' \in Positions!Fetching \union {Positions!NoJoint} /\ Positions!CallSound(sharing)'
  BY <1>1, ListStays
<1>6. positions' \in Positions!Result \union {Positions!None} /\ Positions!ResultKept(positions')
  BY <1>1 DEF Positions!PositionsInv, Positions!Types
<1> QED
  BY <1>1, <1>4, <1>5, <1>6, CacheKeeps DEF Positions!provider

LEMMA DetailKeeps ==
  ASSUME Positions!PositionsAssumption, Positions!PositionsInv, NEW r \in Request,
         Positions!Detail(r)
  PROVE  Positions!PositionsInv'
<1> DEFINE j == [at |-> "fetching", address |-> positionsRequest[r].address, since |-> positionsNow, chain |-> 1,
                 got |-> [c \in Positions!ChainNo |-> Positions!None], stale |-> Positions!None,
                   captured |-> 0]
<1>1. /\ positionsRequest[r].at = "found" /\ Positions!Goto(r, Positions!Idle)
      /\ sharing' = sharing \/ sharing' = j
      /\ UNCHANGED <<positionsNow, Positions!row, persisted, Positions!provider, positions>>
  BY DEF Positions!Detail
<1>2. /\ positionsRequest[r].address \in Address /\ positionsRequest[r].since <= positionsNow
           /\ positionsRequest[r].since \in Nat
      /\ positionsNow \in Nat /\ positionsNow <= positionsRequest[r].since + DatabaseTime
      /\ positionsRequest[r].address # owner => movedAt # -1 /\ positionsRequest[r].since <= movedAt
  BY <1>1, PositionsRequestTypes
<1>3. positionsNow \in 0 .. PositionsTime /\ 0 \in 0 .. PositionsTime /\ movedAt \in Int
        /\ numEnabled \in Nat
  BY DEF Positions!PositionsInv, Positions!Types, Positions!PositionsAssumption, Positions!ChainNo
<1>4. 1 \in 1 .. NumChains + 1 /\ 1 <= numEnabled + 1
  BY <1>3 DEF Positions!PositionsAssumption
<1>5. j \in Positions!Fetching
  BY <1>2, <1>3, <1>4 DEF Positions!Fetching
<1>6. Positions!CallSound(j)
  <2>1. positionsRequest[r].address # owner
          => movedAt # -1 /\ positionsNow <= movedAt + DatabaseTime
    BY <1>2, <1>3 DEF Positions!PositionsAssumption
  <2>2. positionsNow <= positionsNow + LoopTime
    BY <1>2 DEF Positions!PositionsAssumption
  <2> QED
    BY <1>2, <1>4, <2>1, <2>2 DEF Positions!CallSound, Positions!None
<1> HIDE DEF j
<1>7. sharing' \in Positions!Fetching \union {Positions!NoJoint} /\ Positions!CallSound(sharing')
  BY <1>1, <1>5, <1>6 DEF Positions!PositionsInv, Positions!Types
<1>8. Positions!CallSound(sharing)'
  BY <1>1, <1>7, Stay
<1>9. positionsRequest'
        \in [Request -> Positions!Asking \union Positions!Loading \union {Positions!Idle}]
        /\ Positions!RequestsSound'
  BY <1>1, IdleSound, RequestKeeps
<1>10. positions' \in Positions!Result \union {Positions!None} /\ Positions!ResultKept(positions')
  BY <1>1 DEF Positions!PositionsInv, Positions!Types
<1> QED
  BY <1>1, <1>7, <1>8, <1>9, <1>10, CacheKeeps DEF Positions!provider

\* The address changes: what is under way and what is kept was for it until now.
LEMMA PositionsChangeAddressKeeps ==
  ASSUME Positions!PositionsAssumption, Positions!PositionsInv, NEW a \in Address,
         Positions!ChangeAddress(a)
  PROVE  Positions!PositionsInv'
<1>1. /\ movedAt = -1 /\ owner' = a /\ movedAt' = positionsNow /\ numEnabled' = numEnabled
      /\ UNCHANGED <<positionsNow, persisted, positionsCache, lastGood, coolUntil, zerionAnswers,
           positions, sharing, positionsRequest>>
  BY DEF Positions!ChangeAddress, Positions!provider
<1>2. positionsNow \in 0 .. PositionsTime /\ positionsNow \in Nat /\ positionsNow # -1
  BY DEF Positions!PositionsInv, Positions!Types, Positions!PositionsAssumption
<1>3. Positions!Types' /\ Positions!Enabled' = Positions!Enabled
  BY <1>1, <1>2 DEF Positions!PositionsInv, Positions!Types, Positions!Enabled
<1>4. Positions!ProviderKept' /\ Positions!RowsKept'
  BY <1>1 DEF Positions!PositionsInv, Positions!ProviderKept, Positions!CacheSound,
     Positions!GoodSound, Positions!Usable, Positions!RowsKept, Positions!RowSound
<1>5. Positions!CallSound(sharing)'
  <2> SUFFICES ASSUME sharing # Positions!NoJoint
               PROVE  Positions!CallSound(sharing)'
    BY <1>1 DEF Positions!CallSound
  <2>1. Positions!CallSound(sharing) /\ sharing.since \in Nat /\ sharing.since <= positionsNow
    BY CallTypes
  <2>2. sharing.since <= positionsNow + DatabaseTime
    BY <1>2, <2>1 DEF Positions!PositionsAssumption
  <2> QED
    BY <1>1, <1>2, <1>3, <2>1, <2>2 DEF Positions!CallSound, Positions!Usable
<1>6. Positions!RequestsSound'
  <2> SUFFICES ASSUME NEW r \in Request
               PROVE  Positions!RequestSound(positionsRequest[r])'
    BY DEF Positions!RequestsSound
  <2>1. Positions!RequestSound(positionsRequest[r])
    BY DEF Positions!PositionsInv, Positions!RequestsSound
  <2> QED
    BY <1>1, <1>2, <1>3, <2>1 DEF Positions!RequestSound, Positions!Usable
<1>7. Positions!ResultKept(positions)'
  <2> SUFFICES ASSUME positions # Positions!None
               PROVE  Positions!ResultKept(positions)'
    BY <1>1 DEF Positions!ResultKept
  <2>1. Positions!ResultKept(positions) /\ positions \in Positions!Result
    BY DEF Positions!PositionsInv, Positions!Types
  <2>2. positions.expires \in Nat /\ positions.expires <= positionsNow + PositionsTtl
    BY <2>1 DEF Positions!Result, Positions!ResultKept
  <2>3. positions.expires <= positionsNow + DatabaseTime + LoopTime + PositionsTtl
    BY <1>2, <2>2 DEF Positions!PositionsAssumption
  <2> QED
    BY <1>1, <1>2, <1>3, <2>1, <2>3 DEF Positions!ResultKept, Positions!PartKept
<1> QED
  BY <1>3, <1>4, <1>5, <1>6, <1>7 DEF Positions!PositionsInv

LEMMA PositionsTickKeeps ==
  ASSUME Positions!PositionsAssumption, Positions!PositionsInv, Positions!Tick
  PROVE  Positions!PositionsInv'
<1>1. /\ positionsNow < PositionsTime /\ positionsNow' = positionsNow + 1
      /\ \A r \in Request : positionsRequest[r].at # "idle"
           => positionsNow < positionsRequest[r].since + DatabaseTime
      /\ sharing # Positions!NoJoint => positionsNow < sharing.since + LoopTime
      /\ positionsCache' = [k \in Address \X Positions!ChainNo |-> Positions!Kept(positionsCache[k])]
      /\ lastGood' = [k \in Address \X Positions!ChainNo |-> Positions!Kept(lastGood[k])]
      /\ positions' = Positions!Kept(positions)
      /\ UNCHANGED <<Positions!row, persisted, coolUntil, zerionAnswers, sharing, positionsRequest>>
  BY DEF Positions!Tick
<1>2. UNCHANGED <<owner, movedAt, numEnabled, Positions!Enabled>>
  BY <1>1 DEF Positions!row, Positions!Enabled
<1>3. positionsNow \in 0 .. PositionsTime /\ positionsNow \in Nat /\ PositionsTime \in Nat
  BY DEF Positions!PositionsInv, Positions!Types, Positions!PositionsAssumption
<1>4. /\ \A k \in Address \X Positions!ChainNo :
            /\ positionsCache'[k] = Positions!None \/ positionsCache'[k] = positionsCache[k]
            /\ lastGood'[k] = Positions!None \/ lastGood'[k] = lastGood[k]
      /\ positions' = Positions!None
           \/ (positions' = positions /\ ~(positions.expires <= positionsNow + 1))
  BY <1>1 DEF Positions!Kept
<1>5. Positions!Types'
  <2>1. /\ positionsCache'
             \in [Address \X Positions!ChainNo -> Positions!Entry(Positions!Response)
             \union {Positions!None}]
        /\ lastGood' \in [Address \X Positions!ChainNo -> Positions!Entry(Positions!Part)
             \union {Positions!None}]
        /\ positions' \in Positions!Result \union {Positions!None}
    BY <1>1, <1>4 DEF Positions!PositionsInv, Positions!Types
  <2>2. positionsNow' \in 0 .. PositionsTime
    BY <1>1, <1>3
  <2> QED
    BY <1>1, <1>2, <2>1, <2>2 DEF Positions!PositionsInv, Positions!Types
<1>6. Positions!ProviderKept'
  <2>1. \A k \in Address \X Positions!ChainNo : Positions!CacheSound(k, positionsCache'[k])
          /\ Positions!GoodSound(k, lastGood'[k])
    BY <1>4 DEF Positions!PositionsInv, Positions!ProviderKept, Positions!CacheSound,
       Positions!GoodSound
  <2> QED
    BY <2>1 DEF Positions!ProviderKept, Positions!CacheSound, Positions!GoodSound,
       Positions!Usable
<1>7. Positions!RowsKept'
  BY <1>1 DEF Positions!PositionsInv, Positions!RowsKept, Positions!RowSound
<1>8. Positions!CallSound(sharing)'
  <2> SUFFICES ASSUME sharing # Positions!NoJoint
               PROVE  Positions!CallSound(sharing)'
    BY <1>1 DEF Positions!CallSound
  <2>1. Positions!CallSound(sharing) /\ sharing.since \in Nat /\ sharing.since <= positionsNow
    BY CallTypes
  <2>2. sharing.since <= positionsNow + 1 /\ positionsNow + 1 <= sharing.since + LoopTime
    BY <1>1, <1>3, <2>1 DEF Positions!PositionsAssumption
  <2> QED
    BY <1>1, <1>2, <2>1, <2>2 DEF Positions!CallSound, Positions!Usable
<1>9. Positions!RequestsSound'
  <2> SUFFICES ASSUME NEW r \in Request, positionsRequest[r].at # "idle"
               PROVE  Positions!RequestSound(positionsRequest[r])'
    BY <1>1 DEF Positions!RequestsSound, Positions!RequestSound
  <2>1. Positions!RequestSound(positionsRequest[r]) /\ positionsRequest[r].since \in Nat
          /\ positionsRequest[r].since <= positionsNow
    BY PositionsRequestTypes
  <2>2. positionsRequest[r].since <= positionsNow + 1
          /\ positionsNow + 1 <= positionsRequest[r].since + DatabaseTime
    BY <1>1, <1>3, <2>1 DEF Positions!PositionsAssumption
  <2> QED
    BY <1>1, <1>2, <2>1, <2>2 DEF Positions!RequestSound, Positions!Usable
<1>10. Positions!ResultKept(positions)'
  <2> SUFFICES ASSUME positions' # Positions!None
               PROVE  Positions!ResultKept(positions)'
    BY DEF Positions!ResultKept
  <2>1. positions' = positions /\ ~(positions.expires <= positionsNow + 1)
          /\ positions # Positions!None
    BY <1>4
  <2>2. Positions!ResultKept(positions) /\ positions.expires \in Nat
    BY <2>1 DEF Positions!PositionsInv, Positions!Types, Positions!Result
  <2>3. positionsNow + 1 < positions.expires /\ positions.expires <= positionsNow + 1 + PositionsTtl
    BY <1>3, <2>1, <2>2 DEF Positions!ResultKept, Positions!PositionsAssumption
  <2> QED
    BY <1>1, <1>2, <2>1, <2>2, <2>3 DEF Positions!ResultKept, Positions!PartKept
<1> QED
  BY <1>5, <1>6, <1>7, <1>8, <1>9, <1>10 DEF Positions!PositionsInv

LEMMA PositionsInit ==
  ASSUME Positions!PositionsAssumption, Positions!Init PROVE Positions!PositionsInv
<1>1. owner \in Address
  BY DEF Positions!PositionsAssumption, Positions!Init
<1>2. Positions!Types
  BY <1>1 DEF Positions!PositionsAssumption, Positions!Init, Positions!Types, Positions!Nowhere
<1>3. Positions!ProviderKept /\ Positions!RowsKept
  BY DEF Positions!Init, Positions!ProviderKept, Positions!CacheSound, Positions!GoodSound,
     Positions!RowsKept, Positions!RowSound, Positions!Nowhere
<1>4. Positions!CallSound(sharing) /\ Positions!RequestsSound /\ Positions!ResultKept(positions)
  BY DEF Positions!Init, Positions!CallSound, Positions!RequestsSound, Positions!RequestSound,
     Positions!Idle, Positions!ResultKept
<1> QED
  BY <1>2, <1>3, <1>4 DEF Positions!PositionsInv

LEMMA PositionsNext ==
  ASSUME Positions!PositionsAssumption, Positions!PositionsInv, [Positions!Next]_Positions!vars
  PROVE  Positions!PositionsInv'
<1>1. CASE Positions!Next
  <2>1. ASSUME NEW r \in Request,
               \/ \E kind \in {"detail", "list"} : Positions!Ask(r, kind)
               \/ Positions!Detail(r) \/ Positions!ListFromMemory(r) \/ Positions!ListFromRows(r)
        PROVE  Positions!PositionsInv'
    BY <2>1, PositionsAskKeeps, DetailKeeps, ListFromMemoryKeeps, ListFromRowsKeeps
  <2>2. ASSUME NEW b \in BOOLEAN, Positions!ProviderAnswers(b) \/ Positions!ProviderFails(b)
        PROVE  Positions!PositionsInv'
    BY <2>2, PositionsProviderAnswersKeeps, PositionsProviderFailsKeeps
  <2>3. ASSUME NEW a \in Address, Positions!ChangeAddress(a)
        PROVE  Positions!PositionsInv'
    BY <2>3, PositionsChangeAddressKeeps
  <2>4. ASSUME Positions!Tick \/ Positions!ProviderRefuses \/ Positions!FetchNext
                 \/ Positions!Persist \/ Positions!FinishDetail
        PROVE  Positions!PositionsInv'
    BY <2>4, PositionsTickKeeps, ProviderRefusesKeeps, FetchNextKeeps,
       PositionsPersistKeeps, FinishDetailKeeps
  <2> QED
    BY <1>1, <2>1, <2>2, <2>3, <2>4 DEF Positions!Next
<1>2. CASE UNCHANGED Positions!vars
  <2>1. UNCHANGED <<positionsNow, Positions!row, owner, movedAt, numEnabled, persisted, positionsCache, lastGood, coolUntil,
                    zerionAnswers, positions, sharing, positionsRequest>>
    BY <1>2 DEF Positions!vars, Positions!row, Positions!provider
  <2>2. sharing' \in Positions!Fetching \union {Positions!NoJoint} /\ Positions!CallSound(sharing)'
    BY <2>1, ListStays
  <2>3. positionsRequest'
          \in [Request -> Positions!Asking \union Positions!Loading \union {Positions!Idle}]
          /\ Positions!RequestsSound'
    BY <2>1, Stay DEF Positions!PositionsInv, Positions!Types, Positions!RequestsSound
  <2>4. positions' \in Positions!Result \union {Positions!None} /\ Positions!ResultKept(positions')
    BY <2>1 DEF Positions!PositionsInv, Positions!Types
  <2> QED
    BY <2>1, <2>2, <2>3, <2>4, CacheKeeps
<1> QED
  BY <1>1, <1>2

\* What every kept result, row and piece of work under way owes to the clock holds always.
THEOREM PositionsInvariant ==
  ASSUME Positions!PositionsAssumption
  PROVE  Positions!Spec => []Positions!PositionsInv
<1>1. Positions!Init => Positions!PositionsInv
  BY PositionsInit
<1>2. Positions!PositionsInv /\ [Positions!Next]_Positions!vars => Positions!PositionsInv'
  BY PositionsNext
<1> QED
  BY <1>1, <1>2, PTL DEF Positions!Spec

LEMMA PositionsInvImplies ==
  ASSUME Positions!PositionsAssumption, Positions!PositionsInv
  PROVE  Positions!TypeOK /\ Positions!HonestPositions
<1>1. Positions!TypeOK
  <2>1. /\ \A c \in Positions!ChainNo : persisted[c] \in Positions!Part \union {Positions!None}
        /\ \A k \in Address \X Positions!ChainNo :
             /\ positionsCache[k] = Positions!None \/ positionsCache[k].value \in Positions!Response
             /\ lastGood[k] = Positions!None \/ lastGood[k].value \in Positions!Part
    BY DEF Positions!PositionsInv, Positions!Types, Positions!Entry
  <2>2. sharing = Positions!NoJoint \/ /\ sharing.at \in {"fetching", "calling", "persisting"}
                                       /\ \A c \in Positions!ChainNo :
                                            sharing.got[c]
                                            \in Positions!Response
                                            \union {Positions!Error, Positions!None}
    BY DEF Positions!PositionsInv, Positions!Types, Positions!Fetching
  <2>3. \A r \in Request :
          /\ positionsRequest[r].at \in {"idle", "found", "loading"}
          /\ positionsRequest[r].at = "loading"
               => \A c \in Positions!ChainNo :
               positionsRequest[r].peeked[c] \in Positions!Response \union {Positions!None}
    BY DEF Positions!PositionsInv, Positions!Types, Positions!Asking, Positions!Loading,
       Positions!Idle
  <2> QED
    BY <2>1, <2>2, <2>3 DEF Positions!TypeOK, Positions!PositionsInv, Positions!Types
<1>2. Positions!HonestPositions
  <2> SUFFICES ASSUME positions # Positions!None
               PROVE  Positions!HonestPositions
    BY DEF Positions!HonestPositions
  <2> DEFINE found == {c \in Positions!ChainNo : positions.parts[c] # Positions!None}
  <2>1. positions \in Positions!Result /\ Positions!ResultKept(positions) /\ positionsNow \in Nat
          /\ movedAt \in Int /\ Positions!Enabled \subseteq Positions!ChainNo
    BY DEF Positions!PositionsInv, Positions!Types, Positions!PositionsAssumption,
       Positions!Enabled, Positions!ChainNo
  <2>2. positions.expires \in Nat /\ positionsNow < positions.expires
    BY <2>1 DEF Positions!Result, Positions!ResultKept
  <2>3. \A c \in found : Positions!PartKept(positions, positions.parts[c])
    BY <2>1 DEF Positions!ResultKept
  <2>4. \A c \in found : positions.parts[c].address = positions.address
    BY <2>3 DEF Positions!PartKept
  <2>5. positions.address # owner => positionsNow < movedAt + DatabaseTime + LoopTime + PositionsTtl
    BY <2>1, <2>2 DEF Positions!ResultKept, Positions!PositionsAssumption
  <2>6. ASSUME NEW c \in Positions!ChainNo, positions.parts[c] # Positions!None
        PROVE  positions.parts[c].at \in Int /\ positions.parts[c].captured \in Int
    BY <2>1, <2>6 DEF Positions!Result, Positions!Part
  <2>7. ASSUME ~positions.partial
        PROVE  /\ found = Positions!Enabled
               /\ \A c \in Positions!Enabled :
                    positionsNow < positions.parts[c].at + 2 * PositionsTtl + LoopTime
    <3>1. \A c \in Positions!ChainNo : positions.parts[c] # Positions!None <=> c \in Positions!Enabled
      BY <2>1, <2>7 DEF Positions!ResultKept
    <3>2. found = Positions!Enabled
      BY <2>1, <3>1
    <3>3. ASSUME NEW c \in Positions!Enabled
          PROVE  positionsNow < positions.parts[c].at + 2 * PositionsTtl + LoopTime
      <4>1. positions.expires <= positions.parts[c].at + 2 * PositionsTtl + LoopTime
              /\ positions.parts[c].at \in Int
        BY <2>1, <2>6, <2>7, <3>1 DEF Positions!ResultKept
      <4> QED
        BY <2>1, <2>2, <4>1 DEF Positions!PositionsAssumption
    <3> QED
      BY <3>2, <3>3
  <2>8. ASSUME NEW c \in found
        PROVE  LET p == positions.parts[c] IN
               IF p.stored
               THEN /\ positions.listOnly /\ positions.partial
                    /\ positionsNow < p.captured + PositionsMaxAge
                         /\ p.captured < p.at + PositionsTtl
               ELSE positionsNow < p.at + PositionsGoodTtl + 2 * LoopTime + PositionsTtl
                 + DatabaseTime + PositionsDegradedTtl
    <3>1. Positions!PartKept(positions, positions.parts[c]) /\ positions.parts[c].at \in Int
            /\ positions.parts[c].captured \in Int
      BY <2>3, <2>6
    <3>2. CASE positions.parts[c].stored
      <4>1. /\ positions.listOnly /\ positions.partial
                 /\ positions.expires <= positions.parts[c].captured + PositionsMaxAge
            /\ positions.parts[c].captured < positions.parts[c].at + PositionsTtl
        BY <3>1, <3>2 DEF Positions!PartKept
      <4>2. positionsNow < positions.parts[c].captured + PositionsMaxAge
        BY <2>1, <2>2, <3>1, <4>1 DEF Positions!PositionsAssumption
      <4> QED
        BY <3>2, <4>1, <4>2
    <3>3. CASE ~positions.parts[c].stored
      <4>1. positions.expires <= positions.parts[c].at + PositionsGoodTtl + 2 * LoopTime
              + PositionsTtl + DatabaseTime + PositionsDegradedTtl
        BY <3>1, <3>3 DEF Positions!PartKept
      <4>2. positionsNow < positions.parts[c].at + PositionsGoodTtl + 2 * LoopTime + PositionsTtl
              + DatabaseTime + PositionsDegradedTtl
        BY <2>1, <2>2, <3>1, <4>1 DEF Positions!PositionsAssumption
      <4> QED
        BY <3>3, <4>2
    <3> QED
      BY <3>2, <3>3
  <2> QED
    BY <2>4, <2>5, <2>7, <2>8 DEF Positions!HonestPositions
<1> QED
  BY <1>1, <1>2

\* While there is a result, no list request puts its own in its place.
LEMMA DetailResultStays ==
  ASSUME Positions!PositionsAssumption, Positions!PositionsInv, [Positions!Next]_Positions!vars
  PROVE  positions # Positions!None /\ ~positions.listOnly /\ positions' # Positions!None
           => ~positions'.listOnly
<1> SUFFICES ASSUME positions # Positions!None, ~positions.listOnly, positions' # Positions!None
             PROVE  ~positions'.listOnly
  OBVIOUS
<1>1. positions \in Positions!Result /\ Positions!ResultKept(positions)
  BY DEF Positions!PositionsInv, Positions!Types
<1>2. Positions!Fresh(positions)
  BY <1>1 DEF Positions!Fresh, Positions!ResultKept, Positions!Result, Positions!PositionsInv,
     Positions!Types, Positions!PositionsAssumption
<1>3. CASE \E r \in Request : Positions!ListFromMemory(r) \/ Positions!ListFromRows(r)
  <2>1. positions' = positions
    BY <1>2, <1>3 DEF Positions!ListFromMemory, Positions!ListFromRows, Positions!NewlyCached
  <2> QED
    BY <2>1
<1>4. CASE Positions!FinishDetail
  <2>1. positions' = positions
          \/ positions' = Positions!ResultOf(sharing.address, sharing.got, FALSE, Positions!Forever)
    BY <1>4 DEF Positions!FinishDetail
  <2>2. Positions!ResultOf(sharing.address, sharing.got, FALSE, Positions!Forever).listOnly = FALSE
    BY DEF Positions!ResultOf
  <2> QED
    BY <2>1, <2>2
<1>5. CASE Positions!Tick
  BY <1>5 DEF Positions!Tick, Positions!Kept
<1>6. CASE UNCHANGED positions
  BY <1>6
<1> QED
  BY <1>3, <1>4, <1>5, <1>6 DEF Positions!Next, Positions!vars, Positions!Ask,
     Positions!Detail, Positions!FetchNext, Positions!Settle, Positions!ProviderAnswers,
     Positions!ProviderFails, Positions!ProviderRefuses, Positions!Persist,
     Positions!ChangeAddress

\* A list request never puts its result in the place of a detail result.
THEOREM DetailResultsAreKept ==
  ASSUME Positions!PositionsAssumption
  PROVE  Positions!Spec => Positions!DetailResultKept
<1>1. Positions!Spec => []Positions!PositionsInv
  BY PositionsInvariant
<1>2. Positions!PositionsInv /\ [Positions!Next]_Positions!vars
      => [positions # Positions!None /\ ~positions.listOnly /\ positions' # Positions!None
        => ~positions'.listOnly]_Positions!vars
  BY DetailResultStays
<1> QED
  BY <1>1, <1>2, PTL DEF Positions!Spec, Positions!DetailResultKept

-----------------------------------------------------------------------------
(* Snapshots (PortfolioSnapshots).                                         *)
\* A cycle goes on with its wallets.
GoesOn(old, new) ==
  /\ old.at \notin {"unused", "over"}
  /\ new.at \in {"next", "waiting", "inserting"}
  /\ new.wallet = new.tried + 1 /\ old.wallet <= new.wallet
  /\ new.at # "next" => new.wallet \in Snapshots!Wallet
  /\ new.at = "inserting"
       => ~Snapshots!IsPartial(new.value) /\ Snapshots!Young(new.value, new.captured)

\* What a cycle is doing is a record of one of two kinds.
LEMMA CycleTypes ==
  ASSUME Snapshots!SnapshotsAssumption, Snapshots!Types, NEW k \in Snapshots!Cycle
  PROVE  /\ cycle[k] \in Snapshots!Work \/ cycle[k] \in Snapshots!Inserting
         /\ cycle[k].at = "inserting" => cycle[k] \in Snapshots!Inserting
         /\ cycle[k].at # "inserting" => cycle[k] \in Snapshots!Work
         /\ cycle[k].wallet \in 0 .. NumWallets + 1 /\ cycle[k].tried \in 0 .. NumWallets
         /\ cycle[k].failed \in BOOLEAN /\ cycle[k].first \in BOOLEAN
<1>1. cycle[k] \in Snapshots!Work \/ cycle[k] \in Snapshots!Inserting
  BY DEF Snapshots!Types
<1>2. CASE cycle[k] \in Snapshots!Work
  BY <1>2 DEF Snapshots!Work
<1>3. CASE cycle[k] \in Snapshots!Inserting
  <2>1. /\ cycle[k].at = "inserting" /\ cycle[k].wallet \in Snapshots!Wallet
        /\ cycle[k].tried \in 0 .. NumWallets
        /\ cycle[k].failed \in BOOLEAN /\ cycle[k].first \in BOOLEAN
    BY <1>3 DEF Snapshots!Inserting
  <2>2. cycle[k].wallet \in 0 .. NumWallets + 1
    BY <2>1 DEF Snapshots!Wallet, Snapshots!SnapshotsAssumption
  <2> QED
    BY <1>3, <2>1, <2>2
<1> QED
  BY <1>1, <1>2, <1>3

\* A cycle that goes on counts right, and it is still the only one.
LEMMA GoesOnKeeps ==
  ASSUME Snapshots!SnapshotsAssumption, Snapshots!Types, Snapshots!Counted, Snapshots!Alone,
         job' = job,
         \A k \in Snapshots!Cycle : cycle'[k] = cycle[k] \/ GoesOn(cycle[k], cycle'[k])
  PROVE  Snapshots!Counted' /\ Snapshots!Alone'
<1>1. Snapshots!Counted'
  <2> SUFFICES ASSUME NEW k \in Snapshots!Cycle
               PROVE  /\ cycle'[k].at \in {"unused", "listing"} => cycle'[k].tried = 0
                      /\ cycle'[k].at \in {"next", "waiting", "inserting"} =>
                           cycle'[k].wallet = cycle'[k].tried + 1
                      /\ cycle'[k].at \in {"waiting", "inserting"}
                           => cycle'[k].wallet \in Snapshots!Wallet
                      /\ cycle'[k].at = "over" => cycle'[k].tried \in {0, NumWallets}
    BY DEF Snapshots!Counted, Snapshots!Wallet
  <2>1. CASE cycle'[k] = cycle[k]
    BY <2>1 DEF Snapshots!Counted
  <2>2. CASE GoesOn(cycle[k], cycle'[k])
    BY <2>2 DEF GoesOn
  <2> QED
    BY <2>1, <2>2
<1>2. \A k \in Snapshots!Cycle : Snapshots!Runs(k)' => Snapshots!Runs(k)
  BY DEF Snapshots!Runs, GoesOn
<1>3. Snapshots!Alone'
  BY <1>2 DEF Snapshots!Alone
<1> QED
  BY <1>1, <1>3

LEMMA GoesOnRecords ==
  ASSUME Snapshots!SnapshotsAssumption, Snapshots!Types, Snapshots!Types', Snapshots!Recorded,
         snapshots' = snapshots,
         \A k \in Snapshots!Cycle : cycle'[k] = cycle[k] \/ GoesOn(cycle[k], cycle'[k])
  PROVE  Snapshots!Recorded'
<1>1. ASSUME NEW k \in Snapshots!Cycle, cycle'[k].at = "inserting"
      PROVE  ~Snapshots!IsPartial(cycle'[k].value)
               /\ Snapshots!Young(cycle'[k].value, cycle'[k].captured)
  BY <1>1 DEF Snapshots!Recorded, GoesOn
<1>2. ASSUME NEW s \in snapshots
      PROVE  /\ cycle'[s.cycle].at \notin {"unused", "listing"}
             /\ Snapshots!Runs(s.cycle)' => s.wallet < cycle'[s.cycle].wallet
  <2>1. s.cycle \in Snapshots!Cycle /\ s.wallet \in Nat
    BY DEF Snapshots!Types, Snapshots!Row, Snapshots!Wallet
  <2>2. /\ cycle[s.cycle].at \notin {"unused", "listing"}
        /\ Snapshots!Runs(s.cycle) => s.wallet < cycle[s.cycle].wallet
    BY DEF Snapshots!Recorded
  <2>3. CASE cycle'[s.cycle] = cycle[s.cycle]
    BY <2>2, <2>3 DEF Snapshots!Runs
  <2>4. CASE GoesOn(cycle[s.cycle], cycle'[s.cycle])
    <3>1. Snapshots!Runs(s.cycle)
      BY <2>4 DEF GoesOn, Snapshots!Runs
    <3>2. cycle[s.cycle].wallet <= cycle'[s.cycle].wallet
            /\ cycle'[s.cycle].wallet = cycle'[s.cycle].tried + 1
      BY <2>4 DEF GoesOn
    <3>3. cycle[s.cycle].wallet \in Int
      BY <2>1, CycleTypes
    <3>4. cycle'[s.cycle].at \in {"next", "waiting", "inserting"}
      BY <2>4 DEF GoesOn
    <3>5. s.wallet < cycle[s.cycle].wallet
      BY <2>2, <3>1
    <3>6. cycle'[s.cycle].wallet \in Int => s.wallet < cycle'[s.cycle].wallet
      BY <2>1, <3>2, <3>3, <3>5
    <3>7. cycle'[s.cycle].wallet \in Int
      <4>1. cycle'[s.cycle] \in Snapshots!Work \union Snapshots!Inserting
        BY <2>1 DEF Snapshots!Types
      <4> QED
        BY <4>1 DEF Snapshots!Work, Snapshots!Inserting, Snapshots!Wallet
    <3> QED
      BY <3>4, <3>6, <3>7
  <2> QED
    BY <2>1, <2>3, <2>4
<1> QED
  BY <1>1, <1>2 DEF Snapshots!Recorded, Snapshots!IsPartial, Snapshots!Young

\* A step that leaves the cycles, the flag and the rows alone.
LEMMA OthersKeep ==
  ASSUME Snapshots!SnapshotsAssumption, Snapshots!SnapshotsInv, Snapshots!Types',
         UNCHANGED <<job, cycle, snapshots>>
  PROVE  Snapshots!Counted' /\ Snapshots!Alone' /\ Snapshots!Recorded'
<1>1. \A k \in Snapshots!Cycle : cycle'[k] = cycle[k]
  OBVIOUS
<1> QED
  BY <1>1, GoesOnKeeps, GoesOnRecords DEF Snapshots!SnapshotsInv

LEMMA SummaryTypes ==
  ASSUME Snapshots!Types, NEW w \in Snapshots!Wallet
  PROVE  /\ summary[w] # Snapshots!None => /\ summary[w] \in Snapshots!Entry /\ summary[w].value \in Snapshots!Value
                                           /\ summary[w].expires \in Nat
         /\ promise[w] # Snapshots!NoPromise => promise[w] \in Snapshots!Promise
  BY DEF Snapshots!Types, Snapshots!Entry

LEMMA TriedGoesOn ==
  ASSUME Snapshots!SnapshotsAssumption, Snapshots!SnapshotsInv, NEW k \in Snapshots!Cycle,
         NEW failed \in BOOLEAN,
         cycle[k].at \in {"next", "waiting"}, cycle[k].wallet \in Snapshots!Wallet
  PROVE  /\ Snapshots!Tried(k, failed) \in Snapshots!Work
         /\ GoesOn(cycle[k], Snapshots!Tried(k, failed))
<1>1. /\ cycle[k] \in Snapshots!Work /\ cycle[k].wallet = cycle[k].tried + 1
      /\ cycle[k].tried \in 0 .. NumWallets /\ cycle[k].failed \in BOOLEAN
      /\ cycle[k].tried + 1 \in 0 .. NumWallets /\ cycle[k].wallet + 1 \in 0 .. NumWallets + 1
  BY CycleTypes DEF Snapshots!SnapshotsInv, Snapshots!Types, Snapshots!Counted,
     Snapshots!Wallet, Snapshots!SnapshotsAssumption
<1> DEFINE ended == cycle[k].failed \/ failed
           new == [cycle[k] EXCEPT !.at = "next", !.wallet = @ + 1, !.tried = @ + 1,
             !.failed = ended]
<1>2. ended \in BOOLEAN
  BY <1>1
<1>3. Snapshots!Tried(k, failed) = new
  BY Zenon DEF Snapshots!Tried
<1> HIDE DEF ended
<1>4. new \in Snapshots!Work
  BY <1>1, <1>2 DEF Snapshots!Work
<1>5. new.at = "next" /\ new.wallet = cycle[k].wallet + 1 /\ new.tried = cycle[k].tried + 1
  BY <1>1 DEF Snapshots!Work
<1> HIDE DEF new
<1>6. GoesOn(cycle[k], new)
  BY <1>1, <1>5 DEF GoesOn
<1> QED
  BY <1>3, <1>4, <1>6

\* Captured makes a cycle go on, with a value that is young.
LEMMA CapturedGoesOn ==
  ASSUME Snapshots!SnapshotsAssumption, Snapshots!SnapshotsInv, NEW k \in Snapshots!Cycle,
         NEW v \in Snapshots!Value,
         cycle[k].at \in {"next", "waiting"}, cycle[k].wallet \in Snapshots!Wallet,
         Snapshots!IsPartial(v) \/ Snapshots!Young(v, time)
  PROVE  /\ Snapshots!Captured(k, v) \in Snapshots!Work \union Snapshots!Inserting
         /\ GoesOn(cycle[k], Snapshots!Captured(k, v))
<1>1. /\ cycle[k] \in Snapshots!Work /\ cycle[k].wallet = cycle[k].tried + 1
      /\ cycle[k].tried \in 0 .. NumWallets /\ time \in 0 .. SnapshotsTime
      /\ cycle[k].tried + 1 \in 0 .. NumWallets /\ cycle[k].wallet + 1 \in 0 .. NumWallets + 1
  BY CycleTypes DEF Snapshots!SnapshotsInv, Snapshots!Types, Snapshots!Counted,
     Snapshots!Wallet, Snapshots!SnapshotsAssumption
<1>2. CASE Snapshots!IsPartial(v)
  BY <1>2, TriedGoesOn DEF Snapshots!Captured
<1>3. CASE ~Snapshots!IsPartial(v)
  BY <1>1, <1>3 DEF Snapshots!Captured, Snapshots!Work, Snapshots!Inserting, GoesOn
<1> QED
  BY <1>2, <1>3

\* What one of the two calls may end with.
Outcome(call) ==
  {"failed"} \union (IF call = "holdings" THEN Snapshots!Outcome ELSE Snapshots!PositionsOutcome)

LEMMA SnapshotsSettleKeeps ==
  ASSUME Snapshots!SnapshotsAssumption, Snapshots!SnapshotsInv, NEW w \in Snapshots!Wallet,
         NEW call \in {"holdings", "positions"}, NEW outcome \in Outcome(call),
         Snapshots!Settle(w, call, outcome)
  PROVE  Snapshots!SnapshotsInv'
<1> DEFINE p == [promise[w] EXCEPT ![call] = outcome]
           over == "pending" \notin {p.holdings, p.positions}
           v == [holdings |-> p.holdings, positions |-> p.positions, asked |-> p.asked]
           rejected == "failed" \in {p.holdings, p.positions}
           kept == [value |-> v,
             expires |-> time + (IF Snapshots!IsPartial(v) THEN PartialTtl ELSE SummaryTtl)]
<1>1. /\ promise[w] # Snapshots!NoPromise /\ promise[w][call] = "pending"
      /\ promise' = [promise EXCEPT ![w] = IF over THEN Snapshots!NoPromise ELSE p]
      /\ summary' = IF ~over \/ rejected THEN summary ELSE [summary EXCEPT ![w] = kept]
      /\ \A k \in Snapshots!Cycle : cycle'[k] =
           IF over /\ cycle[k].at = "waiting" /\ cycle[k].wallet = w
           THEN IF rejected THEN Snapshots!Tried(k, TRUE) ELSE Snapshots!Captured(k, v)
           ELSE cycle[k]
      /\ cycle' = [k \in Snapshots!Cycle |-> cycle'[k]]
      /\ UNCHANGED <<time, job, lastRun, snapshots, requests>>
  BY DEF Snapshots!Settle
<1>2. promise[w] \in Snapshots!Promise /\ promise[w].asked <= time
        /\ time <= promise[w].asked + FetchTime
  BY <1>1, SummaryTypes DEF Snapshots!SnapshotsInv, Snapshots!Aged
<1>3. p \in Snapshots!Promise /\ p.asked = promise[w].asked
  <2>1. CASE call = "holdings"
    BY <1>2, <2>1 DEF Outcome, Snapshots!Promise
  <2>2. CASE call = "positions"
    BY <1>2, <2>2 DEF Outcome, Snapshots!Promise
  <2> QED
    BY <2>1, <2>2
<1>4. ASSUME over, ~rejected
      PROVE  v \in Snapshots!Value
  BY <1>3, <1>4 DEF Snapshots!Promise, Snapshots!Value, Snapshots!Outcome,
     Snapshots!PositionsOutcome
<1>5. time \in 0 .. SnapshotsTime /\ time \in Nat /\ v.asked = promise[w].asked
        /\ promise[w].asked \in Nat
  BY <1>2, <1>3 DEF Snapshots!SnapshotsInv, Snapshots!Types, Snapshots!Promise,
     Snapshots!SnapshotsAssumption
<1>6. Snapshots!Young(v, time)
  BY <1>2, <1>5 DEF Snapshots!Young, Snapshots!SnapshotsAssumption
<1>7. kept.expires \in Nat /\ kept.value = v
  BY <1>5 DEF Snapshots!SnapshotsAssumption
<1>8. ~Snapshots!IsPartial(v) => kept.expires <= v.asked + FetchTime + SummaryTtl
  BY <1>2, <1>5 DEF Snapshots!SnapshotsAssumption
<1> HIDE DEF p, v, kept, over, rejected
<1>9. \A k \in Snapshots!Cycle : /\ cycle'[k] = cycle[k] \/ GoesOn(cycle[k], cycle'[k])
                                 /\ cycle'[k] \in Snapshots!Work \union Snapshots!Inserting
  <2> SUFFICES ASSUME NEW k \in Snapshots!Cycle
               PROVE  /\ cycle'[k] = cycle[k] \/ GoesOn(cycle[k], cycle'[k])
                      /\ cycle'[k] \in Snapshots!Work \union Snapshots!Inserting
    OBVIOUS
  <2>1. cycle[k] \in Snapshots!Work \union Snapshots!Inserting
    BY DEF Snapshots!SnapshotsInv, Snapshots!Types
  <2>2. CASE over /\ cycle[k].at = "waiting" /\ cycle[k].wallet = w /\ rejected
    BY <1>1, <2>2, TriedGoesOn
  <2>3. CASE over /\ cycle[k].at = "waiting" /\ cycle[k].wallet = w /\ ~rejected
    BY <1>1, <1>4, <1>6, <2>3, CapturedGoesOn
  <2>4. CASE ~(over /\ cycle[k].at = "waiting" /\ cycle[k].wallet = w)
    BY <1>1, <2>1, <2>4
  <2> QED
    BY <2>2, <2>3, <2>4
<1>10. cycle' \in [Snapshots!Cycle -> Snapshots!Work \union Snapshots!Inserting]
  BY <1>1, <1>9
<1>11. summary' \in [Snapshots!Wallet -> Snapshots!Entry \union {Snapshots!None}]
  <2>1. ASSUME over, ~rejected
        PROVE  kept \in Snapshots!Entry
    <3>1. kept = [value |-> kept.value, expires |-> kept.expires]
      BY DEF kept
    <3> QED
      BY <1>4, <1>7, <2>1, <3>1 DEF Snapshots!Entry
  <2> QED
    BY <1>1, <2>1 DEF Snapshots!SnapshotsInv, Snapshots!Types
<1>12. promise' \in [Snapshots!Wallet -> Snapshots!Promise \union {Snapshots!NoPromise}]
  BY <1>1, <1>3 DEF Snapshots!SnapshotsInv, Snapshots!Types
<1>13. Snapshots!Types'
  BY <1>1, <1>10, <1>11, <1>12 DEF Snapshots!SnapshotsInv, Snapshots!Types
<1>14. Snapshots!Aged'
  <2> SUFFICES ASSUME NEW u \in Snapshots!Wallet
               PROVE  /\ summary'[u] # Snapshots!None /\ ~Snapshots!IsPartial(summary'[u].value) =>
                           summary'[u].expires <= summary'[u].value.asked + FetchTime + SummaryTtl
                      /\ promise'[u] # Snapshots!NoPromise =>
                           promise'[u].asked <= time /\ time <= promise'[u].asked + FetchTime
    BY <1>1 DEF Snapshots!Aged, Snapshots!IsPartial
  <2>1. summary'[u] = summary[u] \/ (u = w /\ summary'[u] = kept)
    BY <1>1 DEF Snapshots!SnapshotsInv, Snapshots!Types
  <2>2. promise'[u] = promise[u] \/ promise'[u] = Snapshots!NoPromise \/ (u = w /\ promise'[u] = p)
    BY <1>1 DEF Snapshots!SnapshotsInv, Snapshots!Types
  <2>3. /\ summary[u] # Snapshots!None /\ ~Snapshots!IsPartial(summary[u].value) =>
              summary[u].expires <= summary[u].value.asked + FetchTime + SummaryTtl
        /\ promise[u] # Snapshots!NoPromise
             => promise[u].asked <= time /\ time <= promise[u].asked + FetchTime
    BY DEF Snapshots!SnapshotsInv, Snapshots!Aged
  <2>4. /\ summary'[u] # Snapshots!None /\ ~Snapshots!IsPartial(summary'[u].value) =>
              summary'[u].expires <= summary'[u].value.asked + FetchTime + SummaryTtl
    BY <1>7, <1>8, <2>1, <2>3
  <2>5. promise'[u] # Snapshots!NoPromise
          => promise'[u].asked <= time /\ time <= promise'[u].asked + FetchTime
    BY <1>2, <1>3, <2>2, <2>3
  <2> QED
    BY <2>4, <2>5
<1> QED
  BY <1>1, <1>9, <1>13, <1>14, GoesOnKeeps, GoesOnRecords DEF Snapshots!SnapshotsInv

\* A promise that is made now.
LEMMA SharedTypes ==
  ASSUME Snapshots!SnapshotsAssumption, Snapshots!SnapshotsInv, NEW w \in Snapshots!Wallet
  PROVE  /\ Snapshots!Shared(w)
              \in [Snapshots!Wallet -> Snapshots!Promise \union {Snapshots!NoPromise}]
         /\ \A u \in Snapshots!Wallet : Snapshots!Shared(w)[u] = promise[u]
              \/ Snapshots!Shared(w)[u].asked = time
<1> DEFINE new == [at |-> "running", holdings |-> "pending", positions |-> "pending",
             asked |-> time]
<1>1. time \in 0 .. SnapshotsTime
        /\ promise \in [Snapshots!Wallet -> Snapshots!Promise \union {Snapshots!NoPromise}]
  BY DEF Snapshots!SnapshotsInv, Snapshots!Types
<1>2. new \in Snapshots!Promise /\ new.asked = time
  BY <1>1 DEF Snapshots!Promise
<1>3. Snapshots!Shared(w) = promise \/ Snapshots!Shared(w) = [promise EXCEPT ![w] = new]
  BY DEF Snapshots!Shared
<1> HIDE DEF new
<1> QED
  BY <1>1, <1>2, <1>3

LEMMA AskPerformanceKeeps ==
  ASSUME Snapshots!SnapshotsAssumption, Snapshots!SnapshotsInv,
         NEW chosen \in SUBSET Snapshots!Wallet, Snapshots!AskPerformance(chosen)
  PROVE  Snapshots!SnapshotsInv'
<1>1. /\ requests' = requests + 1 /\ requests < MaxRequests
      /\ promise' = [w \in Snapshots!Wallet |-> IF w \in chosen
           /\ ~Snapshots!Fresh(w) THEN Snapshots!Shared(w)[w] ELSE promise[w]]
      /\ UNCHANGED <<time, summary, job, lastRun, cycle, snapshots>>
  BY DEF Snapshots!AskPerformance
<1>2. \A w \in Snapshots!Wallet : /\ promise'[w] = promise[w] \/ promise'[w].asked = time
                                  /\ promise'[w] \in Snapshots!Promise \union {Snapshots!NoPromise}
  <2> SUFFICES ASSUME NEW w \in Snapshots!Wallet
               PROVE  /\ promise'[w] = promise[w] \/ promise'[w].asked = time
                      /\ promise'[w] \in Snapshots!Promise \union {Snapshots!NoPromise}
    OBVIOUS
  <2>1. promise'[w] = promise[w] \/ promise'[w] = Snapshots!Shared(w)[w]
    BY <1>1
  <2>2. promise[w] \in Snapshots!Promise \union {Snapshots!NoPromise}
    BY DEF Snapshots!SnapshotsInv, Snapshots!Types
  <2> QED
    BY <2>1, <2>2, SharedTypes
<1>3. Snapshots!Types'
  BY <1>1, <1>2 DEF Snapshots!SnapshotsInv, Snapshots!Types, Snapshots!SnapshotsAssumption
<1>4. Snapshots!Aged'
  <2>1. time \in Nat
    BY DEF Snapshots!SnapshotsInv, Snapshots!Types, Snapshots!SnapshotsAssumption
  <2> SUFFICES ASSUME NEW w \in Snapshots!Wallet, promise'[w] # Snapshots!NoPromise
               PROVE  promise'[w].asked <= time /\ time <= promise'[w].asked + FetchTime
    BY <1>1 DEF Snapshots!SnapshotsInv, Snapshots!Aged, Snapshots!IsPartial
  <2> QED
    BY <1>2, <2>1 DEF Snapshots!SnapshotsInv, Snapshots!Aged, Snapshots!SnapshotsAssumption
<1> QED
  BY <1>1, <1>3, <1>4, OthersKeep DEF Snapshots!SnapshotsInv

LEMMA SnapshotsTickKeeps ==
  ASSUME Snapshots!SnapshotsAssumption, Snapshots!SnapshotsInv, Snapshots!Tick
  PROVE  Snapshots!SnapshotsInv'
<1>1. /\ time < SnapshotsTime /\ time' = time + 1
      /\ \A w \in Snapshots!Wallet : promise[w] # Snapshots!NoPromise
           => time < promise[w].asked + FetchTime
      /\ summary' = [w \in Snapshots!Wallet |->
           IF summary[w] # Snapshots!None
             /\ summary[w].expires <= time + 1 THEN Snapshots!None ELSE summary[w]]
      /\ UNCHANGED <<promise, job, lastRun, cycle, snapshots, requests>>
  BY DEF Snapshots!Tick
<1>2. Snapshots!Types'
  BY <1>1 DEF Snapshots!SnapshotsInv, Snapshots!Types, Snapshots!SnapshotsAssumption
<1>3. Snapshots!Aged'
  <2> SUFFICES ASSUME NEW w \in Snapshots!Wallet
               PROVE  /\ summary'[w] # Snapshots!None /\ ~Snapshots!IsPartial(summary'[w].value) =>
                           summary'[w].expires <= summary'[w].value.asked + FetchTime + SummaryTtl
                      /\ promise[w] # Snapshots!NoPromise =>
                           promise[w].asked <= time + 1 /\ time + 1 <= promise[w].asked + FetchTime
    BY <1>1 DEF Snapshots!Aged, Snapshots!IsPartial
  <2>1. summary'[w] = summary[w] \/ summary'[w] = Snapshots!None
    BY <1>1
  <2>2. promise[w] # Snapshots!NoPromise => promise[w].asked \in Nat /\ promise[w].asked <= time
    BY SummaryTypes DEF Snapshots!SnapshotsInv, Snapshots!Promise, Snapshots!Aged
  <2>3. time \in Nat
    BY DEF Snapshots!SnapshotsInv, Snapshots!Types, Snapshots!SnapshotsAssumption
  <2> QED
    BY <1>1, <2>1, <2>2, <2>3 DEF Snapshots!SnapshotsInv, Snapshots!Aged,
       Snapshots!SnapshotsAssumption
<1> QED
  BY <1>1, <1>2, <1>3, OthersKeep DEF Snapshots!SnapshotsInv

\* A cycle begins only if none runs; otherwise it is over at once.
LEMMA BeginKeeps ==
  ASSUME Snapshots!SnapshotsAssumption, Snapshots!SnapshotsInv, NEW first \in BOOLEAN,
         Snapshots!Begin(first),
         job' \in [started : BOOLEAN, timer : BOOLEAN, running : {TRUE}]
  PROVE  Snapshots!SnapshotsInv'
<1>1. PICK k \in Snapshots!Cycle :
        /\ cycle[k].at = "unused"
        /\ cycle' = [cycle EXCEPT ![k].at = IF job.running THEN "over" ELSE "listing",
                                  ![k].first = first]
  BY DEF Snapshots!Begin
<1>2. UNCHANGED <<time, summary, promise, lastRun, snapshots, requests>>
  BY DEF Snapshots!Begin
<1> DEFINE at == IF job.running THEN "over" ELSE "listing"
           work == [cycle[k] EXCEPT !.at = at, !.first = first]
<1>3. cycle[k] \in Snapshots!Work /\ cycle[k].tried = 0
  BY <1>1, CycleTypes DEF Snapshots!SnapshotsInv, Snapshots!Counted
<1>4. cycle' = [cycle EXCEPT ![k] = work]
  BY <1>1 DEF Snapshots!SnapshotsInv, Snapshots!Types
<1>5. /\ work \in Snapshots!Work /\ work.at = at /\ work.tried = 0
      /\ at \in {"over", "listing"} /\ (job.running => at = "over")
  BY <1>3 DEF Snapshots!Work
<1> HIDE DEF work, at
<1>6. Snapshots!Types'
  BY <1>2, <1>4, <1>5 DEF Snapshots!SnapshotsInv, Snapshots!Types
<1>7. \A j \in Snapshots!Cycle : cycle'[j] = IF j = k THEN work ELSE cycle[j]
  BY <1>4 DEF Snapshots!SnapshotsInv, Snapshots!Types
<1>8. Snapshots!Aged'
  BY <1>2 DEF Snapshots!SnapshotsInv, Snapshots!Aged, Snapshots!IsPartial
<1>9. Snapshots!Counted'
  BY <1>5, <1>7 DEF Snapshots!SnapshotsInv, Snapshots!Counted, Snapshots!Wallet
<1>10. Snapshots!Alone'
  BY <1>5, <1>7 DEF Snapshots!SnapshotsInv, Snapshots!Alone, Snapshots!Runs
<1>11. Snapshots!Recorded'
  <2>1. \A s \in snapshots : s.cycle # k /\ s.cycle \in Snapshots!Cycle
    BY <1>1 DEF Snapshots!SnapshotsInv, Snapshots!Recorded, Snapshots!Types, Snapshots!Row
  <2> QED
    BY <1>2, <1>5, <1>7, <2>1 DEF Snapshots!SnapshotsInv, Snapshots!Recorded,
       Snapshots!IsPartial, Snapshots!Young, Snapshots!Runs
<1> QED
  BY <1>6, <1>8, <1>9, <1>10, <1>11 DEF Snapshots!SnapshotsInv

LEMMA StartsKeep ==
  ASSUME Snapshots!SnapshotsAssumption, Snapshots!SnapshotsInv,
         Snapshots!StartJob \/ Snapshots!TimerFires
  PROVE  Snapshots!SnapshotsInv'
<1>1. job \in [started : BOOLEAN, timer : BOOLEAN, running : BOOLEAN]
  BY DEF Snapshots!SnapshotsInv, Snapshots!Types
<1>2. job' \in [started : BOOLEAN, timer : BOOLEAN, running : {TRUE}]
  BY <1>1 DEF Snapshots!StartJob, Snapshots!TimerFires
<1> QED
  BY <1>2, BeginKeeps DEF Snapshots!StartJob, Snapshots!TimerFires

\* A cycle that ends has tried no wallet or all of them.
LEMMA EndKeeps ==
  ASSUME Snapshots!SnapshotsAssumption, Snapshots!SnapshotsInv, NEW k \in Snapshots!Cycle,
         NEW failed \in BOOLEAN, Snapshots!End(k, failed),
         Snapshots!Runs(k), cycle[k].tried \in {0, NumWallets}
  PROVE  Snapshots!SnapshotsInv'
<1> DEFINE work == [at |-> "over", wallet |-> cycle[k].wallet, tried |-> cycle[k].tried,
                    failed |-> failed, first |-> cycle[k].first]
<1>1. /\ cycle' = [cycle EXCEPT ![k] = work]
      /\ lastRun' \in {"succeeded", "failed"}
      /\ job' = [job EXCEPT !.running = FALSE, !.timer = @ \/ cycle[k].first]
      /\ UNCHANGED <<time, summary, promise, snapshots, requests>>
  BY DEF Snapshots!End
<1>2. work \in Snapshots!Work /\ work.at = "over" /\ work.tried = cycle[k].tried
  BY CycleTypes DEF Snapshots!SnapshotsInv, Snapshots!Work
<1> HIDE DEF work
<1>3. job' \in [started : BOOLEAN, timer : BOOLEAN, running : BOOLEAN]
  <2> DEFINE timer == job.timer \/ cycle[k].first
  <2>1. timer \in BOOLEAN
    BY CycleTypes DEF Snapshots!SnapshotsInv, Snapshots!Types
  <2>2. job' = [job EXCEPT !.running = FALSE, !.timer = timer]
    BY <1>1, Zenon
  <2> HIDE DEF timer
  <2> QED
    BY <2>1, <2>2 DEF Snapshots!SnapshotsInv, Snapshots!Types
<1>4. Snapshots!Types'
  BY <1>1, <1>2, <1>3 DEF Snapshots!SnapshotsInv, Snapshots!Types
<1>5. \A j \in Snapshots!Cycle : cycle'[j] = IF j = k THEN work ELSE cycle[j]
  BY <1>1 DEF Snapshots!SnapshotsInv, Snapshots!Types
<1>6. Snapshots!Aged'
  BY <1>1 DEF Snapshots!SnapshotsInv, Snapshots!Aged, Snapshots!IsPartial
<1>7. Snapshots!Counted'
  BY <1>2, <1>5 DEF Snapshots!SnapshotsInv, Snapshots!Counted, Snapshots!Wallet
<1>8. \A j \in Snapshots!Cycle : ~Snapshots!Runs(j)'
  BY <1>2, <1>5 DEF Snapshots!SnapshotsInv, Snapshots!Alone, Snapshots!Runs
<1>9. Snapshots!Alone'
  BY <1>8 DEF Snapshots!Alone
<1>10. Snapshots!Recorded'
  <2>1. \A s \in snapshots : s.cycle \in Snapshots!Cycle
    BY DEF Snapshots!SnapshotsInv, Snapshots!Types, Snapshots!Row
  <2>2. \A s \in snapshots : cycle'[s.cycle].at \notin {"unused", "listing"}
    BY <1>2, <1>5, <2>1 DEF Snapshots!SnapshotsInv, Snapshots!Recorded
  <2>3. \A j \in Snapshots!Cycle : cycle'[j].at # "inserting"
    BY <1>8 DEF Snapshots!Runs
  <2>4. \A s \in snapshots : ~Snapshots!IsPartial(s.value) /\ Snapshots!Young(s.value, s.captured)
    BY DEF Snapshots!SnapshotsInv, Snapshots!Recorded
  <2> QED
    BY <1>1, <1>8, <2>1, <2>2, <2>3, <2>4 DEF Snapshots!SnapshotsInv, Snapshots!Recorded,
       Snapshots!IsPartial, Snapshots!Young
<1> QED
  BY <1>4, <1>6, <1>7, <1>9, <1>10 DEF Snapshots!SnapshotsInv

LEMMA EndsKeep ==
  ASSUME Snapshots!SnapshotsAssumption, Snapshots!SnapshotsInv, NEW k \in Snapshots!Cycle,
         Snapshots!ListFails(k) \/ Snapshots!EndCycle(k)
  PROVE  Snapshots!SnapshotsInv'
<1>1. CASE Snapshots!ListFails(k)
  <2>1. Snapshots!Runs(k) /\ cycle[k].tried = 0 /\ Snapshots!End(k, TRUE)
    BY <1>1 DEF Snapshots!ListFails, Snapshots!SnapshotsInv, Snapshots!Counted, Snapshots!Runs
  <2> QED
    BY <2>1, EndKeeps
<1>2. CASE Snapshots!EndCycle(k)
  <2>1. /\ Snapshots!Runs(k) /\ cycle[k].wallet = cycle[k].tried + 1 /\ cycle[k].wallet > NumWallets
        /\ Snapshots!End(k, cycle[k].failed)
    BY <1>2 DEF Snapshots!EndCycle, Snapshots!SnapshotsInv, Snapshots!Counted, Snapshots!Runs
  <2>2. cycle[k].tried \in 0 .. NumWallets /\ cycle[k].failed \in BOOLEAN
    BY CycleTypes DEF Snapshots!SnapshotsInv
  <2>3. cycle[k].tried = NumWallets
    BY <2>1, <2>2 DEF Snapshots!SnapshotsAssumption
  <2> QED
    BY <2>1, <2>2, <2>3, EndKeeps
<1> QED
  BY <1>1, <1>2

LEMMA ListWalletsKeeps ==
  ASSUME Snapshots!SnapshotsAssumption, Snapshots!SnapshotsInv, NEW k \in Snapshots!Cycle,
         Snapshots!ListWallets(k)
  PROVE  Snapshots!SnapshotsInv'
<1> DEFINE work == [cycle[k] EXCEPT !.at = "next", !.wallet = 1]
<1>1. /\ cycle[k].at = "listing"
      /\ cycle' = [cycle EXCEPT ![k] = work]
      /\ UNCHANGED <<time, summary, promise, job, lastRun, snapshots, requests>>
  BY DEF Snapshots!ListWallets, Snapshots!SnapshotsInv, Snapshots!Types
<1>2. /\ cycle[k] \in Snapshots!Work /\ cycle[k].tried = 0
  BY <1>1, CycleTypes DEF Snapshots!SnapshotsInv, Snapshots!Counted
<1>3. work \in Snapshots!Work /\ work.at = "next" /\ work.wallet = 1 /\ work.tried = 0
  <2>1. 1 \in 0 .. NumWallets + 1
    BY DEF Snapshots!SnapshotsAssumption
  <2> QED
    BY <1>2, <2>1 DEF Snapshots!Work
<1> HIDE DEF work
<1>4. Snapshots!Types'
  BY <1>1, <1>3 DEF Snapshots!SnapshotsInv, Snapshots!Types
<1>5. \A j \in Snapshots!Cycle : cycle'[j] = IF j = k THEN work ELSE cycle[j]
  BY <1>1 DEF Snapshots!SnapshotsInv, Snapshots!Types
<1>6. Snapshots!Aged'
  BY <1>1 DEF Snapshots!SnapshotsInv, Snapshots!Aged, Snapshots!IsPartial
<1>7. Snapshots!Counted'
  BY <1>3, <1>5 DEF Snapshots!SnapshotsInv, Snapshots!Counted, Snapshots!Wallet
<1>8. Snapshots!Alone'
  BY <1>1, <1>3, <1>5 DEF Snapshots!SnapshotsInv, Snapshots!Alone, Snapshots!Runs
<1>9. Snapshots!Recorded'
  <2>1. \A s \in snapshots : s.cycle \in Snapshots!Cycle /\ s.cycle # k
    BY <1>1 DEF Snapshots!SnapshotsInv, Snapshots!Types, Snapshots!Row, Snapshots!Recorded
  <2> QED
    BY <1>1, <1>3, <1>5, <2>1 DEF Snapshots!SnapshotsInv, Snapshots!Recorded,
       Snapshots!IsPartial, Snapshots!Young, Snapshots!Runs
<1> QED
  BY <1>4, <1>6, <1>7, <1>8, <1>9 DEF Snapshots!SnapshotsInv

LEMMA TakeWalletKeeps ==
  ASSUME Snapshots!SnapshotsAssumption, Snapshots!SnapshotsInv, NEW k \in Snapshots!Cycle,
         Snapshots!TakeWallet(k)
  PROVE  Snapshots!SnapshotsInv'
<1> DEFINE w == cycle[k].wallet
<1>1. /\ cycle[k].at = "next" /\ w <= NumWallets
      /\ UNCHANGED <<time, summary, job, lastRun, snapshots, requests>>
  BY DEF Snapshots!TakeWallet
<1>2. /\ cycle[k] \in Snapshots!Work /\ w = cycle[k].tried + 1 /\ w \in Snapshots!Wallet
      /\ cycle[k].tried \in 0 .. NumWallets
  BY <1>1, CycleTypes DEF Snapshots!SnapshotsInv, Snapshots!Counted, Snapshots!Wallet,
     Snapshots!SnapshotsAssumption
<1>3. ASSUME NEW work \in Snapshots!Work \union Snapshots!Inserting, GoesOn(cycle[k], work),
             cycle' = [cycle EXCEPT ![k] = work]
      PROVE  /\ cycle' \in [Snapshots!Cycle -> Snapshots!Work \union Snapshots!Inserting]
             /\ \A j \in Snapshots!Cycle : cycle'[j] = cycle[j] \/ GoesOn(cycle[j], cycle'[j])
  BY <1>3 DEF Snapshots!SnapshotsInv, Snapshots!Types
<1>4. CASE Snapshots!Fresh(w)
  <2> DEFINE v == summary[w].value
  <2>1. cycle' = [cycle EXCEPT ![k] = Snapshots!Captured(k, v)] /\ promise' = promise
    BY <1>4 DEF Snapshots!TakeWallet
  <2>2. /\ v \in Snapshots!Value /\ time < summary[w].expires /\ summary[w].expires \in Nat
        /\ ~Snapshots!IsPartial(v) => summary[w].expires <= v.asked + FetchTime + SummaryTtl
    BY <1>2, <1>4, SummaryTypes DEF Snapshots!SnapshotsInv, Snapshots!Fresh, Snapshots!Aged
  <2>3. Snapshots!IsPartial(v) \/ Snapshots!Young(v, time)
    BY <2>2 DEF Snapshots!Young, Snapshots!Value, Snapshots!SnapshotsAssumption,
       Snapshots!SnapshotsInv, Snapshots!Types
  <2>4. Snapshots!Captured(k, v) \in Snapshots!Work \union Snapshots!Inserting
          /\ GoesOn(cycle[k], Snapshots!Captured(k, v))
    BY <1>1, <1>2, <2>2, <2>3, CapturedGoesOn
  <2>5. /\ cycle' \in [Snapshots!Cycle -> Snapshots!Work \union Snapshots!Inserting]
        /\ \A j \in Snapshots!Cycle : cycle'[j] = cycle[j] \/ GoesOn(cycle[j], cycle'[j])
    BY <1>3, <2>1, <2>4
  <2>6. Snapshots!Types' /\ Snapshots!Aged'
    BY <1>1, <2>1, <2>5 DEF Snapshots!SnapshotsInv, Snapshots!Types, Snapshots!Aged,
       Snapshots!IsPartial
  <2> QED
    BY <1>1, <2>5, <2>6, GoesOnKeeps, GoesOnRecords DEF Snapshots!SnapshotsInv
<1>5. CASE ~Snapshots!Fresh(w)
  <2> DEFINE work == [cycle[k] EXCEPT !.at = "waiting"]
  <2>1. cycle' = [cycle EXCEPT ![k] = work] /\ promise' = Snapshots!Shared(w)
    BY <1>5 DEF Snapshots!TakeWallet, Snapshots!SnapshotsInv, Snapshots!Types
  <2>2. work \in Snapshots!Work /\ work.at = "waiting" /\ work.wallet = w
          /\ work.tried = cycle[k].tried
    BY <1>2 DEF Snapshots!Work
  <2> HIDE DEF work
  <2>3. work \in Snapshots!Work \union Snapshots!Inserting /\ GoesOn(cycle[k], work)
    BY <1>1, <1>2, <2>2 DEF GoesOn, Snapshots!Wallet, Snapshots!SnapshotsAssumption
  <2>4. /\ cycle' \in [Snapshots!Cycle -> Snapshots!Work \union Snapshots!Inserting]
        /\ \A j \in Snapshots!Cycle : cycle'[j] = cycle[j] \/ GoesOn(cycle[j], cycle'[j])
    BY <1>3, <2>1, <2>3
  <2>5. /\ promise' \in [Snapshots!Wallet -> Snapshots!Promise \union {Snapshots!NoPromise}]
        /\ \A u \in Snapshots!Wallet : promise'[u] = promise[u] \/ promise'[u].asked = time
    BY <1>2, <2>1, SharedTypes
  <2>6. Snapshots!Types'
    BY <1>1, <2>4, <2>5 DEF Snapshots!SnapshotsInv, Snapshots!Types
  <2>7. Snapshots!Aged'
    <3> SUFFICES ASSUME NEW u \in Snapshots!Wallet, promise'[u] # Snapshots!NoPromise
                 PROVE  promise'[u].asked <= time /\ time <= promise'[u].asked + FetchTime
      BY <1>1 DEF Snapshots!SnapshotsInv, Snapshots!Aged, Snapshots!IsPartial
    <3> QED
      BY <2>5 DEF Snapshots!SnapshotsInv, Snapshots!Types, Snapshots!Aged,
         Snapshots!SnapshotsAssumption
  <2> QED
    BY <1>1, <2>4, <2>6, <2>7, GoesOnKeeps, GoesOnRecords DEF Snapshots!SnapshotsInv
<1> QED
  BY <1>4, <1>5

LEMMA InsertKeeps ==
  ASSUME Snapshots!SnapshotsAssumption, Snapshots!SnapshotsInv, NEW k \in Snapshots!Cycle,
         Snapshots!Insert(k)
  PROVE  Snapshots!SnapshotsInv'
<1> DEFINE newRow == [wallet |-> cycle[k].wallet, value |-> cycle[k].value,
                   captured |-> cycle[k].captured, cycle |-> k]
           new(answered) == [at |-> "next", wallet |-> cycle[k].wallet + 1,
                             tried |-> cycle[k].tried + 1,
                             failed |-> cycle[k].failed \/ ~answered, first |-> cycle[k].first]
<1>1. PICK answered \in BOOLEAN :
        /\ cycle[k].at = "inserting"
        /\ snapshots' \in {snapshots, snapshots \union {newRow}}
        /\ cycle' = [cycle EXCEPT ![k] = new(answered)]
  BY DEF Snapshots!Insert
<1>2. UNCHANGED <<time, summary, promise, job, lastRun, requests>>
  BY DEF Snapshots!Insert
<1> DEFINE work == new(answered)
<1>3. /\ cycle[k] \in Snapshots!Inserting /\ cycle[k].wallet = cycle[k].tried + 1
      /\ cycle[k].wallet \in Snapshots!Wallet /\ cycle[k].tried \in 0 .. NumWallets
      /\ cycle[k].failed \in BOOLEAN /\ cycle[k].first \in BOOLEAN
      /\ cycle[k].value \in Snapshots!Value /\ cycle[k].captured \in 0 .. SnapshotsTime
      /\ ~Snapshots!IsPartial(cycle[k].value) /\ Snapshots!Young(cycle[k].value, cycle[k].captured)
  BY <1>1, CycleTypes DEF Snapshots!SnapshotsInv, Snapshots!Counted, Snapshots!Inserting,
     Snapshots!Recorded
<1>4. newRow \in Snapshots!Row
  BY <1>3 DEF Snapshots!Row
<1>5. work \in Snapshots!Work
  <2>1. (cycle[k].failed \/ ~answered) \in BOOLEAN
    OBVIOUS
  <2>2. cycle[k].wallet + 1 \in 0 .. NumWallets + 1 /\ cycle[k].tried + 1 \in 0 .. NumWallets
    BY <1>3 DEF Snapshots!Wallet, Snapshots!SnapshotsAssumption
  <2> DEFINE failed == cycle[k].failed \/ ~answered
  <2>3. work = [at |-> "next", wallet |-> cycle[k].wallet + 1, tried |-> cycle[k].tried + 1,
                failed |-> failed, first |-> cycle[k].first]
    BY Zenon
  <2>4. failed \in BOOLEAN
    BY <2>1
  <2> HIDE DEF failed, work
  <2> QED
    BY <1>3, <2>2, <2>3, <2>4 DEF Snapshots!Work
<1>6. work.at = "next" /\ work.wallet = cycle[k].wallet + 1 /\ work.tried = cycle[k].tried + 1
  OBVIOUS
<1>7. cycle' = [cycle EXCEPT ![k] = work]
  BY <1>1
<1>8. newRow.wallet = cycle[k].wallet /\ newRow.value = cycle[k].value /\ newRow.cycle = k
      /\ newRow.captured = cycle[k].captured
  OBVIOUS
<1> HIDE DEF work, newRow
<1>9. GoesOn(cycle[k], work)
  BY <1>1, <1>3, <1>6 DEF GoesOn, Snapshots!Wallet
<1>10. /\ cycle' \in [Snapshots!Cycle -> Snapshots!Work \union Snapshots!Inserting]
       /\ \A j \in Snapshots!Cycle : cycle'[j] = IF j = k THEN work ELSE cycle[j]
  BY <1>5, <1>7 DEF Snapshots!SnapshotsInv, Snapshots!Types
<1>11. \A j \in Snapshots!Cycle : cycle'[j] = cycle[j] \/ GoesOn(cycle[j], cycle'[j])
  BY <1>9, <1>10
<1>12. Snapshots!Types'
  BY <1>1, <1>2, <1>4, <1>10 DEF Snapshots!SnapshotsInv, Snapshots!Types
<1>13. Snapshots!Aged'
  BY <1>2 DEF Snapshots!SnapshotsInv, Snapshots!Aged, Snapshots!IsPartial
<1>14. Snapshots!Counted' /\ Snapshots!Alone'
  BY <1>2, <1>11, GoesOnKeeps DEF Snapshots!SnapshotsInv
<1>15. Snapshots!Recorded'
  <2>1. ASSUME NEW s \in snapshots
        PROVE  /\ s.cycle \in Snapshots!Cycle /\ s.wallet \in Nat
               /\ ~Snapshots!IsPartial(s.value) /\ Snapshots!Young(s.value, s.captured)
               /\ cycle[s.cycle].at \notin {"unused", "listing"}
               /\ Snapshots!Runs(s.cycle) => s.wallet < cycle[s.cycle].wallet
    BY DEF Snapshots!SnapshotsInv, Snapshots!Types, Snapshots!Row, Snapshots!Recorded,
       Snapshots!Wallet
  <2>2. ASSUME NEW s \in snapshots
        PROVE  /\ cycle'[s.cycle].at \notin {"unused", "listing"}
               /\ Snapshots!Runs(s.cycle)' => s.wallet < cycle'[s.cycle].wallet
               /\ s.cycle = k => s.wallet < cycle[k].wallet
    <3>1. Snapshots!Runs(k)
      BY <1>1 DEF Snapshots!Runs
    <3>2. cycle[k].wallet \in Nat
      BY <1>3 DEF Snapshots!Wallet
    <3>3. CASE s.cycle = k
      BY <1>6, <1>10, <2>1, <3>1, <3>2, <3>3
    <3>4. CASE s.cycle # k
      BY <1>10, <2>1, <3>4 DEF Snapshots!Runs
    <3> QED
      BY <3>3, <3>4
  <2>3. \A s \in snapshots : ~(s.wallet = newRow.wallet /\ s.cycle = newRow.cycle)
    BY <1>3, <1>8, <2>1, <2>2 DEF Snapshots!Wallet
  <2>4. /\ ~Snapshots!IsPartial(newRow.value) /\ Snapshots!Young(newRow.value, newRow.captured)
        /\ cycle'[newRow.cycle].at \notin {"unused", "listing"}
        /\ newRow.wallet < cycle'[newRow.cycle].wallet
    BY <1>3, <1>6, <1>8, <1>10 DEF Snapshots!Wallet
  <2>5. \A j \in Snapshots!Cycle : cycle'[j].at = "inserting" =>
          ~Snapshots!IsPartial(cycle'[j].value)
            /\ Snapshots!Young(cycle'[j].value, cycle'[j].captured)
    BY <1>6, <1>10 DEF Snapshots!SnapshotsInv, Snapshots!Recorded
  <2>6. \A s \in snapshots' :
          /\ ~Snapshots!IsPartial(s.value) /\ Snapshots!Young(s.value, s.captured)
          /\ cycle'[s.cycle].at \notin {"unused", "listing"}
          /\ Snapshots!Runs(s.cycle)' => s.wallet < cycle'[s.cycle].wallet
    BY <1>1, <2>1, <2>2, <2>4
  <2>7. \A s, t \in snapshots' : t.wallet = s.wallet /\ t.cycle = s.cycle => t = s
    <3>1. \A s, t \in snapshots : t.wallet = s.wallet /\ t.cycle = s.cycle => t = s
      BY DEF Snapshots!SnapshotsInv, Snapshots!Recorded
    <3> QED
      BY <1>1, <2>3, <3>1
  <2> QED
    BY <2>5, <2>6, <2>7 DEF Snapshots!Recorded, Snapshots!IsPartial, Snapshots!Young
<1> QED
  BY <1>12, <1>13, <1>14, <1>15 DEF Snapshots!SnapshotsInv

LEMMA SnapshotsInit ==
  ASSUME Snapshots!SnapshotsAssumption, Snapshots!Init PROVE Snapshots!SnapshotsInv
<1>1. Snapshots!Types
  BY DEF Snapshots!SnapshotsAssumption, Snapshots!Init, Snapshots!Types, Snapshots!Work
<1>2. Snapshots!Aged
  BY DEF Snapshots!Init, Snapshots!Aged
<1>3. Snapshots!Counted /\ Snapshots!Alone /\ Snapshots!Recorded
  BY DEF Snapshots!Init, Snapshots!Counted, Snapshots!Alone, Snapshots!Runs, Snapshots!Recorded
<1> QED
  BY <1>1, <1>2, <1>3 DEF Snapshots!SnapshotsInv

LEMMA SnapshotsNext ==
  ASSUME Snapshots!SnapshotsAssumption, Snapshots!SnapshotsInv, [Snapshots!Next]_Snapshots!vars
  PROVE  Snapshots!SnapshotsInv'
<1>1. CASE Snapshots!Next
  <2>1. ASSUME NEW w \in Snapshots!Wallet,
               Snapshots!HoldingsSettle(w) \/ Snapshots!PositionsSettle(w)
        PROVE  Snapshots!SnapshotsInv'
    <3>1. \/ \E outcome \in Outcome("holdings") : Snapshots!Settle(w, "holdings", outcome)
          \/ \E outcome \in Outcome("positions") : Snapshots!Settle(w, "positions", outcome)
      BY <2>1 DEF Snapshots!HoldingsSettle, Snapshots!PositionsSettle, Outcome
    <3> QED
      BY <3>1, SnapshotsSettleKeeps
  <2>2. ASSUME NEW w \in Snapshots!Wallet, Snapshots!AskPerformance({w})
        PROVE  Snapshots!SnapshotsInv'
    BY <2>2, AskPerformanceKeeps
  <2>3. CASE Snapshots!AskPerformance(Snapshots!Wallet)
    BY <2>3, AskPerformanceKeeps
  <2> QED
    BY <1>1, <2>1, <2>2, <2>3, SnapshotsTickKeeps, StartsKeep, EndsKeep, ListWalletsKeeps,
       TakeWalletKeeps, InsertKeeps DEF Snapshots!Next
<1>2. CASE UNCHANGED Snapshots!vars
  BY <1>2 DEF Snapshots!vars, Snapshots!SnapshotsInv, Snapshots!Types, Snapshots!Aged,
     Snapshots!Counted, Snapshots!Alone, Snapshots!Recorded, Snapshots!Runs,
     Snapshots!IsPartial, Snapshots!Young
<1> QED
  BY <1>1, <1>2

\* The invariant of the snapshots holds.
THEOREM SnapshotsInvariant ==
  ASSUME Snapshots!SnapshotsAssumption
  PROVE  Snapshots!Spec => []Snapshots!SnapshotsInv
<1>1. Snapshots!Init => Snapshots!SnapshotsInv
  BY SnapshotsInit
<1>2. Snapshots!SnapshotsInv /\ [Snapshots!Next]_Snapshots!vars => Snapshots!SnapshotsInv'
  BY SnapshotsNext
<1> QED
  BY <1>1, <1>2, PTL DEF Snapshots!Spec

LEMMA SnapshotsInvImplies ==
  ASSUME Snapshots!SnapshotsAssumption, Snapshots!SnapshotsInv
  PROVE  Snapshots!TypeOK /\ Snapshots!SnapshotsSound
<1>1. Snapshots!TypeOK
  <2>1. \A w \in Snapshots!Wallet :
          /\ summary[w] = Snapshots!None \/ summary[w].value \in Snapshots!Value
          /\ promise[w] = Snapshots!NoPromise
             \/ /\ promise[w].holdings \in Snapshots!Outcome \union {"pending", "failed"}
                /\ promise[w].positions \in Snapshots!PositionsOutcome \union {"pending", "failed"}
    BY SummaryTypes DEF Snapshots!SnapshotsInv, Snapshots!Promise
  <2>2. \A k \in Snapshots!Cycle :
          /\ cycle[k].at \in {"unused", "listing", "next", "waiting", "inserting", "over"}
          /\ cycle[k].wallet \in 0 .. NumWallets + 1 /\ cycle[k].tried \in 0 .. NumWallets
    BY CycleTypes DEF Snapshots!SnapshotsInv, Snapshots!Work
  <2>3. \A s \in snapshots : s.wallet \in Snapshots!Wallet /\ s.value \in Snapshots!Value
          /\ s.captured \in 0 .. SnapshotsTime
    BY DEF Snapshots!SnapshotsInv, Snapshots!Types, Snapshots!Row
  <2> QED
    BY <2>1, <2>2, <2>3 DEF Snapshots!SnapshotsInv, Snapshots!Types, Snapshots!TypeOK
<1>2. ASSUME NEW v \in Snapshots!Value, ~Snapshots!IsPartial(v)
      PROVE  {v.holdings, v.positions} \subseteq {"complete", "underpriced"}
  BY <1>2 DEF Snapshots!Value, Snapshots!Outcome, Snapshots!PositionsOutcome, Snapshots!IsPartial
<1>3. Snapshots!SnapshotsSound
  BY <1>2 DEF Snapshots!Types, Snapshots!Row, Snapshots!SnapshotsInv, Snapshots!Recorded, Snapshots!Counted, Snapshots!Alone,
     Snapshots!Runs, Snapshots!Young, Snapshots!SnapshotsSound
<1> QED
  BY <1>1, <1>3

-----------------------------------------------------------------------------
(* All parts.                                                              *)

\* Whatever calls overlap, fail, time out or come late, and whatever address the wallet is given
\* meanwhile: a kept answer about holdings is about one address, live when it says so, and complete
\* only while each of its chains is young and its address is not long gone
\* (holdings.service.js). The database must not be later than a complete answer is kept.
THEOREM HoldingsAreHonest == Spec => []HonestAnswers
<1>1. HoldingsInv => HonestAnswers
  BY HoldingsInvImplies, PortfolioAssumption
<1>2. Spec => []HoldingsInv
  BY HoldingsInvariant, PortfolioAssumption
<1> QED
  BY <1>1, <1>2, PTL

\* The same of positions: what stands in for a failed call is of bounded age, a row of the database
\* is in an incomplete list result only and no older than it may be (positions.service.js,
\* positions.provider.js).
THEOREM PositionsAreHonest == Positions!Spec => []HonestPositions
<1>1. Positions!PositionsInv => HonestPositions
  BY PositionsInvImplies, PortfolioAssumption DEF HonestPositions
<1>2. Positions!Spec => []Positions!PositionsInv
  BY PositionsInvariant, PortfolioAssumption
<1> QED
  BY <1>1, <1>2, PTL

\* While there is a detail result, no list request puts its own in its place, whatever came between
\* its look at memory and its rows (newlyCachedPositions of positions.service.js).
THEOREM DetailResultsStay == Positions!Spec => DetailResultKept
  BY DetailResultsAreKept, PortfolioAssumption DEF DetailResultKept

\* However cycles, performance requests and the two calls of a summary overlap: a snapshot is of a
\* summary whose holdings and positions were all there, if not all with a price, and which was asked
\* for shortly before; it is the only one of its wallet and cycle, one cycle runs at a time and one
\* that has its list tries every wallet once (performance.service.js, performance.job.js).
THEOREM SnapshotsAreSound == Snapshots!Spec => []SnapshotsSound
<1>1. Snapshots!SnapshotsInv => SnapshotsSound
  BY SnapshotsInvImplies, PortfolioAssumption DEF SnapshotsSound
<1>2. Snapshots!Spec => []Snapshots!SnapshotsInv
  BY SnapshotsInvariant, PortfolioAssumption
<1> QED
  BY <1>1, <1>2, PTL

\* The variables of every part keep their types, in every behaviour of all parts together.
THEOREM PortfolioTypesHold == PortfolioSpec => []TypesOK
<1>1. HoldingsInv /\ Positions!PositionsInv /\ Snapshots!SnapshotsInv => TypesOK
  BY HoldingsInvImplies, PositionsInvImplies, SnapshotsInvImplies, PortfolioAssumption DEF TypesOK
<1>2. Spec => []HoldingsInv
  BY HoldingsInvariant, PortfolioAssumption
<1>3. Positions!Spec => []Positions!PositionsInv
  BY PositionsInvariant, PortfolioAssumption
<1>4. Snapshots!Spec => []Snapshots!SnapshotsInv
  BY SnapshotsInvariant, PortfolioAssumption
<1> QED
  BY <1>1, <1>2, <1>3, <1>4, PTL DEF PortfolioSpec
=============================================================================
