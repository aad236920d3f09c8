----------------------------- MODULE TokenPricing -----------------------------
(***************************************************************************)
(* How the requests of one process share the token prices of a chain       *)
(* (holdings.provider.js): a cache that keeps a price, or the knowledge    *)
(* that there is none, for five minutes; the calls in flight, by token; a  *)
(* queue in which the calls to the provider wait for one another; and a    *)
(* cool-down after an answer 429.                                          *)
(*                                                                         *)
(* A request sorts its tokens into those it finds in the cache, those that *)
(* another request is asking for, and the rest, which it asks for in       *)
(* chunks. Between two awaits the process runs one request only: an action *)
(* is what happens from one await to the next. Prices by symbol are looked *)
(* up the same way as those by address, in maps of their own.              *)
(***************************************************************************)
EXTENDS Integers, FiniteSets, Sequences

CONSTANTS
  Request,    \* requests for the holdings of a wallet
  NumTokens,  \* token contracts there are
  ChunkSize,  \* tokens of one call to the provider: 25
  Nobody      \* no request

VARIABLES
  cache,    \* priceCache: per token "none", "price" or "null"
  flight,   \* inFlightPricePromises: per token the request whose call it is
  queue,    \* pricingQueue: the requests whose calls wait, the first one is under way
  cool,     \* whether the cool-down is on
  request,  \* what each request is doing
  asked,    \* history: the tokens each request called the provider for
  trouble   \* history: per request, the tokens that had no price when it started, that the
            \* provider failed to price since, or that a slower request reported since

vars == <<cache, flight, queue, cool, request, asked, trouble>>

Token == 1 .. NumTokens

\* "price" per token: what priceMap will say; "reason": the tokens reasonMap says something of.
Fresh == [pc |-> "new", wants |-> {}, todo |-> {}, chunk |-> {}, waits |-> {},
          awaits |-> Nobody, price |-> [t \in Token |-> "none"], reason |-> {}]

Init ==
  /\ cache = [t \in Token |-> "none"]
  /\ flight = [t \in Token |-> Nobody]
  /\ queue = <<>>
  /\ cool = FALSE
  /\ request = [r \in Request |-> Fresh]
  /\ asked = [r \in Request |-> {}]
  /\ trouble = [r \in Request |-> {}]

-----------------------------------------------------------------------------
\* The first tokens of a set, as many as one call asks for.
FirstChunk(S) == {t \in S : Cardinality({u \in S : u < t}) < ChunkSize}

\* The tokens left without a reason were not in any answer; the cache is told so.
Ended(w) == [w EXCEPT !.pc = "done", !.chunk = {}, !.reason = w.wants]
Unanswered(w) == w.wants \ w.reason

FirstWait(w) == CHOOSE t \in w.waits : \A u \in w.waits : t <= u

\* A request goes on with the next chunk, or else with the tokens others were asking for, or
\* else it ends.
Proceed(r, w, inFlight, known, waiting) ==
  IF w.todo # {} THEN
    LET chunk == FirstChunk(w.todo)
    IN  /\ request' = [request EXCEPT ![r] =
             [w EXCEPT !.pc = "ask", !.chunk = chunk, !.todo = w.todo \ chunk]]
        /\ flight' = [t \in Token |-> IF t \in chunk THEN r ELSE inFlight[t]]
        /\ queue' = Append(waiting, r)
        /\ asked' = [asked EXCEPT ![r] = @ \union chunk]
        /\ cache' = known
  ELSE /\ IF w.waits # {}
          THEN /\ request' = [request EXCEPT ![r] =
                    [w EXCEPT !.pc = "wait", !.chunk = {}, !.awaits = inFlight[FirstWait(w)]]]
               /\ cache' = known
          ELSE /\ request' = [request EXCEPT ![r] = Ended(w)]
               /\ cache' = [t \in Token |-> IF t \in Unanswered(w) THEN "null" ELSE known[t]]
       /\ flight' = inFlight
       /\ queue' = waiting
       /\ asked' = asked

\* A request that has nothing to ask for ends at once.
StartAsking(r, w) ==
  IF w.todo = {}
  THEN /\ request' = [request EXCEPT ![r] = [w EXCEPT !.pc = "done", !.waits = {}]]
       /\ UNCHANGED <<cache, flight, queue, asked>>
  ELSE Proceed(r, w, flight, cache, queue)

Classify(r) ==
  /\ request[r].pc = "new"
  /\ \E tokens \in (SUBSET Token) \ {{}} :
       LET found   == {t \in tokens : cache[t] # "none"}
           limited == IF cool THEN tokens \ found ELSE {}
           shared  == {t \in tokens \ (found \union limited) : flight[t] # Nobody}
       IN  /\ StartAsking(r, [Fresh EXCEPT
                !.wants = tokens,
                !.todo = tokens \ (found \union limited \union shared),
                !.waits = shared,
                !.price = [t \in Token |-> CASE t \in found -> cache[t]
                                             [] t \in limited -> "null"
                                             [] OTHER -> "none"],
                !.reason = found \union limited])
           /\ trouble' = [trouble EXCEPT ![r] = {t \in found : cache[t] = "null"} \union limited]
  /\ UNCHANGED cool

-----------------------------------------------------------------------------
(* The provider.                                                           *)

LandedNever(chunk) == flight

\* The calls of the others, without those for the tokens of a chunk: whoever made them.
Landed(chunk) == [t \in Token |-> IF t \in chunk THEN Nobody ELSE flight[t]]

UnderWay(r) == request[r].pc = "ask" /\ queue # <<>> /\ Head(queue) = r

\* What a request that ends tells the cache: tokens that were missing in its answers, maybe
\* long ago and priced for another request by now.
Reported(w) == IF w.todo = {} /\ w.waits = {} THEN Unanswered(w) ELSE {}

\* Whoever is not done sees that the provider did not price a token.
Troubled(tokens) ==
  trouble' = [r \in Request |-> IF request[r].pc \in {"new", "done"} THEN trouble[r]
                                ELSE trouble[r] \union tokens]

\* The answer has a price for some tokens of the chunk, none for others, and misses the rest.
ProviderAnswers(r) ==
  /\ UnderWay(r)
  /\ \E priced, unpriced \in SUBSET request[r].chunk :
       /\ priced \intersect unpriced = {}
       /\ LET w == [request[r] EXCEPT
                      !.price = [t \in Token |-> CASE t \in priced -> "price"
                                                   [] t \in unpriced -> "null"
                                                   [] OTHER -> @[t]],
                      !.reason = @ \union priced \union unpriced]
              known == [t \in Token |-> CASE t \in priced -> "price"
                                          [] t \in unpriced -> "null"
                                          [] OTHER -> cache[t]]
          IN  /\ Proceed(r, w, Landed(request[r].chunk), known, Tail(queue))
              /\ Troubled((request[r].chunk \ priced) \union Reported(w))
  /\ UNCHANGED cool

\* The call fails; an answer 429 starts the cool-down. The cache is told that there is no
\* price, also when it has one by now.
ProviderFails(r) ==
  /\ UnderWay(r)
  /\ cool' \in {cool, TRUE}
  /\ LET chunk == request[r].chunk
         w == [request[r] EXCEPT
                 !.price = [t \in Token |-> IF t \in chunk THEN "null" ELSE @[t]],
                 !.reason = @ \union chunk]
     IN  /\ Proceed(r, w, Landed(chunk), [t \in Token |-> IF t \in chunk THEN "null" ELSE cache[t]],
                    Tail(queue))
         /\ Troubled(chunk \union Reported(w))

\* Whether the call of a request that another one awaits has ended.
CallEnded(q, t) == q # Nobody => t \notin request[q].chunk

\* The call another request made for the first awaited token has ended, or there was none any
\* more: the request looks into the cache and turns to the next one.
AwaitedEnds(r) ==
  /\ request[r].pc = "wait"
  /\ LET t == FirstWait(request[r])
         q == request[r].awaits
         w == [request[r] EXCEPT !.waits = @ \ {t},
                                 !.price[t] = IF cache[t] = "price" THEN "price" ELSE "null",
                                 !.reason = @ \union {t}]
     IN  /\ CallEnded(q, t)
         /\ Proceed(r, w, flight, cache, queue)
         /\ Troubled(Reported(w))
  /\ UNCHANGED cool

\* Five minutes are longer than a request takes: no entry it waits for expires.
EntryExpires(t) ==
  /\ cache[t] # "none"
  /\ \A r \in Request : t \notin request[r].waits
  /\ cache' = [cache EXCEPT ![t] = "none"]
  /\ UNCHANGED <<flight, queue, cool, request, asked, trouble>>

CoolDownEnds ==
  /\ cool
  /\ cool' = FALSE
  /\ UNCHANGED <<cache, flight, queue, request, asked, trouble>>

Next ==
  \/ \E r \in Request : Classify(r) \/ ProviderAnswers(r) \/ ProviderFails(r) \/ AwaitedEnds(r)
  \/ \E t \in Token : EntryExpires(t)
  \/ CoolDownEnds

Spec == Init /\ [][Next]_vars

-----------------------------------------------------------------------------
TypeOK ==
  /\ cache \in [Token -> {"none", "price", "null"}]
  /\ flight \in [Token -> Request \union {Nobody}]
  /\ queue \in Seq(Request)
  /\ cool \in BOOLEAN
  /\ request \in [Request ->
       [pc : {"new", "ask", "wait", "done"}, wants : SUBSET Token, todo : SUBSET Token,
        chunk : SUBSET Token, waits : SUBSET Token, awaits : Request \union {Nobody},
        price : [Token -> {"none", "price", "null"}], reason : SUBSET Token]]
  /\ asked \in [Request -> SUBSET Token]
  /\ trouble \in [Request -> SUBSET Token]

\* A token the provider prices at every call is priced in every request that calls the
\* provider at all, whoever asks for it and in whatever order the calls end. Only a request
\* that has nothing of its own to ask for leaves unpriced what another one is asking for
\* (holdings.provider.js:1059-1075).
UnpricedExplained ==
  \A r \in Request : request[r].pc = "done" =>
    \A t \in request[r].wants :
      \/ request[r].price[t] = "price"
      \/ t \in trouble[r]
      \/ asked[r] = {} /\ \E q \in Request \ {r} : t \in asked[q]

-----------------------------------------------------------------------------
(* The invariant of the proofs.                                            *)

NobodyAssumption == Nobody \notin Request

Asking(q, t) == q # Nobody /\ request[q].pc = "ask" /\ t \in request[q].chunk

Explained(r, t) == request[r].price[t] = "price" \/ t \in trouble[r]

\* A request knows of every token it wants where it stands: still to be asked for, in the call
\* it waits for, in another's, or explained.
Sorted(r) ==
  LET w == request[r]
  IN  /\ w.pc = "new" => asked[r] = {}
      /\ w.pc \in {"new", "done"} => w.waits = {}
      /\ w.pc # "ask" => w.chunk = {}
      /\ w.chunk \subseteq asked[r]
      /\ w.pc = "wait" => w.todo = {} /\ w.waits # {}
      /\ w.pc \in {"ask", "wait"} =>
           \A t \in w.wants \ (w.todo \union w.chunk \union w.waits) : Explained(r, t)

\* A token that another request asks for gets a price or trouble, or the call goes on; the call
\* the request awaits does.
Awaited(r) ==
  LET w == request[r]
  IN  \A t \in w.waits :
        \/ cache[t] = "price"
        \/ t \in trouble[r]
        \/ /\ flight[t] # Nobody
           /\ w.pc = "wait" /\ t = FirstWait(w) => Asking(w.awaits, t)

PricesInv ==
  /\ TypeOK
  /\ \A t \in Token : flight[t] # Nobody => Asking(flight[t], t)
  /\ \A r \in Request : Sorted(r) /\ Awaited(r)
  /\ UnpricedExplained
=============================================================================
