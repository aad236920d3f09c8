---------------------------- MODULE AddressWatch ----------------------------
(***************************************************************************)
(* What the reconciliation of watched addresses promises, without workers, *)
(* locks, leases or transactions: a set of desired pairs, the set the      *)
(* provider watches, and the pairs known to need attention. A pair leaves  *)
(* the dirty set only when the provider agrees with the database about it, *)
(* unless the watch was changed from outside since it was last inspected.  *)
(***************************************************************************)
CONSTANT Pair

VARIABLES
  desired,    \* the pairs the database wants watched
  watched,    \* the pairs the provider watches
  dirty,      \* the pairs with a marker
  disturbed   \* the pairs changed from outside since last inspected or marked

watchVars == <<desired, watched, dirty, disturbed>>

WatchInit ==
  /\ desired = {}
  /\ watched = {}
  /\ dirty = {}
  /\ disturbed = {}

\* Pairs whose desired state changes are marked in the same step; pairs may
\* also be marked without a change.
Change(pairs, wanted) ==
  /\ \A p \in Pair \ pairs : (p \in wanted) = (p \in desired)
  /\ desired' = wanted
  /\ dirty' = dirty \union pairs
  /\ disturbed' = disturbed \ pairs
  /\ UNCHANGED watched

\* The provider is brought in line with the database, for marked pairs only.
Apply(p) ==
  /\ p \in dirty
  /\ watched' = IF p \in desired THEN watched \union {p} ELSE watched \ {p}
  /\ UNCHANGED <<desired, dirty, disturbed>>

Inspect(p) ==
  /\ p \in dirty
  /\ disturbed' = disturbed \ {p}
  /\ UNCHANGED <<desired, watched, dirty>>

Settle(p) ==
  /\ p \in dirty
  /\ (p \in watched) = (p \in desired) \/ p \in disturbed
  /\ dirty' = dirty \ {p}
  /\ UNCHANGED <<desired, watched, disturbed>>

Drift(p) ==
  /\ watched' = IF p \in watched THEN watched \ {p} ELSE watched \union {p}
  /\ disturbed' = disturbed \union {p}
  /\ UNCHANGED <<desired, dirty>>

WatchNext ==
  \/ \E pairs, wanted \in SUBSET Pair : Change(pairs, wanted)
  \/ \E p \in Pair : Apply(p) \/ Inspect(p) \/ Settle(p) \/ Drift(p)

WatchSpec == WatchInit /\ [][WatchNext]_watchVars

\* Every pair on which provider and database differ is marked or was disturbed.
Covered ==
  \A p \in Pair : (p \in watched) # (p \in desired) => p \in dirty \/ p \in disturbed
=============================================================================
