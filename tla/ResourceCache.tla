---------------------------- MODULE ResourceCache ----------------------------
(****************************************************************************)
(* One section of the Agent's resource cache (pkg/agent/resourcecache): a   *)
(* reflector of client-go fills the store from a LIST and a WATCH, totals   *)
(* are kept beside the objects by adding and subtracting, and queries page  *)
(* over the keys that matched when their first page was read.               *)
(*                                                                          *)
(* An object is a key and the number it contributes to a total.  The API    *)
(* server and the reflector are modelled by what they deliver: the events   *)
(* of a watch in order, and a LIST read in chunks that may hold an object   *)
(* twice.  Objects that cannot be projected are left out.                   *)
(****************************************************************************)
EXTENDS Naturals, Sequences, FiniteSets, FiniteSetsExt

CONSTANTS Objects,     \* the keys, numbers, in the order of a listing
          Amounts,     \* what an object may contribute
          Gone,        \* in place of an amount: the object is deleted
          Ceiling,     \* math.MaxInt64: where a total saturates
          Readers,     \* clients that walk a query page by page
          Limits,      \* the page sizes they ask for
          MaxPaging,   \* maxPagingSessions
          MaxEvents    \* bound: changes in the cluster

(***************************************************************************)
(* A page has room for something (Summaries), 0 is not a key, and no       *)
(* Cluster is so large that a total of it saturates (addScaled).           *)
(***************************************************************************)
ASSUME ResourceCacheAssumption ==
    /\ Objects \subseteq Nat \ {0} /\ IsFiniteSet(Objects)
    /\ Amounts \subseteq Nat /\ Gone \notin Amounts /\ Ceiling \in Nat
    /\ \E largest \in 0 .. Ceiling :
          /\ \A amount \in Amounts : amount <= largest
          /\ Cardinality(Objects) * largest <= Ceiling
    /\ IsFiniteSet(Readers) /\ Limits \subseteq Nat \ {0}
    /\ MaxPaging \in Nat \ {0} /\ MaxEvents \in Nat

VARIABLES stored,  \* the objects at the API server
          events,  \* the changes the watch has not delivered yet
          items,   \* store.items
          totals,  \* store.totals: how many objects, and their sum
          section, \* store.synced and store.failureCode
          paging,  \* the paging sessions, oldest first
          walk,    \* per reader: its page token and what it has seen
          changed  \* how many changes there were

storeVars == <<items, totals, section>>
clusterVars == <<stored, events, changed>>
cacheVars == <<clusterVars, storeVars, paging, walk>>

NoItems == [k \in {} |-> 0]
NoTotals == [count |-> 0, sum |-> 0]
NotSeen == [o \in Objects |-> 0]
NoWalk == [session |-> 0, offset |-> 0, seen |-> NotSeen, stayed |-> {}, done |-> FALSE]

\* sort.Slice, and the order of a LIST
InOrder(S) ==
    CHOOSE keys \in [1 .. Cardinality(S) -> S] :
        \A i, j \in 1 .. Cardinality(S) : i < j => keys[i] < keys[j]

\* addScaled: the sum saturates and never falls below zero.
Plus(sum, amount) == IF sum > Ceiling - amount THEN Ceiling ELSE sum + amount
Minus(sum, amount) == IF sum < amount THEN 0 ELSE sum - amount

Added(t, amount) == [count |-> t.count + 1, sum |-> Plus(t.sum, amount)]
Removed(t, amount) == [count |-> Minus(t.count, 1), sum |-> Minus(t.sum, amount)]

Put(content, o, amount) ==
    [k \in DOMAIN content \cup {o} |-> IF k = o THEN amount ELSE content[k]]
ItemsWithout(content, o) == [k \in DOMAIN content \ {o} |-> content[k]]

RCInit ==
    /\ stored \in [Objects -> Amounts] /\ events = <<>> /\ changed = 0
    /\ items = NoItems
    /\ totals = NoTotals
    /\ section = [synced |-> FALSE, failed |-> FALSE, watching |-> FALSE]
    /\ paging = <<>>
    /\ walk = [r \in Readers |-> NoWalk]

\* An object is created, updated or deleted in the cluster.
ObjectChanges(o, amount) ==
    /\ changed < MaxEvents
    /\ amount = Gone => o \in DOMAIN stored
    /\ stored' = IF amount = Gone THEN ItemsWithout(stored, o) ELSE Put(stored, o, amount)
    /\ changed' = changed + 1
    /\ events' = IF section.watching
                 THEN Append(events, [object |-> o, amount |-> amount])
                 ELSE events
    /\ UNCHANGED <<storeVars, paging, walk>>

\* What a reader was promised is kept while the object stays cached.
Stays(o) == walk' = [r \in Readers |-> [walk[r] EXCEPT !.stayed = @ \ o]]

\* Faulty: an update counts like a new object.
UpsertAdds(o, amount) ==
    /\ items' = Put(items, o, amount)
    /\ totals' = Added(totals, amount)
    /\ UNCHANGED walk

\* What both upsert and Replace do with an object: what it counted for comes out
\* before what it counts for now goes in.
With(content, o, amount) ==
    [items  |-> Put(content.items, o, amount),
     totals |-> Added(IF o \in DOMAIN content.items
                      THEN Removed(content.totals, content.items[o])
                      ELSE content.totals, amount)]

\* store.upsert, as Add or Update
Upsert(o, amount) ==
    /\ LET next == With([items |-> items, totals |-> totals], o, amount)
       IN  items' = next.items /\ totals' = next.totals
    /\ UNCHANGED walk

\* store.Delete, also of a tombstone
Delete(o) ==
    /\ items' = ItemsWithout(items, o)
    /\ totals' = IF o \in DOMAIN items THEN Removed(totals, items[o]) ELSE totals
    /\ Stays({o})

WatchDelivers ==
    /\ section.watching
    /\ events # <<>>
    /\ IF Head(events).amount = Gone THEN Delete(Head(events).object)
       ELSE Upsert(Head(events).object, Head(events).amount)
    /\ events' = Tail(events)
    /\ UNCHANGED <<stored, changed, section, paging>>

\* ListAndWatch ends with an error or without one; follow records which.
WatchEnds(failed) ==
    /\ section.watching
    /\ section' = [section EXCEPT !.watching = FALSE, !.failed = @ \/ failed]
    /\ events' = <<>>
    /\ UNCHANGED <<stored, changed, items, totals, paging, walk>>

\* A LIST of the cluster: an object that moved between two chunks of it comes first
\* with an amount it had.
Listed(twice, earlier) ==
    LET keys == InOrder(DOMAIN stored)
    IN  (IF twice \in DOMAIN stored
         THEN <<[object |-> twice, amount |-> earlier]>> ELSE <<>>)
        \o [i \in 1 .. Cardinality(DOMAIN stored) |->
               [object |-> keys[i], amount |-> stored[keys[i]]]]

\* The loop of Replace: what is built after each entry of the list.
Builds(list) ==
    LET built[i \in 0 .. Len(list)] ==
            IF i = 0 THEN [items |-> NoItems, totals |-> NoTotals]
            ELSE With(built[i - 1], list[i].object, list[i].amount)
    IN  built

\* store.Replace, as the reflector calls it with a LIST
Relists(twice, earlier) ==
    LET list == Listed(twice, earlier)
        built == Builds(list)[Len(list)]
    IN  /\ ~section.watching
        /\ items' = built.items
        /\ totals' = built.totals
        /\ section' = [synced |-> TRUE, failed |-> FALSE, watching |-> TRUE]
        /\ Stays(DOMAIN items \ DOMAIN stored)
        /\ UNCHANGED <<clusterVars, paging>>

-----------------------------------------------------------------------------

Served == section.synced /\ ~section.failed

\* cut: a page shows what is still cached of the window after offset.
Shows(seen, keys, offset, limit) ==
    [o \in Objects |->
        seen[o] + Cardinality({i \in DOMAIN keys : /\ offset < i /\ i <= offset + limit
                                                   /\ keys[i] = o /\ o \in DOMAIN items})]

\* A random identifier: one that neither the table nor a token holds.
NewSession ==
    CHOOSE n \in 1 .. MaxPaging + Cardinality(Readers) + 1 :
        /\ \A i \in DOMAIN paging : paging[i].session # n
        /\ \A r \in Readers : walk[r].session # n

\* Faulty: opens one more session whatever the table holds.
OpenedAnyway(entry) == Append(paging, entry)

\* Expired sessions go first, then the oldest if the table is still full.
Opened(entry) ==
    Append(IF Len(paging) >= MaxPaging THEN Tail(paging) ELSE paging, entry)

FirstPage(r, limit) ==
    LET keys == InOrder(DOMAIN items)
        more == limit < Len(keys)
    IN  /\ walk[r].session = 0 /\ ~walk[r].done
        /\ Served
        /\ paging' = IF more THEN Opened([session |-> NewSession, keys |-> keys])
                             ELSE paging
        /\ walk' = [walk EXCEPT ![r] =
                       [session |-> IF more THEN NewSession ELSE 0,
                        offset |-> limit, seen |-> Shows(NotSeen, keys, 0, limit),
                        stayed |-> DOMAIN items, done |-> ~more]]
        /\ UNCHANGED <<clusterVars, storeVars>>

\* resume: where the table holds the session of a token.
Resumed(r) == {i \in DOMAIN paging : paging[i].session = walk[r].session}

\* Faulty: the next page begins one too late.
ContinuePageSkipping(r, limit) ==
    /\ walk[r].session # 0
    /\ Served
    /\ \E i \in Resumed(r) :
         LET keys == paging[i].keys
             more == walk[r].offset + limit < Len(keys)
         IN  walk' = [walk EXCEPT ![r] =
                         [session |-> IF more THEN @.session ELSE 0,
                          offset |-> @.offset + limit + 1,
                          seen |-> Shows(@.seen, keys, @.offset, limit),
                          stayed |-> @.stayed, done |-> ~more]]
    /\ UNCHANGED <<clusterVars, storeVars, paging>>

\* resume, cut and advance; the next token holds the offset after this page.
ContinuePage(r, limit) ==
    /\ walk[r].session # 0
    /\ Served
    /\ \E i \in Resumed(r) :
         LET keys == paging[i].keys
             more == walk[r].offset + limit < Len(keys)
         IN  walk' = [walk EXCEPT ![r] =
                         [session |-> IF more THEN @.session ELSE 0,
                          offset |-> @.offset + limit,
                          seen |-> Shows(@.seen, keys, @.offset, limit),
                          stayed |-> @.stayed, done |-> ~more]]
    /\ UNCHANGED <<clusterVars, storeVars, paging>>

\* ErrPageToken: the session was evicted or has expired.
PageRefused(r) ==
    /\ walk[r].session # 0
    /\ Served
    /\ Resumed(r) = {}
    /\ walk' = [walk EXCEPT ![r] = NoWalk]
    /\ UNCHANGED <<clusterVars, storeVars, paging>>

SessionAges ==
    /\ paging # <<>>
    /\ paging' = Tail(paging)
    /\ UNCHANGED <<clusterVars, storeVars, walk>>

RCNext ==
    \/ \E o \in Objects, a \in Amounts \cup {Gone} : ObjectChanges(o, a)
    \/ WatchDelivers
    \/ \E failed \in BOOLEAN : WatchEnds(failed)
    \/ \E o \in Objects \cup {0}, a \in Amounts : Relists(o, a)
    \/ \E r \in Readers, limit \in Limits : FirstPage(r, limit) \/ ContinuePage(r, limit)
    \/ \E r \in Readers : PageRefused(r)
    \/ SessionAges

RCSpec == RCInit /\ [][RCNext]_cacheVars

RCTypeOK ==
    /\ DOMAIN items \subseteq Objects /\ DOMAIN stored \subseteq Objects
    /\ totals \in [count : Nat, sum : 0 .. Ceiling]
    /\ section \in [synced : BOOLEAN, failed : BOOLEAN, watching : BOOLEAN]
    /\ Len(paging) <= MaxPaging
    /\ \A r \in Readers : walk[r].stayed \subseteq Objects

(***************************************************************************)
(* The totals, never recomputed from the objects, are what the cached      *)
(* objects add up to, through updates, deletions and re-lists.             *)
(***************************************************************************)
TotalsMatchItems ==
    /\ totals.count = Cardinality(DOMAIN items)
    /\ totals.sum = FoldSet(LAMBDA o, sum : items[o] + sum, 0, DOMAIN items)

(****************************************************************************)
(* A walk that reaches its end has shown every object that was cached from  *)
(* its first page to its last exactly once, whatever else changed and       *)
(* whatever sizes its pages had.                                            *)
(****************************************************************************)
WalkIsComplete ==
    \A r \in Readers :
        walk[r].done =>
            /\ \A o \in walk[r].stayed : walk[r].seen[o] = 1
            /\ \A o \in Objects : walk[r].seen[o] <= 1
=============================================================================
