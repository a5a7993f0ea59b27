-------------------------- MODULE ClusterOverview --------------------------
(***************************************************************************)
(* The cache of cluster overviews (pkg/server/clusteroverview/service.go). *)
(* A snapshot answers while it is fresh, answers marked stale while a load *)
(* runs behind it, and then not at all; callers share the load of their    *)
(* Cluster; a failed load is not repeated for a while.  When the cache is  *)
(* full of entries in use a Cluster is loaded without an entry, and such a *)
(* load may end after later ones.                                          *)
(*                                                                         *)
(* An overview is the number of the load that made it; what a load reads   *)
(* is left out, and the time only moves an entry from one age to the next. *)
(***************************************************************************)
EXTENDS Naturals, FiniteSets

CONSTANTS OverviewClusters, \* Clusters callers ask about
          Callers,
          MaxCachedClusters,
          MaxLoads          \* bound: loads ever started

ASSUME OverviewAssumption ==
    /\ IsFiniteSet(OverviewClusters)
    /\ MaxCachedClusters \in Nat /\ MaxLoads \in Nat

VARIABLES overview, \* per Cluster: its cacheEntry, if the map has one
          load,     \* per load, in the order they are started
          started,  \* how many loads have been
          caller,   \* per caller: what Get waits for, and what it returned last
          told      \* history: per Cluster, the latest load a caller was answered from

overviewVars == <<overview, load, started, caller, told>>

Loads == 1 .. MaxLoads
NoLoad == 0

\* age of the snapshot: before freshUntil, before staleUntil, after it;
\* waiting: before retryAfter.
Ages == {"fresh", "stale", "old"}
NewEntry == [snapshot |-> NoLoad, age |-> "old", call |-> NoLoad, waiting |-> FALSE]
NotCached == [NewEntry EXCEPT !.age = "absent"]
Cached == {c \in OverviewClusters : overview[c] # NotCached}

Outcomes == {"complete", "partial", "error"}
NotStarted == [clusters |-> {}, state |-> "none"]
Idle == [clusters |-> {}, call |-> NoLoad, floor |-> NoLoad, answer |-> NoLoad]

COInit ==
    /\ overview = [c \in OverviewClusters |-> NotCached]
    /\ load = [i \in Loads |-> NotStarted] /\ started = 0
    /\ caller = [k \in Callers |-> Idle]
    /\ told = [c \in OverviewClusters |-> NoLoad]

-----------------------------------------------------------------------------

Later(i, j) == IF i > j THEN i ELSE j

\* startDetached: a goroutine of its own, without the cancellation of the caller.
StartsLoad(c) ==
    /\ started < MaxLoads
    /\ started' = started + 1
    /\ load' = [load EXCEPT ![started'] = [clusters |-> {c}, state |-> "running"]]

\* Get returns an overview (or, with NoLoad, an error) without a wait.
Answers(k, c, i) ==
    /\ caller' = [caller EXCEPT ![k] = [clusters |-> {c}, call |-> NoLoad,
                                        floor |-> told[c], answer |-> i]]
    /\ told' = [told EXCEPT ![c] = Later(@, i)]

WaitsForLoad(k, c, i) ==
    /\ caller' = [caller EXCEPT ![k] = [clusters |-> {c}, call |-> i,
                                        floor |-> told[c], answer |-> NoLoad]]
    /\ UNCHANGED told

Asks(k, c) == caller[k].call = NoLoad /\ c \in OverviewClusters

GetFresh(k, c) ==
    /\ Asks(k, c)
    /\ overview[c].age = "fresh"
    /\ Answers(k, c, overview[c].snapshot)
    /\ UNCHANGED <<overview, load, started>>

\* The snapshot is returned, and refreshed behind it unless a load already runs or
\* the last one has failed lately.
GetStale(k, c) ==
    /\ Asks(k, c)
    /\ overview[c].age = "stale"
    /\ Answers(k, c, overview[c].snapshot)
    /\ IF overview[c].call # NoLoad \/ overview[c].waiting
       THEN UNCHANGED <<overview, load, started>>
       ELSE /\ StartsLoad(c)
            /\ overview' = [overview EXCEPT ![c].call = started']

\* The entry has nothing to return: its error, its load, or a new load.
GetByEntry(k, c) ==
    /\ Asks(k, c)
    /\ overview[c].age = "old"
    /\ CASE overview[c].call # NoLoad ->
                 /\ WaitsForLoad(k, c, overview[c].call)
                 /\ UNCHANGED <<overview, load, started>>
         [] overview[c].call = NoLoad /\ overview[c].waiting ->
                 /\ Answers(k, c, NoLoad)
                 /\ UNCHANGED <<overview, load, started>>
         [] OTHER ->
                 /\ StartsLoad(c)
                 /\ WaitsForLoad(k, c, started')
                 /\ overview' = [overview EXCEPT ![c].call = started']

\* admitLocked: a full map loses the entries that nothing can still read.
Unread(d) ==
    overview[d].age = "old" /\ overview[d].call = NoLoad /\ ~overview[d].waiting
SweptCache == IF Cardinality(Cached) < MaxCachedClusters THEN overview
         ELSE [d \in OverviewClusters |-> IF Unread(d) THEN NotCached ELSE overview[d]]
Admits == Cardinality({d \in OverviewClusters : SweptCache[d] # NotCached})
              < MaxCachedClusters

\* The load of a Cluster without an entry belongs to the new entry, or to nobody.
GetUncached(k, c) ==
    /\ Asks(k, c)
    /\ c \notin Cached
    /\ StartsLoad(c)
    /\ WaitsForLoad(k, c, started')
    /\ overview' = IF Admits
                   THEN [SweptCache EXCEPT ![c] = [NewEntry EXCEPT !.call = started']]
                   ELSE SweptCache

\* What run leaves in an entry.
Stored(entry, i, outcome) ==
    CASE outcome = "error" -> [entry EXCEPT !.call = NoLoad, !.waiting = TRUE]
      [] outcome = "partial" -> [entry EXCEPT !.call = NoLoad, !.waiting = FALSE]
      [] outcome = "complete" ->
             [snapshot |-> i, age |-> "fresh", call |-> NoLoad, waiting |-> FALSE]

\* Faulty: a load that ends is stored, whoever started it.
EndsLoadForAll(i, outcome) ==
    /\ load[i].state = "running"
    /\ load' = [load EXCEPT ![i].state = outcome]
    /\ overview' = [c \in OverviewClusters |->
           IF c \in load[i].clusters /\ c \in Cached
           THEN Stored(overview[c], i, outcome) ELSE overview[c]]
    /\ UNCHANGED <<started, caller, told>>

\* run: the load answers, fails or comes to its timeout; only the load that the
\* entry waits for changes the entry.
EndsLoad(i, outcome) ==
    /\ load[i].state = "running"
    /\ load' = [load EXCEPT ![i].state = outcome]
    /\ overview' = [c \in OverviewClusters |->
           IF c \in load[i].clusters /\ overview[c].call = i
           THEN Stored(overview[c], i, outcome) ELSE overview[c]]
    /\ UNCHANGED <<started, caller, told>>

\* A caller that waits finds its load done and gets what it loaded.
GetsLoaded(k, c) ==
    /\ caller[k].call # NoLoad /\ caller[k].clusters = {c}
    /\ load[caller[k].call].state \in Outcomes
    /\ LET i == IF load[caller[k].call].state = "error" THEN NoLoad ELSE caller[k].call
       IN  /\ caller' = [caller EXCEPT ![k].call = NoLoad, ![k].answer = i]
           /\ told' = [told EXCEPT ![c] = Later(@, i)]
    /\ UNCHANGED <<overview, load, started>>

\* The caller's own context ends; the load goes on.
LeavesLoad(k) ==
    /\ caller[k].call # NoLoad
    /\ caller' = [caller EXCEPT ![k] = Idle]
    /\ UNCHANGED <<overview, load, started, told>>

\* freshUntil, staleUntil or retryAfter passes.
SnapshotAges(c) ==
    /\ overview[c].age \in {"fresh", "stale"}
    /\ overview' = [overview EXCEPT ![c].age = IF @ = "fresh" THEN "stale" ELSE "old"]
    /\ UNCHANGED <<load, started, caller, told>>

RetryAfterPasses(c) ==
    /\ overview[c].waiting
    /\ overview' = [overview EXCEPT ![c].waiting = FALSE]
    /\ UNCHANGED <<load, started, caller, told>>

CONext ==
    \/ \E k \in Callers, c \in OverviewClusters :
           GetFresh(k, c) \/ GetStale(k, c) \/ GetByEntry(k, c) \/ GetUncached(k, c)
           \/ GetsLoaded(k, c)
    \/ \E k \in Callers : LeavesLoad(k)
    \/ \E i \in Loads, outcome \in Outcomes : EndsLoad(i, outcome)
    \/ \E c \in OverviewClusters : SnapshotAges(c) \/ RetryAfterPasses(c)

COSpec == COInit /\ [][CONext]_overviewVars

COTypeOK ==
    /\ \A c \in Cached : overview[c] \in [snapshot : Loads \cup {NoLoad}, age : Ages,
                                          call : Loads \cup {NoLoad}, waiting : BOOLEAN]
    /\ Cardinality(Cached) <= MaxCachedClusters
    /\ load \in [Loads -> [clusters : SUBSET OverviewClusters,
                           state : {"none", "running"} \cup Outcomes]]
    /\ started \in 0 .. MaxLoads
    /\ caller \in [Callers -> [clusters : SUBSET OverviewClusters,
                               call : Loads \cup {NoLoad},
                               floor : Loads \cup {NoLoad},
                               answer : Loads \cup {NoLoad}]]
    /\ told \in [OverviewClusters -> Loads \cup {NoLoad}]

(***************************************************************************)
(* The overview of a Cluster goes forward: nobody is answered from a load  *)
(* that was started before one which somebody had been answered from when  *)
(* he asked, whether the answer is a snapshot, a stale snapshot or a load, *)
(* with an entry or without (the test entry.call == call in run, and that  *)
(* no snapshot past staleUntil answers).                                   *)
(***************************************************************************)
OverviewGoesForward ==
    \A k \in Callers : caller[k].answer # NoLoad => caller[k].answer >= caller[k].floor
=============================================================================
