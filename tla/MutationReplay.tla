--------------------------- MODULE MutationReplay ---------------------------
(*****************************************************************************)
(* The replay cache of the Agent (pkg/agent/resource_mutation_cache.go),     *)
(* which keeps a mutation that is sent again, because its answer was lost,   *)
(* from being performed twice.  Resource Streams and Helm Streams have one   *)
(* each, of the same type.                                                   *)
(*                                                                           *)
(* A call is one Stream that carries a mutation with an idempotency key, in  *)
(* do.  Those who wait for an entry hold it after it has left the map; so    *)
(* they wait for the call that made it, which names the entry.               *)
(*                                                                           *)
(* Bounds: the calls at a time, MaxCommits mutations per key, MaxRestarts.   *)
(*****************************************************************************)
EXTENDS Naturals, Sequences, FiniteSets, SequencesExt

CONSTANTS
    MutationStreams, \* Streams at a time (max_concurrent_resource_streams)
    Keys, Bodies,    \* idempotency keys, and what may be asked under one
    MaxEntries, MaxCommits, MaxRestarts

\* defaultMutationReplayEntries is positive.
ASSUME ReplayAssumption ==
    MaxEntries \in Nat \ {0} /\ MaxCommits \in Nat /\ MaxRestarts \in Nat

VARIABLES
    stream,      \* where each call of do is, and the body it got the answer of
    cached,      \* cache.entries
    expiring,    \* the finished keys, the first to expire first
    commits,     \* history: mutations the API server has taken, per key
    forgotten,   \* history: keys whose outcome was dropped by age, room or restart
    restarts

mrVars == <<stream, cached, expiring, commits, forgotten, restarts>>

Free == [state |-> "free"]
IdleCall == [pc |-> "idle"]

MRInit ==
    /\ stream = [c \in MutationStreams |-> IdleCall]
    /\ cached = [k \in Keys |-> Free]
    /\ expiring = <<>>
    /\ commits = [k \in Keys |-> 0] /\ forgotten = {} /\ restarts = 0

Entries == {k \in Keys : cached[k] # Free}
Dropping(keys) == [k \in Keys |-> IF k \in keys THEN Free ELSE cached[k]]

\* makeRoomLocked evicts the finished entries that expire first; those in flight
\* are never evicted, and may exceed the limit.
Evictions ==
    LET excess == Cardinality(Entries) - (MaxEntries - 1) IN
    IF Cardinality(Entries) < MaxEntries THEN 0
    ELSE IF excess > Len(expiring) THEN Len(expiring) ELSE excess

\* Faulty: takes what has the same key for the same request.
JoinsEntryByKey(c, k, b) ==
    /\ stream[c].pc = "idle" /\ cached[k] # Free
    /\ stream' = [stream EXCEPT ![c] =
         IF cached[k].state = "flying"
         THEN [pc |-> "waiting", key |-> k, body |-> b, on |-> cached[k].by]
         ELSE [pc |-> "ready", body |-> b, got |-> cached[k].body]]
    /\ UNCHANGED <<cached, expiring, commits, forgotten, restarts>>

\* do finds an entry for the same request, and waits for it.  (For another request
\* it reports a conflict.)
JoinsEntry(c, k, b) ==
    /\ stream[c].pc = "idle"
    /\ cached[k] # Free /\ cached[k].body = b
    /\ stream' = [stream EXCEPT ![c] =
         IF cached[k].state = "flying"
         THEN [pc |-> "waiting", key |-> k, body |-> b, on |-> cached[k].by]
         ELSE [pc |-> "ready", body |-> b, got |-> cached[k].body]]
    /\ UNCHANGED <<cached, expiring, commits, forgotten, restarts>>

\* do finds none, makes room and an entry, and executes.
MakesEntry(c, k, b) ==
    LET evicted == ToSet(SubSeq(expiring, 1, Evictions)) IN
    /\ stream[c].pc = "idle" /\ cached[k] = Free
    /\ cached' = [Dropping(evicted) EXCEPT ![k] =
                    [state |-> "flying", by |-> c, body |-> b]]
    /\ expiring' = SubSeq(expiring, Evictions + 1, Len(expiring))
    /\ forgotten' = forgotten \cup evicted
    /\ stream' = [stream EXCEPT ![c] = [pc |-> "executing", key |-> k, body |-> b]]
    /\ UNCHANGED <<commits, restarts>>

\* executeKubernetesResourceMutation: what the API server does and what the Agent
\* learns of it.  A refusal (4xx) and a dry run have changed nothing; any other
\* outcome may have, and the call is "applied" as far as the Agent can tell.
Executes(c) ==
    /\ stream[c].pc = "executing"
    /\ \/ /\ stream' = [stream EXCEPT ![c].pc = "refused"]
          /\ UNCHANGED commits
       \/ /\ stream' = [stream EXCEPT ![c].pc = "applied"]
          /\ \/ UNCHANGED commits
             \/ /\ commits[stream[c].key] < MaxCommits
                /\ commits' = [commits EXCEPT ![stream[c].key] = @ + 1]
    /\ UNCHANGED <<cached, expiring, forgotten, restarts>>

\* Faulty: gives the key back whatever the outcome.
RecordsNothing(c) ==
    /\ stream[c].pc \in {"refused", "applied"}
    /\ cached' = Dropping({stream[c].key})
    /\ stream' = [d \in MutationStreams |->
         IF d = c \/ (stream[d].pc = "waiting" /\ stream[d].on = c)
         THEN [pc |-> "ready", body |-> stream[d].body, got |-> stream[c].body]
         ELSE stream[d]]
    /\ UNCHANGED <<expiring, commits, forgotten, restarts>>

\* do records the outcome and wakes those who wait; only one that may have changed
\* the Cluster keeps the key, until it expires.
Records(c) ==
    LET k == stream[c].key IN
    /\ stream[c].pc \in {"refused", "applied"}
    /\ IF stream[c].pc = "applied"
       THEN /\ cached' = [cached EXCEPT ![k] = [state |-> "applied", body |-> @.body]]
            /\ expiring' = Append(expiring, k)
       ELSE cached' = Dropping({k}) /\ UNCHANGED expiring
    /\ stream' = [d \in MutationStreams |->
         IF d = c \/ (stream[d].pc = "waiting" /\ stream[d].on = c)
         THEN [pc |-> "ready", body |-> stream[d].body, got |-> stream[c].body]
         ELSE stream[d]]
    /\ UNCHANGED <<commits, forgotten, restarts>>

\* A call returns: with the answer, or for its own context while it waits.
Returns(c) ==
    /\ stream[c].pc \in {"waiting", "ready"}
    /\ stream' = [stream EXCEPT ![c] = IdleCall]
    /\ UNCHANGED <<cached, expiring, commits, forgotten, restarts>>

\* removeExpiredLocked.
Expires ==
    /\ expiring # <<>>
    /\ cached' = Dropping({Head(expiring)})
    /\ forgotten' = forgotten \cup {Head(expiring)}
    /\ expiring' = Tail(expiring)
    /\ UNCHANGED <<stream, commits, restarts>>

\* The cache belongs to the process: a new connection keeps it, a restart does not.
AgentRestarts ==
    /\ restarts < MaxRestarts /\ restarts' = restarts + 1
    /\ stream' = [c \in MutationStreams |-> IdleCall]
    /\ cached' = [k \in Keys |-> Free] /\ expiring' = <<>>
    /\ forgotten' = forgotten \cup Entries
    /\ UNCHANGED commits

MRNext ==
    \/ \E c \in MutationStreams :
         \/ Executes(c) \/ Records(c) \/ Returns(c)
         \/ \E k \in Keys, b \in Bodies : JoinsEntry(c, k, b) \/ MakesEntry(c, k, b)
    \/ Expires \/ AgentRestarts

MRSpec == MRInit /\ [][MRNext]_mrVars

MRTypeOK ==
    /\ \A c \in MutationStreams : stream[c].pc \in {"idle", "waiting", "executing", "refused",
                                        "applied", "ready"}
    /\ \A k \in Keys : cached[k].state \in {"free", "flying", "applied"}
    /\ expiring \in Seq(Keys) /\ commits \in [Keys -> 0..MaxCommits]

\* However often a mutation is sent under one key, by calls that overlap or follow
\* one another, the API server takes it once; unless its outcome has been forgotten
\* by age, for want of room or with the process.
PerformedOnce == \A k \in Keys : commits[k] > 1 => k \in forgotten

\* An answer is the outcome of the request it was asked for; and a key stays
\* reserved only by a call at work on it, which will answer those who wait, or by
\* an outcome that may have changed the Cluster, which will expire: after a refusal
\* the corrected request is no conflict.
AnswersAreDue ==
    /\ \A c \in MutationStreams : stream[c].pc = "ready" => stream[c].got = stream[c].body
    /\ \A c \in MutationStreams : stream[c].pc = "waiting" =>
         stream[stream[c].on].pc \in {"executing", "refused", "applied"}
    /\ \A k \in Entries :
         IF cached[k].state = "flying"
         THEN LET by == stream[cached[k].by] IN
              by.pc \in {"executing", "refused", "applied"} /\ by.key = k
         ELSE k \in ToSet(expiring)
=============================================================================
