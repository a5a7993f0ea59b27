--------------------------- MODULE CacheProofs ---------------------------
(***************************************************************************)
(* Proofs about MutationReplay, for all calls, keys and requests, and      *)
(* every limit, about ClusterOverview, for every number of Clusters,       *)
(* callers, entries and loads, and about ResourceCache, for all objects,   *)
(* readers and page sizes and every number of sessions and changes.        *)
(***************************************************************************)
EXTENDS MutationReplay, ClusterOverview, ResourceCache, FiniteSetTheorems,
        SequenceTheorems, WellFoundedInduction, TLAPS

-----------------------------------------------------------------------------
(* MutationReplay: the inductive invariant.                                 *)

Working == {"executing", "refused", "applied"}

WaitingCall == [pc : {"waiting"}, key : Keys, body : Bodies, on : MutationStreams]
Worker == [pc : Working, key : Keys, body : Bodies]
Answer == [pc : {"ready"}, body : Bodies, got : Bodies]
Call == {IdleCall} \cup WaitingCall \cup Worker \cup Answer

Flying == [state : {"flying"}, by : MutationStreams, body : Bodies]
KeptOutcome == [state : {"applied"}, body : Bodies]

ReplayTyped ==
    /\ stream \in [MutationStreams -> Call]
    /\ cached \in [Keys -> {Free} \cup Flying \cup KeptOutcome]
    /\ expiring \in Seq(Keys) /\ IsFiniteSet(Entries)
    /\ commits \in [Keys -> 0 .. MaxCommits] /\ restarts \in 0 .. MaxRestarts

At(c, place) == stream[c].pc \in place

\* Who works on a key has the entry in flight, and an entry in flight has its worker.
WorkersHoldKeys ==
    /\ \A c \in MutationStreams : At(c, Working) =>
         /\ cached[stream[c].key].state = "flying" /\ cached[stream[c].key].by = c
         /\ cached[stream[c].key].body = stream[c].body
    /\ \A k \in Keys : cached[k].state = "flying" =>
         At(cached[k].by, Working) /\ stream[cached[k].by].key = k

\* Who waits does so for a call at work on the same request, and who is answered has
\* got the outcome of it.
WaitersAreServed ==
    \A c \in MutationStreams :
        /\ At(c, {"waiting"}) =>
             At(stream[c].on, Working) /\ stream[stream[c].on].body = stream[c].body
        /\ At(c, {"ready"}) => stream[c].got = stream[c].body

\* What expires are the keys with an outcome, each of them once.
OutcomesExpire ==
    /\ \A k \in Keys : cached[k].state = "applied" <=> k \in ToSet(expiring)
    /\ \A i, j \in 1 .. Len(expiring) : expiring[i] = expiring[j] => i = j

\* A mutation that the API server has taken is remembered or forgotten: it was taken
\* once, and either the outcome is kept or the call is about to record it.
CommitsAreRemembered ==
    \A k \in Keys : k \notin forgotten =>
        \/ commits[k] = 0
        \/ /\ commits[k] = 1
           /\ \/ cached[k].state = "applied"
              \/ cached[k].state = "flying" /\ At(cached[k].by, {"applied"})

ReplayInv == ReplayTyped /\ WorkersHoldKeys /\ WaitersAreServed /\ OutcomesExpire
             /\ CommitsAreRemembered

-----------------------------------------------------------------------------
(* Records.                                                                 *)

\* What a call has depends on where it is.
LEMMA CallFields ==
    ASSUME ReplayTyped, NEW c \in MutationStreams
    PROVE  /\ stream[c].pc = "idle" => stream[c] = IdleCall
           /\ stream[c].pc = "waiting" => stream[c] \in WaitingCall
           /\ stream[c].pc \in Working => stream[c] \in Worker
           /\ stream[c].pc = "ready" => stream[c] \in Answer
           /\ stream[c].pc \in {"idle", "waiting", "ready"} \cup Working
BY DEF ReplayTyped, Call, IdleCall, WaitingCall, Worker, Answer, Working

\* What an entry has depends on its state.
LEMMA EntryFields ==
    ASSUME ReplayTyped, NEW k \in Keys
    PROVE  /\ cached[k].state = "free" <=> cached[k] = Free
           /\ cached[k].state = "flying" => cached[k] \in Flying
           /\ cached[k].state = "applied" => cached[k] \in KeptOutcome
           /\ cached[k].state \in {"free", "flying", "applied"}
BY DEF ReplayTyped, Free, Flying, KeptOutcome

LEMMA ReplayInit == MRInit => ReplayInv
<1> SUFFICES ASSUME MRInit PROVE ReplayInv
  OBVIOUS
<1>1. Entries = {} /\ IsFiniteSet(Entries)
  BY FS_EmptySet DEF MRInit, Entries
<1>2. ReplayTyped
  BY <1>1, ReplayAssumption DEF MRInit, ReplayTyped, Call
<1>3. ToSet(expiring) = {} /\ Len(expiring) = 0
  BY DEF MRInit, ToSet
<1>4. OutcomesExpire
  BY <1>3 DEF MRInit, OutcomesExpire, Free
<1> QED
  BY <1>2, <1>4 DEF MRInit, ReplayInv, WorkersHoldKeys, WaitersAreServed,
     CommitsAreRemembered, At, Working, IdleCall, Free

-----------------------------------------------------------------------------
(* The queue of the outcomes.                                               *)

\* The first n outcomes and the others.
LEMMA SplitQueue ==
    ASSUME NEW q \in Seq(Keys), NEW n \in 0 .. Len(q),
           \A i, j \in 1 .. Len(q) : q[i] = q[j] => i = j
    PROVE  LET first == SubSeq(q, 1, n)
               rest == SubSeq(q, n + 1, Len(q))
           IN  /\ rest \in Seq(Keys)
               /\ ToSet(rest) = ToSet(q) \ ToSet(first)
               /\ ToSet(first) \subseteq ToSet(q)
               /\ ToSet(q) \subseteq Keys
               /\ \A i, j \in 1 .. Len(rest) : rest[i] = rest[j] => i = j
<1> DEFINE first == SubSeq(q, 1, n)
           rest == SubSeq(q, n + 1, Len(q))
<1>1. Len(q) \in Nat /\ n \in Nat /\ n <= Len(q)
  OBVIOUS
<1>2. /\ first \in Seq(Keys) /\ Len(first) = n
      /\ \A i \in 1 .. n : first[i] = q[i]
  OBVIOUS
<1>3. /\ rest \in Seq(Keys) /\ Len(rest) = Len(q) - n
      /\ \A i \in 1 .. Len(q) - n : rest[i] = q[n + i]
  OBVIOUS
<1> HIDE DEF first, rest
<1>4. \A s \in Seq(Keys) : ToSet(s) = {s[i] : i \in 1 .. Len(s)}
  BY DEF ToSet
<1>5. ToSet(first) = {q[i] : i \in 1 .. n}
  BY <1>1, <1>2, <1>4
<1>6. ToSet(rest) = {q[i] : i \in n + 1 .. Len(q)}
  <2>1. ASSUME NEW i \in n + 1 .. Len(q)
        PROVE  i - n \in 1 .. Len(q) - n /\ rest[i - n] = q[i]
    <3>1. i - n \in 1 .. Len(q) - n /\ n + (i - n) = i
      BY <1>1
    <3> QED
      BY <1>3, <3>1
  <2>2. ASSUME NEW i \in 1 .. Len(q) - n
        PROVE  n + i \in n + 1 .. Len(q) /\ rest[i] = q[n + i]
    BY <1>1, <1>3
  <2>3. ToSet(rest) = {rest[i] : i \in 1 .. Len(q) - n}
    BY <1>3, <1>4
  <2>4. ASSUME NEW x PROVE x \in ToSet(rest) <=> x \in {q[i] : i \in n + 1 .. Len(q)}
    <3>1. CASE x \in ToSet(rest)
      <4>1. PICK i \in 1 .. Len(q) - n : x = rest[i]
        BY <2>3, <3>1
      <4> QED
        BY <2>2, <3>1, <4>1
    <3>2. CASE x \in {q[i] : i \in n + 1 .. Len(q)}
      <4>1. PICK i \in n + 1 .. Len(q) : x = q[i]
        BY <3>2
      <4> QED
        BY <2>1, <2>3, <3>2, <4>1
    <3> QED
      BY <3>1, <3>2
  <2> QED
    BY <2>4
<1>7. ToSet(q) = {q[i] : i \in 1 .. Len(q)}
  BY <1>4
<1>8. ToSet(rest) = ToSet(q) \ ToSet(first)
  BY <1>1, <1>5, <1>6, <1>7
<1>9. ToSet(first) \subseteq ToSet(q)
  BY <1>1, <1>5, <1>7
<1>10. ToSet(q) \subseteq Keys
  BY <1>7
<1>11. ASSUME NEW i \in 1 .. Len(rest), NEW j \in 1 .. Len(rest), rest[i] = rest[j]
       PROVE  i = j
  <2>1. i \in 1 .. Len(q) - n /\ j \in 1 .. Len(q) - n
    BY <1>3
  <2>2. q[n + i] = q[n + j]
    BY <1>3, <1>11, <2>1
  <2>3. n + i \in 1 .. Len(q) /\ n + j \in 1 .. Len(q)
    BY <1>1, <2>1
  <2>4. n + i = n + j
    BY <2>2, <2>3
  <2> QED
    BY <1>1, <2>1, <2>4
<1> QED
  BY <1>3, <1>8, <1>9, <1>10, <1>11 DEF first, rest

\* makeRoomLocked evicts outcomes that exist.
LEMMA EvictionsExist ==
    ASSUME ReplayTyped
    PROVE  Evictions \in 0 .. Len(expiring)
<1>1. Cardinality(Entries) \in Nat /\ Len(expiring) \in Nat
  BY FS_CardinalityType DEF ReplayTyped
<1> QED
  BY <1>1, ReplayAssumption DEF Evictions

\* What leaves the queue are keys with an outcome.
LEMMA OutcomesLeave ==
    ASSUME ReplayTyped, OutcomesExpire, NEW n \in 0 .. Len(expiring)
    PROVE  LET leaving == ToSet(SubSeq(expiring, 1, n))
               rest == SubSeq(expiring, n + 1, Len(expiring))
           IN  /\ rest \in Seq(Keys)
               /\ leaving \subseteq Keys
               /\ \A k \in leaving : cached[k].state = "applied"
               /\ \A k \in Keys : k \in ToSet(rest)
                    <=> cached[k].state = "applied" /\ k \notin leaving
               /\ \A i, j \in 1 .. Len(rest) : rest[i] = rest[j] => i = j
<1> DEFINE leaving == ToSet(SubSeq(expiring, 1, n))
           rest == SubSeq(expiring, n + 1, Len(expiring))
<1>1. /\ expiring \in Seq(Keys)
      /\ \A i, j \in 1 .. Len(expiring) : expiring[i] = expiring[j] => i = j
      /\ \A k \in Keys : cached[k].state = "applied" <=> k \in ToSet(expiring)
  BY DEF ReplayTyped, OutcomesExpire
<1>2. /\ rest \in Seq(Keys)
      /\ ToSet(rest) = ToSet(expiring) \ leaving
      /\ leaving \subseteq ToSet(expiring)
      /\ ToSet(expiring) \subseteq Keys
      /\ \A i, j \in 1 .. Len(rest) : rest[i] = rest[j] => i = j
  BY <1>1, SplitQueue
<1> HIDE DEF leaving, rest
<1>3. /\ leaving \subseteq Keys
      /\ \A k \in leaving : cached[k].state = "applied"
      /\ \A k \in Keys : k \in ToSet(rest)
           <=> cached[k].state = "applied" /\ k \notin leaving
  BY <1>1, <1>2
<1> QED
  BY <1>2, <1>3 DEF leaving, rest

-----------------------------------------------------------------------------
(* The steps.                                                               *)

\* A call that works on nothing, before and after, changes nothing for the others.
LEMMA OneCallMoves ==
    ASSUME ReplayInv, NEW c \in MutationStreams, NEW s \in Call,
           stream[c].pc \notin Working, s.pc \notin Working,
           stream' = [stream EXCEPT ![c] = s],
           UNCHANGED <<cached, expiring, commits, forgotten, restarts>>,
           s.pc = "waiting" => At(s.on, Working) /\ stream[s.on].body = s.body,
           s.pc = "waiting" => s.on \in MutationStreams,
           s.pc = "ready" => s.got = s.body
    PROVE  ReplayInv'
<1> USE DEF ReplayInv
<1>1. ReplayTyped'
  BY DEF ReplayTyped, Entries
<1>2. /\ stream'[c] = s
      /\ \A d \in MutationStreams : d # c => stream'[d] = stream[d]
      /\ \A d \in MutationStreams : stream[d].pc \in Working => d # c
  BY DEF ReplayTyped
<1>3. \A k \in Keys : cached[k].state = "flying" => cached[k].by \in MutationStreams
  BY EntryFields DEF Flying
<1>4. \A d \in MutationStreams :
        /\ stream[d].pc \in Working => stream[d].key \in Keys
        /\ stream[d].pc = "waiting" => stream[d].on \in MutationStreams
  BY CallFields DEF Worker, WaitingCall
<1>5. WorkersHoldKeys'
  BY <1>2, <1>3, <1>4 DEF WorkersHoldKeys, At
<1>6. WaitersAreServed'
  BY <1>2, <1>4 DEF WaitersAreServed, At
<1>7. OutcomesExpire'
  BY DEF OutcomesExpire
<1>8. CommitsAreRemembered'
  BY <1>2, <1>3 DEF CommitsAreRemembered, At, Working
<1> QED
  BY <1>1, <1>5, <1>6, <1>7, <1>8

LEMMA JoinsEntryStep ==
    ASSUME ReplayInv, NEW c \in MutationStreams, NEW k \in Keys, NEW b \in Bodies,
           JoinsEntry(c, k, b)
    PROVE  ReplayInv'
<1> DEFINE waits == [pc |-> "waiting", key |-> k, body |-> b, on |-> cached[k].by]
           hears == [pc |-> "ready", body |-> b, got |-> cached[k].body]
<1>1. stream[c].pc \notin Working /\ ReplayTyped /\ WorkersHoldKeys
  BY DEF JoinsEntry, Working, ReplayInv
<1>2. CASE cached[k].state = "flying"
  <2>1. cached[k].by \in MutationStreams
    BY <1>1, <1>2, EntryFields DEF Flying
  <2>2. waits \in Call /\ waits.pc \notin Working
    BY <2>1 DEF Call, WaitingCall, Working
  <2>3. stream' = [stream EXCEPT ![c] = waits]
    BY <1>2 DEF JoinsEntry
  <2>4. At(waits.on, Working) /\ stream[waits.on].body = waits.body
    BY <1>1, <1>2, <2>1 DEF WorkersHoldKeys, JoinsEntry
  <2> QED
    BY <1>1, <2>1, <2>2, <2>3, <2>4, OneCallMoves DEF JoinsEntry
<1>3. CASE cached[k].state # "flying"
  <2>1. cached[k].body = b
    BY DEF JoinsEntry
  <2>2. hears \in Call /\ hears.pc \notin Working /\ hears.pc # "waiting"
    BY <2>1 DEF Call, Answer, Working
  <2>3. stream' = [stream EXCEPT ![c] = hears]
    BY <1>3 DEF JoinsEntry
  <2> QED
    BY <1>1, <2>1, <2>2, <2>3, OneCallMoves DEF JoinsEntry
<1> QED
  BY <1>2, <1>3

LEMMA ReturnsStep ==
    ASSUME ReplayInv, NEW c \in MutationStreams, Returns(c)
    PROVE  ReplayInv'
<1>1. stream[c].pc \notin Working
  BY DEF Returns, Working
<1>2. IdleCall \in Call /\ IdleCall.pc \notin Working \cup {"waiting", "ready"}
  BY DEF Call, IdleCall, Working
<1> QED
  BY <1>1, <1>2, OneCallMoves DEF Returns

LEMMA MakesEntryStep ==
    ASSUME ReplayInv, NEW c \in MutationStreams, NEW k \in Keys, NEW b \in Bodies,
           MakesEntry(c, k, b)
    PROVE  ReplayInv'
<1> DEFINE evicted == ToSet(SubSeq(expiring, 1, Evictions))
           entry == [state |-> "flying", by |-> c, body |-> b]
           call == [pc |-> "executing", key |-> k, body |-> b]
<1> USE DEF ReplayInv
<1>1. /\ stream' = [stream EXCEPT ![c] = call]
      /\ cached' = [Dropping(evicted) EXCEPT ![k] = entry]
      /\ expiring' = SubSeq(expiring, Evictions + 1, Len(expiring))
      /\ forgotten' = forgotten \cup evicted
      /\ commits' = commits /\ restarts' = restarts
      /\ stream[c].pc = "idle" /\ cached[k] = Free
  BY DEF MakesEntry
<1>2. Evictions \in 0 .. Len(expiring)
  BY EvictionsExist
<1>3. /\ expiring' \in Seq(Keys)
      /\ evicted \subseteq Keys
      /\ \A j \in evicted : cached[j].state = "applied"
      /\ \A j \in Keys : j \in ToSet(expiring')
           <=> cached[j].state = "applied" /\ j \notin evicted
      /\ \A i, j \in 1 .. Len(expiring') : expiring'[i] = expiring'[j] => i = j
  BY <1>1, <1>2, OutcomesLeave
<1> HIDE DEF evicted
<1>4. /\ k \notin evicted /\ cached[k].state = "free"
      /\ cached'[k] = entry
      /\ \A j \in Keys : j # k => cached'[j] = IF j \in evicted THEN Free ELSE cached[j]
  BY <1>1, <1>3 DEF Dropping, Free
<1>5. /\ stream'[c] = call
      /\ \A d \in MutationStreams : d # c => stream'[d] = stream[d]
  BY <1>1 DEF ReplayTyped
<1>6. entry \in Flying /\ call \in Worker /\ call.pc \in Working
  BY DEF Flying, Worker, Working
<1>7. ReplayTyped'
  <2>1. Entries' \subseteq Entries \cup {k}
    BY <1>4 DEF Entries
  <2>2. IsFiniteSet(Entries \cup {k})
    BY FS_AddElement DEF ReplayTyped
  <2>3. IsFiniteSet(Entries')
    BY <2>1, <2>2, FS_Subset
  <2>4. stream' \in [MutationStreams -> Call]
    BY <1>1, <1>6 DEF ReplayTyped, Call
  <2>5. cached' \in [Keys -> {Free} \cup Flying \cup KeptOutcome]
    BY <1>1, <1>6 DEF ReplayTyped, Dropping
  <2> QED
    BY <1>1, <1>3, <2>3, <2>4, <2>5 DEF ReplayTyped
<1>8. \A d \in MutationStreams :
        /\ stream[d].pc \in Working => d # c /\ stream[d].key \in Keys
        /\ stream[d].pc = "waiting" => stream[d].on \in MutationStreams
  BY <1>1, CallFields DEF Worker, WaitingCall, Working
<1>9. \A j \in Keys : cached[j].state = "flying" =>
        j # k /\ j \notin evicted /\ cached'[j] = cached[j] /\ cached[j].by \in MutationStreams
        /\ cached[j].by # c
  BY <1>1, <1>3, <1>4, EntryFields DEF Flying, WorkersHoldKeys, At, Working
<1>10. \A j \in Keys : cached'[j].state = "flying" => j = k \/ cached[j].state = "flying"
  BY <1>4 DEF Free
<1>11. WorkersHoldKeys'
  <2>1. ASSUME NEW d \in MutationStreams, stream'[d].pc \in Working
        PROVE  LET j == stream'[d].key IN
               cached'[j].state = "flying" /\ cached'[j].by = d
               /\ cached'[j].body = stream'[d].body
    <3>1. CASE d = c
      BY <1>4, <1>5, <3>1
    <3>2. CASE d # c
      BY <1>5, <1>8, <1>9, <2>1, <3>2 DEF WorkersHoldKeys, At
    <3> QED
      BY <3>1, <3>2
  <2>2. ASSUME NEW j \in Keys, cached'[j].state = "flying"
        PROVE  stream'[cached'[j].by].pc \in Working /\ stream'[cached'[j].by].key = j
    <3>1. CASE j = k
      BY <1>4, <1>5, <1>6, <3>1
    <3>2. CASE j # k
      BY <1>5, <1>9, <1>10, <2>2, <3>2 DEF WorkersHoldKeys, At
    <3> QED
      BY <3>1, <3>2
  <2> QED
    BY <2>1, <2>2 DEF WorkersHoldKeys, At
<1>12. WaitersAreServed'
  BY <1>1, <1>5, <1>8 DEF WaitersAreServed, At, Working
<1>13. OutcomesExpire'
  BY <1>3, <1>4 DEF OutcomesExpire, Free
<1>14. CommitsAreRemembered'
  <2> SUFFICES ASSUME NEW j \in Keys, j \notin forgotten'
               PROVE  \/ commits'[j] = 0
                      \/ /\ commits'[j] = 1
                         /\ \/ cached'[j].state = "applied"
                            \/ /\ cached'[j].state = "flying"
                               /\ stream'[cached'[j].by].pc = "applied"
    BY DEF CommitsAreRemembered, At
  <2>1. j \notin forgotten /\ j \notin evicted
    BY <1>1
  <2>2. CASE j = k
    BY <1>1, <1>4, <2>1, <2>2 DEF CommitsAreRemembered
  <2>3. CASE j # k
    BY <1>1, <1>4, <1>5, <1>9, <2>1, <2>3 DEF CommitsAreRemembered, At
  <2> QED
    BY <2>2, <2>3
<1> QED
  BY <1>7, <1>11, <1>12, <1>13, <1>14

LEMMA ExecutesStep ==
    ASSUME ReplayInv, NEW c \in MutationStreams, Executes(c)
    PROVE  ReplayInv'
<1> USE DEF ReplayInv
<1> DEFINE k == stream[c].key
<1>1. /\ stream[c].pc = "executing" /\ stream[c] \in Worker /\ k \in Keys
      /\ cached' = cached /\ expiring' = expiring
      /\ forgotten' = forgotten /\ restarts' = restarts
  BY CallFields DEF Executes, Worker, Working
<1>2. PICK s \in Worker :
        /\ s.pc \in {"refused", "applied"} /\ s.key = k /\ s.body = stream[c].body
        /\ stream' = [stream EXCEPT ![c] = s]
        /\ \/ commits' = commits
           \/ /\ s.pc = "applied" /\ commits[k] < MaxCommits
              /\ commits' = [commits EXCEPT ![k] = @ + 1]
  <2> DEFINE after(p) == [pc |-> p, key |-> k, body |-> stream[c].body]
  <2>1. \A p \in {"refused", "applied"} :
          [stream EXCEPT ![c].pc = p] = [stream EXCEPT ![c] = after(p)]
    <3>1. \A p \in {"refused", "applied"} : [stream[c] EXCEPT !.pc = p] = after(p)
      BY <1>1 DEF Worker
    <3>2. \A p \in {"refused", "applied"} :
            [stream EXCEPT ![c].pc = p] = [stream EXCEPT ![c] = [stream[c] EXCEPT !.pc = p]]
      OBVIOUS
    <3> QED
      BY <3>1, <3>2
  <2>2. \A p \in {"refused", "applied"} : after(p) \in Worker
    BY <1>1 DEF Worker, Working
  <2>3. CASE stream' = [stream EXCEPT ![c].pc = "refused"] /\ commits' = commits
    BY <2>1, <2>2, <2>3
  <2>4. CASE /\ stream' = [stream EXCEPT ![c].pc = "applied"]
             /\ \/ commits' = commits
                \/ /\ commits[k] < MaxCommits
                   /\ commits' = [commits EXCEPT ![k] = @ + 1]
    BY <2>1, <2>2, <2>4
  <2> QED
    BY <2>3, <2>4 DEF Executes
<1>3. /\ stream'[c] = s
      /\ \A d \in MutationStreams : d # c => stream'[d] = stream[d]
  BY <1>2 DEF ReplayTyped
<1>4. s.pc \in Working
  BY DEF Worker
<1>5. commits' \in [Keys -> 0 .. MaxCommits]
  <2>1. commits[k] < MaxCommits => commits[k] + 1 \in 0 .. MaxCommits
    BY <1>1, ReplayAssumption DEF ReplayTyped
  <2> QED
    BY <1>1, <1>2, <2>1 DEF ReplayTyped
<1>6. ReplayTyped'
  BY <1>1, <1>2, <1>5 DEF ReplayTyped, Call, Entries
<1>7. \A d \in MutationStreams :
        /\ stream[d].pc \in Working => stream[d].key \in Keys
        /\ stream[d].pc = "waiting" => stream[d].on \in MutationStreams
  BY CallFields DEF Worker, WaitingCall
<1>8. \A j \in Keys : cached[j].state = "flying" => cached[j].by \in MutationStreams
  BY EntryFields DEF Flying
<1>9. WorkersHoldKeys'
  BY <1>1, <1>2, <1>3, <1>4, <1>7, <1>8 DEF WorkersHoldKeys, At, Working
<1>10. WaitersAreServed'
  BY <1>1, <1>2, <1>3, <1>4, <1>7 DEF WaitersAreServed, At, Working
<1>11. OutcomesExpire'
  BY <1>1 DEF OutcomesExpire
<1>12. cached[k].state = "flying" /\ cached[k].by = c
  BY <1>1 DEF WorkersHoldKeys, At, Working
<1>13. k \notin forgotten => commits[k] = 0
  BY <1>1, <1>12 DEF CommitsAreRemembered, At
<1>14. CommitsAreRemembered'
  <2> SUFFICES ASSUME NEW j \in Keys, j \notin forgotten
               PROVE  \/ commits'[j] = 0
                      \/ /\ commits'[j] = 1
                         /\ \/ cached[j].state = "applied"
                            \/ /\ cached[j].state = "flying"
                               /\ stream'[cached[j].by].pc = "applied"
    BY <1>1 DEF CommitsAreRemembered, At
  <2>1. CASE j = k
    <3>1. commits'[k] = commits[k] \/ (s.pc = "applied" /\ commits'[k] = commits[k] + 1)
      BY <1>1, <1>2 DEF ReplayTyped
    <3> QED
      BY <1>3, <1>12, <1>13, <2>1, <3>1
  <2>2. CASE j # k
    <3>1. commits'[j] = commits[j]
      BY <1>2, <2>2 DEF ReplayTyped
    <3>2. cached[j].state = "flying" => cached[j].by # c
      BY <1>1, <2>2 DEF WorkersHoldKeys
    <3> QED
      BY <1>3, <1>8, <3>1, <3>2 DEF CommitsAreRemembered, At
  <2> QED
    BY <2>1, <2>2
<1> QED
  BY <1>6, <1>9, <1>10, <1>11, <1>14

LEMMA RecordsStep ==
    ASSUME ReplayInv, NEW c \in MutationStreams, Records(c)
    PROVE  ReplayInv'
<1> USE DEF ReplayInv
<1> DEFINE k == stream[c].key
           hears(d) == d = c \/ (stream[d].pc = "waiting" /\ stream[d].on = c)
<1>1. /\ stream[c].pc \in {"refused", "applied"} /\ stream[c] \in Worker /\ k \in Keys
      /\ cached[k].state = "flying" /\ cached[k].by = c
      /\ cached[k].body = stream[c].body
      /\ commits' = commits /\ forgotten' = forgotten /\ restarts' = restarts
  BY CallFields DEF Records, Worker, Working, WorkersHoldKeys, At
<1>2. \A d \in MutationStreams :
        stream'[d] = IF hears(d)
                     THEN [pc |-> "ready", body |-> stream[d].body, got |-> stream[c].body]
                     ELSE stream[d]
  BY DEF Records
<1>3. \A d \in MutationStreams : stream[d].pc = "waiting" =>
        /\ stream[d] \in WaitingCall /\ At(stream[d].on, Working)
        /\ stream[stream[d].on].body = stream[d].body
  BY CallFields DEF WaitersAreServed, At
<1>4. \A d \in MutationStreams : hears(d) =>
        stream'[d] \in Answer /\ stream'[d].body = stream'[d].got
  <2> SUFFICES ASSUME NEW d \in MutationStreams, hears(d)
               PROVE  stream'[d] \in Answer /\ stream'[d].body = stream'[d].got
    OBVIOUS
  <2>1. stream[d].body = stream[c].body /\ stream[c].body \in Bodies
    BY <1>1, <1>3 DEF Worker
  <2>2. stream'[d] = [pc |-> "ready", body |-> stream[d].body, got |-> stream[c].body]
    BY <1>2
  <2> QED
    BY <2>1, <2>2 DEF Answer
<1>5. stream' \in [MutationStreams -> Call]
  <2>1. \A d \in MutationStreams : stream'[d] \in Call
    BY <1>2, <1>4 DEF Call, ReplayTyped
  <2>2. stream' = [d \in MutationStreams |-> stream'[d]]
    BY DEF Records
  <2> QED
    BY <2>1, <2>2
<1>6. \A j \in Keys : j # k => cached'[j] = cached[j]
  BY <1>1 DEF Records, Dropping, ReplayTyped
<1>8. \/ /\ stream[c].pc = "applied"
         /\ cached'[k] = [state |-> "applied", body |-> cached[k].body]
         /\ expiring' = Append(expiring, k)
      \/ /\ stream[c].pc = "refused" /\ cached'[k] = Free /\ expiring' = expiring
  BY <1>1 DEF Records, Dropping, ReplayTyped
<1>9. cached' \in [Keys -> {Free} \cup Flying \cup KeptOutcome]
  <2>1. [state |-> "applied", body |-> cached[k].body] \in KeptOutcome
    BY <1>1 DEF KeptOutcome, Worker
  <2>2. \A j \in Keys : cached'[j] \in {Free} \cup Flying \cup KeptOutcome
    BY <1>6, <1>8, <2>1 DEF ReplayTyped
  <2>3. cached' = [j \in Keys |-> cached'[j]]
    BY <1>1 DEF Records, Dropping, ReplayTyped
  <2> QED
    BY <2>2, <2>3
<1>10. ReplayTyped'
  <2>1. Entries' \subseteq Entries
    BY <1>1, <1>6 DEF Entries, Free
  <2>2. IsFiniteSet(Entries')
    BY <2>1, FS_Subset DEF ReplayTyped
  <2>3. Append(expiring, k) \in Seq(Keys) /\ expiring \in Seq(Keys)
    BY <1>1 DEF ReplayTyped
  <2> QED
    BY <1>1, <1>5, <1>8, <1>9, <2>2, <2>3 DEF ReplayTyped
<1>11. \A d \in MutationStreams : d # c /\ stream[d].pc \in Working =>
         stream'[d] = stream[d] /\ stream[d].key \in Keys /\ stream[d].key # k
  <2> SUFFICES ASSUME NEW d \in MutationStreams, d # c, stream[d].pc \in Working
               PROVE  stream'[d] = stream[d] /\ stream[d].key \in Keys
                      /\ stream[d].key # k
    OBVIOUS
  <2>1. stream[d].pc # "waiting"
    BY DEF Working
  <2>2. stream[d] \in Worker
    BY CallFields
  <2>3. cached[stream[d].key].by = d
    BY DEF WorkersHoldKeys, At
  <2> QED
    BY <1>1, <1>2, <2>1, <2>2, <2>3 DEF Worker
<1>12. \A d \in MutationStreams : stream'[d].pc \in Working \cup {"waiting"} =>
         d # c /\ stream'[d] = stream[d] /\ ~ hears(d)
  <2> SUFFICES ASSUME NEW d \in MutationStreams, stream'[d].pc \in Working \cup {"waiting"}
               PROVE  ~ hears(d)
    BY <1>2
  <2>1. stream'[d].pc # "ready"
    BY DEF Working
  <2>2. ASSUME hears(d) PROVE stream'[d].pc = "ready"
    <3>1. stream'[d] = [pc |-> "ready", body |-> stream[d].body, got |-> stream[c].body]
      BY <1>2, <2>2
    <3> QED
      BY <3>1
  <2> QED
    BY <2>1, <2>2
<1>13. \A j \in Keys : cached'[j].state = "flying" =>
         /\ j # k /\ cached[j].state = "flying" /\ cached'[j] = cached[j]
         /\ cached[j].by \in MutationStreams /\ cached[j].by # c
  BY <1>6, <1>8, EntryFields DEF Flying, Free, WorkersHoldKeys, At
<1>14. WorkersHoldKeys'
  <2>1. ASSUME NEW d \in MutationStreams, stream'[d].pc \in Working
        PROVE  LET j == stream'[d].key IN
               cached'[j].state = "flying" /\ cached'[j].by = d
               /\ cached'[j].body = stream'[d].body
    BY <1>6, <1>11, <1>12, <2>1 DEF WorkersHoldKeys, At
  <2>2. ASSUME NEW j \in Keys, cached'[j].state = "flying"
        PROVE  stream'[cached'[j].by].pc \in Working /\ stream'[cached'[j].by].key = j
    BY <1>11, <1>13, <2>2 DEF WorkersHoldKeys, At
  <2> QED
    BY <2>1, <2>2 DEF WorkersHoldKeys, At
<1>15. WaitersAreServed'
  <2>1. ASSUME NEW d \in MutationStreams, stream'[d].pc = "waiting"
        PROVE  /\ stream'[stream'[d].on].pc \in Working
               /\ stream'[stream'[d].on].body = stream'[d].body
    <3>1. stream'[d] = stream[d] /\ stream[d].on # c /\ stream[d].pc = "waiting"
      BY <1>12, <2>1
    <3>2. stream[d].on \in MutationStreams
      BY <1>3, <3>1 DEF WaitingCall
    <3> QED
      BY <1>3, <1>11, <3>1, <3>2 DEF At
  <2>2. ASSUME NEW d \in MutationStreams, stream'[d].pc = "ready"
        PROVE  stream'[d].got = stream'[d].body
    BY <1>2, <1>4, <2>2 DEF WaitersAreServed, At
  <2> QED
    BY <2>1, <2>2 DEF WaitersAreServed, At
<1>16. OutcomesExpire'
  <2>1. k \notin ToSet(expiring)
    BY <1>1 DEF OutcomesExpire
  <2>2. CASE stream[c].pc = "refused"
    BY <1>1, <1>6, <1>8, <2>1, <2>2 DEF OutcomesExpire, Free
  <2>3. CASE stream[c].pc = "applied"
    <3>1. /\ expiring \in Seq(Keys) /\ Len(expiring) \in Nat
          /\ expiring' = Append(expiring, k) /\ Len(expiring') = Len(expiring) + 1
          /\ \A i \in 1 .. Len(expiring) : expiring'[i] = expiring[i]
          /\ expiring'[Len(expiring) + 1] = k
      BY <1>1, <1>8, <2>3 DEF ReplayTyped
    <3>2. \A i \in 1 .. Len(expiring) : expiring[i] # k
      BY <2>1 DEF ToSet
    <3>3. ASSUME NEW x
          PROVE  x \in ToSet(expiring') <=> x = k \/ x \in ToSet(expiring)
      BY <3>1 DEF ToSet
    <3>4. ASSUME NEW i \in 1 .. Len(expiring'), NEW j \in 1 .. Len(expiring'),
                 expiring'[i] = expiring'[j]
          PROVE  i = j
      BY <3>1, <3>2, <3>4 DEF OutcomesExpire
    <3>5. \A j \in Keys : cached'[j].state = "applied" <=> j \in ToSet(expiring')
      BY <1>6, <1>8, <2>3, <3>3 DEF OutcomesExpire
    <3> QED
      BY <3>4, <3>5 DEF OutcomesExpire
  <2> QED
    BY <1>1, <2>2, <2>3
<1>17. CommitsAreRemembered'
  <2> SUFFICES ASSUME NEW j \in Keys, j \notin forgotten
               PROVE  \/ commits[j] = 0
                      \/ /\ commits[j] = 1
                         /\ \/ cached'[j].state = "applied"
                            \/ /\ cached'[j].state = "flying"
                               /\ stream'[cached'[j].by].pc = "applied"
    BY <1>1 DEF CommitsAreRemembered, At
  <2>1. CASE j = k
    BY <1>1, <1>8, <2>1 DEF CommitsAreRemembered, At
  <2>2. CASE j # k
    <3>1. cached[j].state = "flying" =>
            /\ cached[j].by \in MutationStreams /\ cached[j].by # c
            /\ At(cached[j].by, Working)
      BY <2>2, <1>6, <1>13 DEF WorkersHoldKeys
    <3> QED
      BY <1>6, <1>11, <2>2, <3>1 DEF CommitsAreRemembered, At, Working
  <2> QED
    BY <2>1, <2>2
<1> QED
  BY <1>10, <1>14, <1>15, <1>16, <1>17

LEMMA ExpiresStep ==
    ASSUME ReplayInv, Expires
    PROVE  ReplayInv'
<1> USE DEF ReplayInv
<1>1. expiring \in Seq(Keys) /\ Len(expiring) \in Nat \ {0}
  BY DEF Expires, ReplayTyped
<1> PICK n \in 0 .. Len(expiring) : n = 1
  BY <1>1
<1> DEFINE gone == ToSet(SubSeq(expiring, 1, n))
<1>2. gone = {Head(expiring)}
  <2>1. /\ SubSeq(expiring, 1, n) \in Seq(Keys) /\ Len(SubSeq(expiring, 1, n)) = 1
        /\ SubSeq(expiring, 1, n)[1] = Head(expiring)
    BY <1>1
  <2> QED
    BY <2>1 DEF ToSet
<1>3. expiring' = SubSeq(expiring, n + 1, Len(expiring))
  BY <1>1, TailIsSubSeq DEF Expires
<1>4. /\ expiring' \in Seq(Keys)
      /\ gone \subseteq Keys
      /\ \A j \in gone : cached[j].state = "applied"
      /\ \A j \in Keys : j \in ToSet(expiring')
           <=> cached[j].state = "applied" /\ j \notin gone
      /\ \A i, j \in 1 .. Len(expiring') : expiring'[i] = expiring'[j] => i = j
  BY <1>3, OutcomesLeave
<1>5. /\ cached' = Dropping(gone) /\ forgotten' = forgotten \cup gone
      /\ stream' = stream /\ commits' = commits /\ restarts' = restarts
  BY <1>2 DEF Expires
<1> HIDE DEF gone
<1>6. \A j \in Keys : cached'[j] = IF j \in gone THEN Free ELSE cached[j]
  BY <1>5 DEF Dropping
<1>7. ReplayTyped'
  <2>1. Entries' \subseteq Entries
    BY <1>6 DEF Entries
  <2>2. IsFiniteSet(Entries')
    BY <2>1, FS_Subset DEF ReplayTyped
  <2>3. cached' \in [Keys -> {Free} \cup Flying \cup KeptOutcome]
    BY <1>5 DEF ReplayTyped, Dropping
  <2> QED
    BY <1>4, <1>5, <2>2, <2>3 DEF ReplayTyped
<1>8. \A j \in Keys : cached'[j].state = "flying" <=> cached[j].state = "flying"
  BY <1>4, <1>6 DEF Free
<1>9. \A j \in Keys : cached[j].state = "flying" => cached'[j] = cached[j]
  BY <1>4, <1>6
<1>10. \A d \in MutationStreams : stream[d].pc \in Working => stream[d].key \in Keys
  BY CallFields DEF Worker
<1>11. WorkersHoldKeys'
  BY <1>5, <1>8, <1>9, <1>10 DEF WorkersHoldKeys, At
<1>12. WaitersAreServed'
  BY <1>5 DEF WaitersAreServed, At
<1>13. OutcomesExpire'
  BY <1>4, <1>6 DEF OutcomesExpire, Free
<1>14. CommitsAreRemembered'
  BY <1>5, <1>6, <1>8, <1>9 DEF CommitsAreRemembered, At
<1> QED
  BY <1>7, <1>11, <1>12, <1>13, <1>14

LEMMA AgentRestartsStep ==
    ASSUME ReplayInv, AgentRestarts
    PROVE  ReplayInv'
<1> USE DEF ReplayInv
<1>1. /\ \A c \in MutationStreams : stream'[c] = IdleCall
      /\ \A k \in Keys : cached'[k] = Free
      /\ expiring' = <<>> /\ commits' = commits /\ forgotten' = forgotten \cup Entries
  BY DEF AgentRestarts
<1>2. Entries' = {} /\ IsFiniteSet(Entries')
  BY <1>1, FS_EmptySet DEF Entries
<1>3. restarts' \in 0 .. MaxRestarts
  BY ReplayAssumption DEF AgentRestarts, ReplayTyped
<1>4. ReplayTyped'
  BY <1>1, <1>2, <1>3 DEF AgentRestarts, ReplayTyped, Call
<1>5. ToSet(expiring') = {} /\ Len(expiring') = 0
  BY <1>1 DEF ToSet
<1>6. OutcomesExpire'
  BY <1>1, <1>5 DEF OutcomesExpire, Free
<1>7. \A k \in Keys : k \notin forgotten' => k \notin forgotten /\ cached[k].state = "free"
  BY <1>1, EntryFields DEF Entries
<1>8. CommitsAreRemembered'
  BY <1>1, <1>7 DEF CommitsAreRemembered
<1>9. WorkersHoldKeys' /\ WaitersAreServed'
  BY <1>1 DEF WorkersHoldKeys, WaitersAreServed, At, Working, IdleCall, Free
<1> QED
  BY <1>4, <1>6, <1>8, <1>9

LEMMA ReplayStep == ReplayInv /\ [MRNext]_mrVars => ReplayInv'
<1> SUFFICES ASSUME ReplayInv, [MRNext]_mrVars PROVE ReplayInv'
  OBVIOUS
<1>1. ASSUME NEW c \in MutationStreams, Executes(c) PROVE ReplayInv'
  BY <1>1, ExecutesStep
<1>2. ASSUME NEW c \in MutationStreams, Records(c) PROVE ReplayInv'
  BY <1>2, RecordsStep
<1>3. ASSUME NEW c \in MutationStreams, Returns(c) PROVE ReplayInv'
  BY <1>3, ReturnsStep
<1>4. ASSUME NEW c \in MutationStreams, NEW k \in Keys, NEW b \in Bodies,
             JoinsEntry(c, k, b)
      PROVE  ReplayInv'
  BY <1>4, JoinsEntryStep
<1>5. ASSUME NEW c \in MutationStreams, NEW k \in Keys, NEW b \in Bodies,
             MakesEntry(c, k, b)
      PROVE  ReplayInv'
  BY <1>5, MakesEntryStep
<1>6. CASE Expires
  BY <1>6, ExpiresStep
<1>7. CASE AgentRestarts
  BY <1>7, AgentRestartsStep
<1>8. CASE UNCHANGED mrVars
  BY <1>8 DEF mrVars, ReplayInv, ReplayTyped, Entries, WorkersHoldKeys, WaitersAreServed,
     OutcomesExpire, CommitsAreRemembered, At
<1> QED
  BY <1>1, <1>2, <1>3, <1>4, <1>5, <1>6, <1>7, <1>8 DEF MRNext

-----------------------------------------------------------------------------
(* MutationReplay: the theorems.                                            *)

\* do in resource_mutation_cache.go: calls, entries, queue and history keep their
\* types, and a map that grows only by one entry at a time stays finite.
THEOREM ReplayTypeCorrect == MRSpec => []MRTypeOK
<1>1. ReplayInv => MRTypeOK
  <2> SUFFICES ASSUME ReplayTyped PROVE MRTypeOK
    BY DEF ReplayInv
  <2> QED
    BY CallFields, EntryFields DEF MRTypeOK, ReplayTyped, Working
<1> QED
  BY <1>1, ReplayInit, ReplayStep, PTL DEF MRSpec

\* do in resource_mutation_cache.go: however many calls carry a mutation under one
\* key, overlapping or repeated, and whatever the limit of the cache, the API server
\* takes it at most once until its outcome has expired, was evicted, or went with the
\* process.
THEOREM ReplayPerformsOnce == MRSpec => []PerformedOnce
<1>1. ReplayInv => PerformedOnce
  <2> SUFFICES ASSUME ReplayInv, NEW k \in Keys, k \notin forgotten
               PROVE  ~ commits[k] > 1
    BY DEF PerformedOnce
  <2>1. commits[k] = 0 \/ commits[k] = 1
    BY DEF ReplayInv, CommitsAreRemembered
  <2> QED
    BY <2>1
<1> QED
  BY <1>1, ReplayInit, ReplayStep, PTL DEF MRSpec

\* do in resource_mutation_cache.go: every answer is the outcome of the request it
\* was asked for; who waits has a call at work on it; and a key is reserved only by a
\* call at work on it or by an outcome that will expire.
THEOREM ReplayAnswersAreDue == MRSpec => []AnswersAreDue
<1>1. ReplayInv => AnswersAreDue
  <2> SUFFICES ASSUME ReplayInv PROVE AnswersAreDue
    OBVIOUS
  <2>1. \A c \in MutationStreams : stream[c].pc = "ready" => stream[c].got = stream[c].body
    BY DEF ReplayInv, WaitersAreServed, At
  <2>2. \A c \in MutationStreams : stream[c].pc = "waiting" =>
          stream[stream[c].on].pc \in {"executing", "refused", "applied"}
    BY DEF ReplayInv, WaitersAreServed, At, Working
  <2>3. ASSUME NEW k \in Entries
        PROVE  IF cached[k].state = "flying"
               THEN LET by == stream[cached[k].by] IN
                    by.pc \in {"executing", "refused", "applied"} /\ by.key = k
               ELSE k \in ToSet(expiring)
    <3>1. k \in Keys /\ cached[k].state \in {"flying", "applied"}
      BY EntryFields DEF ReplayInv, Entries
    <3> QED
      BY <3>1 DEF ReplayInv, WorkersHoldKeys, OutcomesExpire, At, Working
  <2> QED
    BY <2>1, <2>2, <2>3 DEF AnswersAreDue
<1> QED
  BY <1>1, ReplayInit, ReplayStep, PTL DEF MRSpec

-----------------------------------------------------------------------------
(* ClusterOverview: the inductive invariant.                                *)

Entry == [snapshot : Loads \cup {NoLoad}, age : Ages \cup {"absent"},
          call : Loads \cup {NoLoad}, waiting : BOOLEAN]
LoadRecord == [clusters : SUBSET OverviewClusters,
               state : {"none", "running"} \cup Outcomes]
CallerRecord == [clusters : SUBSET OverviewClusters, call : Loads \cup {NoLoad},
                 floor : Loads \cup {NoLoad}, answer : Loads \cup {NoLoad}]

CacheTyped ==
    /\ overview \in [OverviewClusters -> Entry]
    /\ \A c \in OverviewClusters : overview[c].age = "absent" => overview[c] = NotCached
    /\ load \in [Loads -> LoadRecord]
    /\ started \in 0 .. MaxLoads

CallersTyped ==
    /\ caller \in [Callers -> CallerRecord]
    /\ told \in [OverviewClusters -> Loads \cup {NoLoad}]

OverviewTyped == CacheTyped /\ CallersTyped

\* The map never has more entries than it may.
CacheWithinLimit == Cardinality(Cached) <= MaxCachedClusters

\* A load has its Cluster from the moment it is started.
StartedInOrder == \A i \in Loads : i > started => load[i].clusters = {}

\* The load an entry waits for is the last one of its Cluster: none is started while
\* it runs.
EntriesWaitForLatest ==
    \A c \in OverviewClusters : overview[c].call # NoLoad =>
        /\ c \in load[overview[c].call].clusters
        /\ \A i \in Loads : c \in load[i].clusters => i <= overview[c].call

\* Callers are answered from loads of the Cluster they ask about.
ToldFromLoads ==
    \A c \in OverviewClusters : told[c] # NoLoad => c \in load[told[c]].clusters

AwaitsLoad(k, c) == caller[k].call # NoLoad /\ caller[k].clusters = {c}

\* A caller waits for a load of the Cluster it asks about, and for none that is older
\* than what callers had been told.
CallersWaitForLoads ==
    \A k \in Callers, c \in OverviewClusters : AwaitsLoad(k, c) =>
        c \in load[caller[k].call].clusters /\ caller[k].floor <= caller[k].call

\* While a snapshot may be returned, nobody has been or will be told of a later load,
\* unless one that the entry stores first: callers wait only once it has become old.
SnapshotsAreLatest ==
    \A c \in OverviewClusters : overview[c].age \in {"fresh", "stale"} =>
        /\ overview[c].snapshot # NoLoad
        /\ c \in load[overview[c].snapshot].clusters
        /\ told[c] <= overview[c].snapshot
        /\ \A k \in Callers : AwaitsLoad(k, c) => caller[k].call <= overview[c].snapshot

\* What is said of the cache, and of what callers know, which is what the cache must
\* not go behind.
CacheInv == CacheTyped /\ StartedInOrder /\ EntriesWaitForLatest

CallersInv == CallersTyped /\ ToldFromLoads /\ CallersWaitForLoads
              /\ SnapshotsAreLatest /\ OverviewGoesForward

OverviewInv == CacheInv /\ CallersInv

-----------------------------------------------------------------------------

\* The numbers of loads are natural numbers, and NoLoad is none of them.
LEMMA LoadNumbers ==
    /\ NoLoad = 0 /\ \A i \in Loads : i \in Nat /\ i > 0 /\ i <= MaxLoads
    /\ \A i \in Loads \cup {NoLoad} : i \in Nat
    /\ \A n \in Nat : n < MaxLoads => n + 1 \in Loads
BY OverviewAssumption DEF Loads, NoLoad

LEMMA EntryTypes == NewEntry \in Entry /\ NotCached \in Entry
BY DEF NewEntry, NotCached, Entry, Ages

LEMMA OverviewInit == COInit => OverviewInv
<1> SUFFICES ASSUME COInit PROVE OverviewInv
  OBVIOUS
<1>1. OverviewTyped
  BY EntryTypes, LoadNumbers, OverviewAssumption
     DEF COInit, OverviewTyped, CacheTyped, CallersTyped, LoadRecord, CallerRecord, NotStarted, Idle
<1>2. StartedInOrder /\ EntriesWaitForLatest /\ ToldFromLoads
  BY DEF COInit, StartedInOrder, EntriesWaitForLatest, ToldFromLoads, NotStarted,
         NotCached, NewEntry
<1>3. CallersWaitForLoads /\ SnapshotsAreLatest /\ OverviewGoesForward
  BY DEF COInit, CallersWaitForLoads, SnapshotsAreLatest, OverviewGoesForward, AwaitsLoad,
         Idle, NotCached, NewEntry
<1> QED
  BY <1>1, <1>2, <1>3 DEF OverviewInv, CacheInv, CallersInv, OverviewTyped

\* What starting a load changes.
LEMMA LoadStarts ==
    ASSUME OverviewInv, NEW c \in OverviewClusters, StartsLoad(c)
    PROVE  /\ started' = started + 1 /\ started' \in Loads /\ started' \in 0 .. MaxLoads
           /\ load' \in [Loads -> LoadRecord]
           /\ load'[started'].clusters = {c}
           /\ \A i \in Loads : i # started' => load'[i] = load[i]
           /\ StartedInOrder'
           /\ \A d \in OverviewClusters : told[d] < started'
           /\ \A i \in Loads, d \in OverviewClusters :
                d \in load[i].clusters => i < started' /\ d \in load'[i].clusters
<1>1. OverviewTyped /\ StartedInOrder /\ ToldFromLoads
  BY DEF OverviewInv, CacheInv, CallersInv, OverviewTyped
<1>2. started' = started + 1 /\ started' \in Loads /\ started' \in 0 .. MaxLoads
  BY <1>1, LoadNumbers, OverviewAssumption DEF StartsLoad, OverviewTyped, CacheTyped, CallersTyped
<1>3. [clusters |-> {c}, state |-> "running"] \in LoadRecord
  BY DEF LoadRecord
<1>4. load' = [load EXCEPT ![started'] = [clusters |-> {c}, state |-> "running"]]
  BY DEF StartsLoad
<1>5. /\ load' \in [Loads -> LoadRecord]
      /\ load'[started'].clusters = {c}
      /\ \A i \in Loads : i # started' => load'[i] = load[i]
  BY <1>1, <1>2, <1>3, <1>4 DEF OverviewTyped, CacheTyped, CallersTyped
<1>6. StartedInOrder'
  <2> SUFFICES ASSUME NEW i \in Loads, i > started'
               PROVE  load'[i].clusters = {}
    BY DEF StartedInOrder
  <2>1. started \in Nat /\ i \in Nat
    BY <1>1, LoadNumbers, OverviewAssumption DEF OverviewTyped, CacheTyped
  <2>2. i # started' /\ i > started
    BY <1>2, <2>1
  <2> QED
    BY <1>1, <1>5, <2>2 DEF StartedInOrder
<1>7. \A i \in Loads, d \in OverviewClusters :
        d \in load[i].clusters => i < started' /\ d \in load'[i].clusters
  BY <1>1, <1>2, <1>5, LoadNumbers DEF StartedInOrder, OverviewTyped, CacheTyped, CallersTyped
<1>8. \A d \in OverviewClusters : told[d] < started'
  <2> SUFFICES ASSUME NEW d \in OverviewClusters PROVE told[d] < started'
    OBVIOUS
  <2>1. CASE told[d] = NoLoad
    BY <1>2, <2>1, LoadNumbers
  <2>2. CASE told[d] # NoLoad
    <3>1. told[d] \in Loads /\ d \in load[told[d]].clusters
      BY <1>1, <2>2 DEF ToldFromLoads, OverviewTyped, CacheTyped, CallersTyped
    <3> QED
      BY <1>7, <3>1
  <2> QED
    BY <2>1, <2>2
<1> QED
  BY <1>2, <1>5, <1>6, <1>7, <1>8

\* Nothing of the cache that callers look at changes, but loads may be started.
Unseen ==
    /\ \A d \in OverviewClusters : overview'[d].age \in {"fresh", "stale"} =>
         overview'[d].age = overview[d].age /\ overview'[d].snapshot = overview[d].snapshot
    /\ \A i \in Loads, d \in OverviewClusters :
         d \in load[i].clusters => d \in load'[i].clusters

\* A caller that is answered from a snapshot, or with an error, is not told of a load
\* that is older than what had been told.
LEMMA CallersAnswered ==
    ASSUME OverviewInv, Unseen, NEW k \in Callers, NEW c \in OverviewClusters,
           NEW i \in Loads \cup {NoLoad}, Answers(k, c, i),
           \/ i = NoLoad
           \/ overview[c].age \in {"fresh", "stale"} /\ i = overview[c].snapshot
    PROVE  CallersInv'
<1>1. /\ OverviewTyped /\ ToldFromLoads /\ CallersWaitForLoads /\ SnapshotsAreLatest
      /\ OverviewGoesForward
  BY DEF OverviewInv, CacheInv, CallersInv, OverviewTyped
<1>2. told[c] \in Loads \cup {NoLoad} /\ (i # NoLoad => told[c] <= i)
  BY <1>1 DEF OverviewTyped, CacheTyped, CallersTyped, SnapshotsAreLatest
<1>3. told' = [told EXCEPT ![c] = IF i # NoLoad THEN i ELSE told[c]]
  <2>1. Later(told[c], i) = IF i # NoLoad THEN i ELSE told[c]
    <3>1. NoLoad = 0 /\ told[c] \in Nat /\ i \in Nat
      BY <1>2, LoadNumbers
    <3> QED
      BY <1>2, <3>1 DEF Later
  <2>2. told' = [told EXCEPT ![c] = Later(told[c], i)]
    BY DEF Answers
  <2> QED
    BY <2>1, <2>2
<1>4. told' \in [OverviewClusters -> Loads \cup {NoLoad}]
  BY <1>1, <1>2, <1>3 DEF OverviewTyped, CacheTyped, CallersTyped
<1>5. caller' = [caller EXCEPT ![k] = [clusters |-> {c}, call |-> NoLoad,
                                       floor |-> told[c], answer |-> i]]
  BY DEF Answers
<1>6. caller' \in [Callers -> CallerRecord]
  BY <1>1, <1>2, <1>5 DEF OverviewTyped, CacheTyped, CallersTyped, CallerRecord
<1>7. \A q \in Callers, d \in OverviewClusters :
        AwaitsLoad(q, d)' => q # k /\ caller'[q] = caller[q] /\ AwaitsLoad(q, d)
  BY <1>1, <1>5 DEF AwaitsLoad, OverviewTyped, CacheTyped, CallersTyped
<1>8. ToldFromLoads'
  BY <1>1, <1>3 DEF ToldFromLoads, SnapshotsAreLatest, Unseen, OverviewTyped, CacheTyped, CallersTyped
<1>9. CallersWaitForLoads'
  <2> SUFFICES ASSUME NEW q \in Callers, NEW d \in OverviewClusters, AwaitsLoad(q, d)'
               PROVE  /\ d \in load'[caller'[q].call].clusters
                      /\ caller'[q].floor <= caller'[q].call
    BY DEF CallersWaitForLoads
  <2>1. caller'[q] = caller[q] /\ AwaitsLoad(q, d) /\ caller[q].call \in Loads
    BY <1>1, <1>7 DEF OverviewTyped, CacheTyped, CallersTyped, AwaitsLoad, CallerRecord
  <2> QED
    BY <1>1, <2>1 DEF CallersWaitForLoads, Unseen
<1>10. SnapshotsAreLatest'
  <2> SUFFICES ASSUME NEW d \in OverviewClusters, overview'[d].age \in {"fresh", "stale"}
               PROVE  /\ overview'[d].snapshot # NoLoad
                      /\ d \in load'[overview'[d].snapshot].clusters
                      /\ told'[d] <= overview'[d].snapshot
                      /\ \A q \in Callers :
                           AwaitsLoad(q, d)' => caller'[q].call <= overview'[d].snapshot
    BY DEF SnapshotsAreLatest
  <2>1. /\ overview[d].age \in {"fresh", "stale"}
        /\ overview'[d].snapshot = overview[d].snapshot
        /\ overview[d].snapshot \in Loads
    BY <1>1 DEF Unseen, OverviewTyped, CacheTyped, CallersTyped, Entry, SnapshotsAreLatest
  <2>2. told'[d] <= overview[d].snapshot
    BY <1>1, <1>2, <1>3, <2>1, LoadNumbers DEF SnapshotsAreLatest, OverviewTyped, CacheTyped, CallersTyped
  <2> QED
    BY <1>1, <1>7, <2>1, <2>2 DEF SnapshotsAreLatest, Unseen
<1>11. OverviewGoesForward'
  BY <1>1, <1>2, <1>5 DEF OverviewGoesForward, OverviewTyped, CacheTyped, CallersTyped
<1> QED
  BY <1>4, <1>6, <1>8, <1>9, <1>10, <1>11 DEF CallersInv, CallersTyped

\* A caller that has to wait does so for a load that is not older than what had been
\* told, of a Cluster whose snapshot is not returned.
LEMMA Waits ==
    ASSUME OverviewInv, Unseen, NEW k \in Callers, NEW c \in OverviewClusters,
           NEW i \in Loads, WaitsForLoad(k, c, i), told[c] <= i,
           c \in load'[i].clusters, overview'[c].age \notin {"fresh", "stale"}
    PROVE  CallersInv'
<1>1. /\ OverviewTyped /\ ToldFromLoads /\ CallersWaitForLoads /\ SnapshotsAreLatest
      /\ OverviewGoesForward
  BY DEF OverviewInv, CacheInv, CallersInv, OverviewTyped
<1>2. caller' = [caller EXCEPT ![k] = [clusters |-> {c}, call |-> i,
                                       floor |-> told[c], answer |-> NoLoad]]
      /\ told' = told
  BY DEF WaitsForLoad
<1>3. caller' \in [Callers -> CallerRecord]
  BY <1>1, <1>2 DEF OverviewTyped, CacheTyped, CallersTyped, CallerRecord
<1>4. ToldFromLoads'
  BY <1>1, <1>2 DEF ToldFromLoads, Unseen, OverviewTyped, CacheTyped, CallersTyped
<1>5. \A q \in Callers, d \in OverviewClusters : AwaitsLoad(q, d)' =>
        \/ q = k /\ d = c
        \/ caller'[q] = caller[q] /\ AwaitsLoad(q, d) /\ caller[q].call \in Loads
  BY <1>1, <1>2 DEF AwaitsLoad, OverviewTyped, CacheTyped, CallersTyped, CallerRecord
<1>6. CallersWaitForLoads'
  <2> SUFFICES ASSUME NEW q \in Callers, NEW d \in OverviewClusters, AwaitsLoad(q, d)'
               PROVE  /\ d \in load'[caller'[q].call].clusters
                      /\ caller'[q].floor <= caller'[q].call
    BY DEF CallersWaitForLoads
  <2>1. CASE q = k /\ d = c
    BY <1>1, <1>2, <2>1 DEF OverviewTyped, CacheTyped, CallersTyped
  <2>2. CASE caller'[q] = caller[q] /\ AwaitsLoad(q, d) /\ caller[q].call \in Loads
    BY <1>1, <2>2 DEF CallersWaitForLoads, Unseen
  <2> QED
    BY <1>5, <2>1, <2>2
<1>7. SnapshotsAreLatest'
  <2> SUFFICES ASSUME NEW d \in OverviewClusters, overview'[d].age \in {"fresh", "stale"}
               PROVE  /\ overview'[d].snapshot # NoLoad
                      /\ d \in load'[overview'[d].snapshot].clusters
                      /\ told'[d] <= overview'[d].snapshot
                      /\ \A q \in Callers :
                           AwaitsLoad(q, d)' => caller'[q].call <= overview'[d].snapshot
    BY DEF SnapshotsAreLatest
  <2>1. /\ overview[d].age \in {"fresh", "stale"} /\ d # c
        /\ overview'[d].snapshot = overview[d].snapshot
        /\ overview[d].snapshot \in Loads
    BY <1>1 DEF Unseen, OverviewTyped, CacheTyped, CallersTyped, Entry, SnapshotsAreLatest
  <2> QED
    BY <1>1, <1>2, <1>5, <2>1 DEF SnapshotsAreLatest, Unseen
<1>8. OverviewGoesForward'
  BY <1>1, <1>2 DEF OverviewGoesForward, OverviewTyped, CacheTyped, CallersTyped
<1> QED
  BY <1>1, <1>2, <1>3, <1>4, <1>6, <1>7, <1>8 DEF CallersInv, OverviewTyped, CacheTyped, CallersTyped

\* An entry that has no load starts one: it is the latest.
LEMMA EntryStartsLoad ==
    ASSUME CacheInv, CallersInv, NEW c \in OverviewClusters, StartsLoad(c),
           overview[c].age # "absent",
           overview' = [overview EXCEPT ![c].call = started']
    PROVE  CacheInv' /\ Unseen
<1>1. OverviewInv
  BY DEF OverviewInv
<1>2. /\ started' \in Loads /\ started' \in 0 .. MaxLoads
      /\ load' \in [Loads -> LoadRecord] /\ load'[started'].clusters = {c}
      /\ StartedInOrder'
      /\ \A i \in Loads : i # started' => load'[i] = load[i]
      /\ \A i \in Loads, d \in OverviewClusters :
           d \in load[i].clusters => i < started' /\ d \in load'[i].clusters
  BY <1>1, LoadStarts
<1>3. /\ overview' \in [OverviewClusters -> Entry]
      /\ overview'[c].call = started' /\ overview'[c].age = overview[c].age
      /\ overview'[c].snapshot = overview[c].snapshot
      /\ \A d \in OverviewClusters : d # c => overview'[d] = overview[d]
  BY <1>2 DEF CacheInv, CacheTyped, Entry
<1>4. EntriesWaitForLatest'
  <2> SUFFICES ASSUME NEW d \in OverviewClusters, overview'[d].call # NoLoad
               PROVE  /\ d \in load'[overview'[d].call].clusters
                      /\ \A i \in Loads :
                           d \in load'[i].clusters => i <= overview'[d].call
    BY DEF EntriesWaitForLatest
  <2>1. CASE d = c
    BY <1>2, <1>3, <2>1, LoadNumbers
  <2>2. CASE d # c
    <3>1. overview'[d] = overview[d] /\ overview[d].call \in Loads
      BY <1>3, <2>2 DEF CacheInv, CacheTyped, Entry
    <3> QED
      BY <1>2, <2>2, <3>1 DEF CacheInv, EntriesWaitForLatest
  <2> QED
    BY <2>1, <2>2
<1>5. CacheTyped'
  BY <1>2, <1>3 DEF CacheInv, CacheTyped
<1>6. Unseen
  BY <1>2, <1>3 DEF Unseen
<1> QED
  BY <1>2, <1>4, <1>5, <1>6 DEF CacheInv

\* A change to one entry that starts no load and sees to it that the entry waits for
\* nothing new.
LEMMA EntryChanges ==
    ASSUME CacheInv, NEW c \in OverviewClusters, NEW entry \in Entry,
           overview' = [overview EXCEPT ![c] = entry], entry.age # "absent",
           entry.call \in {overview[c].call, NoLoad}, UNCHANGED <<load, started>>
    PROVE  CacheInv'
<1>1. overview' \in [OverviewClusters -> Entry] /\ overview'[c] = entry
      /\ \A d \in OverviewClusters : d # c => overview'[d] = overview[d]
  BY DEF CacheInv, CacheTyped
<1> QED
  BY <1>1 DEF CacheInv, CacheTyped, StartedInOrder, EntriesWaitForLatest

-----------------------------------------------------------------------------
(* The actions.                                                             *)

LEMMA FreshStep ==
    ASSUME OverviewInv, NEW k \in Callers, NEW c \in OverviewClusters, GetFresh(k, c)
    PROVE  OverviewInv'
<1>1. CacheInv' /\ Unseen
  BY DEF OverviewInv, CacheInv, CacheTyped, StartedInOrder, EntriesWaitForLatest, Unseen,
         GetFresh
<1>2. overview[c].snapshot \in Loads \cup {NoLoad}
  BY DEF OverviewInv, CacheInv, CacheTyped, Entry
<1> QED
  BY <1>1, <1>2, CallersAnswered DEF GetFresh, OverviewInv

LEMMA StaleStep ==
    ASSUME OverviewInv, NEW k \in Callers, NEW c \in OverviewClusters, GetStale(k, c)
    PROVE  OverviewInv'
<1>1. CacheInv /\ CallersInv
  BY DEF OverviewInv
<1>2. CacheInv' /\ Unseen
  <2>1. CASE overview[c].call # NoLoad \/ overview[c].waiting
    BY <1>1, <2>1 DEF CacheInv, CacheTyped, StartedInOrder, EntriesWaitForLatest, Unseen,
       GetStale
  <2>2. CASE ~(overview[c].call # NoLoad \/ overview[c].waiting)
    BY <1>1, <2>2, EntryStartsLoad DEF GetStale
  <2> QED
    BY <2>1, <2>2
<1>3. overview[c].snapshot \in Loads \cup {NoLoad}
  BY <1>1 DEF CacheInv, CacheTyped, Entry
<1> QED
  BY <1>2, <1>3, CallersAnswered DEF GetStale, OverviewInv

LEMMA ByEntryStep ==
    ASSUME OverviewInv, NEW k \in Callers, NEW c \in OverviewClusters, GetByEntry(k, c)
    PROVE  OverviewInv'
<1>1. CacheInv /\ CallersInv
  BY DEF OverviewInv
<1>2. ASSUME UNCHANGED <<overview, load, started>>
      PROVE  CacheInv' /\ Unseen
  BY <1>1, <1>2 DEF CacheInv, CacheTyped, StartedInOrder, EntriesWaitForLatest, Unseen
<1>3. CASE overview[c].call # NoLoad
  <2>1. WaitsForLoad(k, c, overview[c].call) /\ UNCHANGED <<overview, load, started>>
    BY <1>3 DEF GetByEntry
  <2>2. overview[c].call \in Loads /\ overview'[c].age = "old"
    BY <1>1, <1>3, <2>1 DEF CacheInv, CacheTyped, Entry, GetByEntry
  <2>3. told[c] <= overview[c].call
    <3>1. CASE told[c] = NoLoad
      BY <2>2, <3>1, LoadNumbers
    <3>2. CASE told[c] # NoLoad
      BY <1>1, <1>3, <3>2
         DEF CacheInv, CallersInv, CallersTyped, EntriesWaitForLatest, ToldFromLoads
    <3> QED
      BY <3>1, <3>2
  <2>4. c \in load'[overview[c].call].clusters
    BY <1>1, <1>3, <2>1 DEF CacheInv, EntriesWaitForLatest
  <2> QED
    BY <1>2, <2>1, <2>2, <2>3, <2>4, Waits DEF OverviewInv
<1>4. CASE overview[c].call = NoLoad /\ overview[c].waiting
  <2>1. Answers(k, c, NoLoad) /\ UNCHANGED <<overview, load, started>>
    BY <1>4 DEF GetByEntry
  <2> QED
    BY <1>2, <2>1, CallersAnswered DEF OverviewInv
<1>5. CASE overview[c].call = NoLoad /\ ~overview[c].waiting
  <2>1. /\ StartsLoad(c) /\ WaitsForLoad(k, c, started')
        /\ overview' = [overview EXCEPT ![c].call = started']
        /\ overview[c].age = "old"
    BY <1>5 DEF GetByEntry
  <2>2. CacheInv' /\ Unseen
    BY <1>1, <2>1, EntryStartsLoad
  <2>3. started' \in Loads /\ c \in load'[started'].clusters /\ told[c] < started'
    BY <2>1, LoadStarts
  <2>4. told[c] <= started' /\ overview'[c].age \notin {"fresh", "stale"}
    BY <1>1, <2>1, <2>3, LoadNumbers
       DEF CacheInv, CacheTyped, CallersInv, CallersTyped, Entry
  <2> QED
    BY <2>1, <2>2, <2>3, <2>4, Waits DEF OverviewInv
<1> QED
  BY <1>3, <1>4, <1>5

\* What is swept is an entry that nothing waits for and that nothing can be read from.
LEMMA SweptEntries ==
    ASSUME CacheTyped
    PROVE  /\ SweptCache \in [OverviewClusters -> Entry]
           /\ \A d \in OverviewClusters :
                \/ SweptCache[d] = overview[d]
                \/ SweptCache[d] = NotCached
<1>1. \A d \in OverviewClusters :
        (IF Unread(d) THEN NotCached ELSE overview[d]) \in Entry
  BY EntryTypes DEF CacheTyped
<1> QED
  BY <1>1 DEF SweptCache, CacheTyped

LEMMA UncachedStep ==
    ASSUME OverviewInv, NEW k \in Callers, NEW c \in OverviewClusters, GetUncached(k, c)
    PROVE  OverviewInv'
<1>1. CacheInv /\ CacheTyped /\ CallersInv
  BY DEF OverviewInv, CacheInv
<1>2. StartsLoad(c) /\ WaitsForLoad(k, c, started')
  BY DEF GetUncached
<1>3. /\ started' \in Loads /\ started' \in 0 .. MaxLoads
      /\ load' \in [Loads -> LoadRecord] /\ load'[started'].clusters = {c}
      /\ StartedInOrder' /\ told[c] < started'
      /\ \A i \in Loads : i # started' => load'[i] = load[i]
      /\ \A i \in Loads, d \in OverviewClusters :
           d \in load[i].clusters => i < started' /\ d \in load'[i].clusters
  BY <1>2, LoadStarts
<1> DEFINE entry == [NewEntry EXCEPT !.call = started']
<1>4. /\ entry \in Entry /\ entry.call = started' /\ entry.age = "old"
      /\ NotCached.call = NoLoad /\ NotCached.age = "absent"
  BY <1>3 DEF NewEntry, NotCached, Entry, Ages
<1>5. /\ overview' \in [OverviewClusters -> Entry]
      /\ overview'[c] = entry \/ overview'[c] = NotCached
      /\ \A d \in OverviewClusters : d # c =>
           overview'[d] = overview[d] \/ overview'[d] = NotCached
  <2>1. overview[c] = NotCached
    BY DEF GetUncached, Cached
  <2>2. CASE Admits
    <3>1. overview' = [SweptCache EXCEPT ![c] = entry]
      BY <2>2 DEF GetUncached
    <3> QED
      BY <1>1, <1>4, <3>1, SweptEntries
  <2>3. CASE ~Admits
    <3>1. overview' = SweptCache
      BY <2>3 DEF GetUncached
    <3> QED
      BY <1>1, <2>1, <3>1, SweptEntries
  <2> QED
    BY <2>2, <2>3
<1> HIDE DEF entry
<1>6. CacheTyped'
  BY <1>1, <1>3, <1>4, <1>5 DEF CacheTyped
<1>7. EntriesWaitForLatest'
  <2> SUFFICES ASSUME NEW d \in OverviewClusters, overview'[d].call # NoLoad
               PROVE  /\ d \in load'[overview'[d].call].clusters
                      /\ \A i \in Loads :
                           d \in load'[i].clusters => i <= overview'[d].call
    BY DEF EntriesWaitForLatest
  <2>1. CASE d = c
    BY <1>3, <1>4, <1>5, <2>1, LoadNumbers
  <2>2. CASE d # c
    <3>1. overview'[d] = overview[d] /\ overview[d].call \in Loads
      BY <1>1, <1>4, <1>5, <2>2 DEF CacheTyped, Entry
    <3> QED
      BY <1>1, <1>3, <2>2, <3>1 DEF CacheInv, EntriesWaitForLatest
  <2> QED
    BY <2>1, <2>2
<1>8. Unseen /\ overview'[c].age \notin {"fresh", "stale"}
  BY <1>3, <1>4, <1>5 DEF Unseen
<1>9. told[c] <= started'
  <2>1. told[c] \in Nat /\ started' \in Nat
    BY <1>1, <1>3, LoadNumbers DEF CallersInv, CallersTyped
  <2> QED
    BY <1>3, <2>1
<1> QED
  BY <1>2, <1>3, <1>6, <1>7, <1>8, <1>9, Waits DEF OverviewInv, CacheInv

\* The load that ends is the latest of its Cluster when its entry stores it, so that
\* nobody has been told of a later one or waits for it.
LEMMA EndStep ==
    ASSUME OverviewInv, NEW i \in Loads, NEW outcome \in Outcomes, EndsLoad(i, outcome)
    PROVE  OverviewInv'
<1>1. /\ CacheInv /\ CacheTyped /\ CallersInv /\ CallersTyped /\ ToldFromLoads
      /\ CallersWaitForLoads /\ SnapshotsAreLatest /\ OverviewGoesForward
  BY DEF OverviewInv, CacheInv, CallersInv
<1>2. /\ load' \in [Loads -> LoadRecord]
      /\ \A j \in Loads : load'[j].clusters = load[j].clusters
      /\ UNCHANGED <<started, caller, told>>
  BY <1>1 DEF EndsLoad, CacheTyped, LoadRecord
<1> DEFINE stores(c) == c \in load[i].clusters /\ overview[c].call = i
<1>3. ASSUME NEW c \in OverviewClusters
      PROVE  /\ overview'[c] = IF stores(c) THEN Stored(overview[c], i, outcome)
                               ELSE overview[c]
             /\ overview[c] \in Entry
  BY <1>1 DEF EndsLoad, CacheTyped
<1>4. ASSUME NEW c \in OverviewClusters, stores(c)
      PROVE  /\ overview'[c] \in Entry /\ overview'[c].call = NoLoad
             /\ overview'[c].age # "absent"
             /\ \/ overview'[c].age = "fresh" /\ overview'[c].snapshot = i
                \/ /\ overview'[c].age = overview[c].age
                   /\ overview'[c].snapshot = overview[c].snapshot
  <2>1. overview[c].age # "absent"
    <3>1. overview[c].call # NoLoad
      BY <1>4, LoadNumbers
    <3> QED
      BY <1>1, <3>1 DEF CacheTyped, NotCached, NewEntry
  <2>2. overview'[c] = Stored(overview[c], i, outcome) /\ overview[c] \in Entry
    BY <1>3, <1>4
  <2>3. CASE outcome = "complete"
    <3>1. overview'[c] = [snapshot |-> i, age |-> "fresh", call |-> NoLoad,
                          waiting |-> FALSE]
      BY <2>2, <2>3 DEF Stored
    <3> QED
      BY <3>1 DEF Entry, Ages
  <2>4. CASE outcome \in {"error", "partial"}
    <3>1. PICK w \in BOOLEAN :
            overview'[c] = [overview[c] EXCEPT !.call = NoLoad, !.waiting = w]
      BY <2>2, <2>4 DEF Stored
    <3> QED
      BY <2>1, <2>2, <3>1 DEF Entry
  <2> QED
    BY <2>3, <2>4 DEF Outcomes
<1>5. CacheTyped'
  <2>1. overview' = [c \in OverviewClusters |-> overview'[c]]
    BY DEF EndsLoad
  <2>2. \A c \in OverviewClusters : overview'[c] \in Entry
    BY <1>3, <1>4
  <2>3. overview' \in [OverviewClusters -> Entry]
    BY <2>1, <2>2
  <2> QED
    BY <1>1, <1>2, <1>3, <1>4, <2>3 DEF CacheTyped
<1>6. StartedInOrder' /\ ToldFromLoads'
  BY <1>1, <1>2 DEF CacheInv, StartedInOrder, ToldFromLoads, CallersTyped
<1>7. EntriesWaitForLatest'
  BY <1>1, <1>2, <1>3, <1>4 DEF CacheInv, CacheTyped, Entry, EntriesWaitForLatest
<1>8. CallersWaitForLoads'
  BY <1>1, <1>2 DEF CallersWaitForLoads, AwaitsLoad, CallersTyped, CallerRecord
<1>9. SnapshotsAreLatest'
  <2> SUFFICES ASSUME NEW c \in OverviewClusters, overview'[c].age \in {"fresh", "stale"}
               PROVE  /\ overview'[c].snapshot # NoLoad
                      /\ c \in load'[overview'[c].snapshot].clusters
                      /\ told[c] <= overview'[c].snapshot
                      /\ \A k \in Callers :
                           AwaitsLoad(k, c) => caller[k].call <= overview'[c].snapshot
    BY <1>2 DEF SnapshotsAreLatest, AwaitsLoad
  <2>1. CASE /\ overview'[c].age = overview[c].age
             /\ overview'[c].snapshot = overview[c].snapshot
    <3>1. overview[c].snapshot \in Loads \cup {NoLoad}
      BY <1>3 DEF Entry
    <3> QED
      BY <1>1, <1>2, <2>1, <3>1 DEF SnapshotsAreLatest
  <2>2. CASE stores(c) /\ overview'[c].snapshot = i
    <3>1. \A j \in Loads : c \in load[j].clusters => j <= i
      BY <1>1, <2>2, LoadNumbers DEF CacheInv, EntriesWaitForLatest
    <3>2. told[c] <= i
      BY <1>1, <3>1, LoadNumbers DEF ToldFromLoads, CallersTyped
    <3>3. \A k \in Callers : AwaitsLoad(k, c) => caller[k].call <= i
      BY <1>1, <3>1 DEF CallersWaitForLoads, CallersTyped, CallerRecord, AwaitsLoad
    <3> QED
      BY <1>2, <2>2, <3>2, <3>3, LoadNumbers
  <2> QED
    BY <1>3, <1>4, <2>1, <2>2
<1>10. OverviewGoesForward' /\ CallersTyped'
  BY <1>1, <1>2 DEF OverviewGoesForward, CallersTyped
<1> QED
  BY <1>5, <1>6, <1>7, <1>8, <1>9, <1>10 DEF OverviewInv, CacheInv, CallersInv

\* A caller that has waited is told of its load, which no snapshot is behind.
LEMMA LoadedStep ==
    ASSUME OverviewInv, NEW k \in Callers, NEW c \in OverviewClusters, GetsLoaded(k, c)
    PROVE  OverviewInv'
<1>1. /\ CacheInv /\ CacheTyped /\ CallersInv /\ CallersTyped /\ ToldFromLoads
      /\ CallersWaitForLoads /\ SnapshotsAreLatest /\ OverviewGoesForward
      /\ caller[k] \in CallerRecord
  BY DEF OverviewInv, CacheInv, CallersInv, CallersTyped
<1>2. AwaitsLoad(k, c) /\ caller[k].call \in Loads /\ UNCHANGED <<overview, load, started>>
  BY <1>1 DEF GetsLoaded, AwaitsLoad, CallerRecord
<1> DEFINE i == caller[k].call
<1>3. PICK answer \in {i, NoLoad} :
        /\ caller' = [caller EXCEPT ![k].call = NoLoad, ![k].answer = answer]
        /\ told' = [told EXCEPT ![c] = Later(told[c], answer)]
  BY DEF GetsLoaded
<1>4. c \in load[i].clusters /\ caller[k].floor <= i /\ i >= caller[k].floor
  <2>1. c \in load[i].clusters /\ caller[k].floor <= i
    BY <1>1, <1>2 DEF CallersWaitForLoads
  <2>2. caller[k].floor \in Nat /\ i \in Nat
    BY <1>1, <1>2, LoadNumbers DEF CallerRecord
  <2> QED
    BY <2>1, <2>2
<1>5. told'[c] \in {told[c], i} /\ told' = [told EXCEPT ![c] = told'[c]]
  <2>1. told[c] \in Nat /\ (answer # NoLoad => answer = i) /\ NoLoad = 0
    BY <1>1, LoadNumbers DEF CallersTyped
  <2>2. Later(told[c], answer) \in {told[c], i}
    BY <2>1 DEF Later
  <2> QED
    BY <1>1, <1>3, <2>2 DEF CallersTyped
<1>6. caller'[k] = [clusters |-> caller[k].clusters, call |-> NoLoad,
                    floor |-> caller[k].floor, answer |-> answer]
      /\ \A q \in Callers : q # k => caller'[q] = caller[q]
  BY <1>1, <1>3 DEF CallersTyped, CallerRecord
<1>7. caller'[k] \in CallerRecord
  BY <1>1, <1>2, <1>6 DEF CallerRecord
<1>8. CallersTyped'
  BY <1>1, <1>2, <1>3, <1>5, <1>6, <1>7 DEF CallersTyped
<1> HIDE DEF i
<1>9. \A q \in Callers, d \in OverviewClusters :
        AwaitsLoad(q, d)' => q # k /\ caller'[q] = caller[q] /\ AwaitsLoad(q, d)
  BY <1>6 DEF AwaitsLoad
<1>10. ToldFromLoads'
  BY <1>1, <1>2, <1>4, <1>5 DEF ToldFromLoads, CallersTyped
<1>11. CallersWaitForLoads'
  BY <1>1, <1>2, <1>9 DEF CallersWaitForLoads
<1>12. SnapshotsAreLatest'
  <2> SUFFICES ASSUME NEW d \in OverviewClusters, overview[d].age \in {"fresh", "stale"}
               PROVE  /\ told'[d] <= overview[d].snapshot
                      /\ \A q \in Callers :
                           AwaitsLoad(q, d)' => caller'[q].call <= overview[d].snapshot
    BY <1>1, <1>2 DEF SnapshotsAreLatest
  <2>1. told[d] <= overview[d].snapshot /\ (d = c => i <= overview[d].snapshot)
    BY <1>1, <1>2 DEF SnapshotsAreLatest, i
  <2>2. told'[d] = told[d] \/ (d = c /\ told'[d] = i)
    BY <1>1, <1>5 DEF CallersTyped
  <2> QED
    BY <1>1, <1>9, <2>1, <2>2 DEF SnapshotsAreLatest
<1>13. OverviewGoesForward'
  <2> SUFFICES ASSUME NEW q \in Callers, caller'[q].answer # NoLoad
               PROVE  caller'[q].answer >= caller'[q].floor
    BY DEF OverviewGoesForward
  <2>1. CASE q = k
    <3>1. caller'[q].answer = i /\ caller'[q].floor = caller[k].floor
      BY <1>6, <2>1
    <3> QED
      BY <1>4, <3>1
  <2>2. CASE q # k
    BY <1>1, <1>6, <2>2 DEF OverviewGoesForward
  <2> QED
    BY <2>1, <2>2
<1>14. CacheInv'
  BY <1>1, <1>2 DEF CacheInv, CacheTyped, StartedInOrder, EntriesWaitForLatest
<1> QED
  BY <1>8, <1>10, <1>11, <1>12, <1>13, <1>14 DEF OverviewInv, CallersInv

LEMMA LeaveStep ==
    ASSUME OverviewInv, NEW k \in Callers, LeavesLoad(k)
    PROVE  OverviewInv'
<1>1. Idle \in CallerRecord
  BY DEF Idle, CallerRecord
<1>2. /\ caller' \in [Callers -> CallerRecord] /\ caller'[k] = Idle
      /\ \A q \in Callers : q # k => caller'[q] = caller[q]
      /\ UNCHANGED <<overview, load, started, told>>
  BY <1>1 DEF LeavesLoad, OverviewInv, CallersInv, CallersTyped
<1>3. \A q \in Callers, d \in OverviewClusters :
        AwaitsLoad(q, d)' => caller'[q] = caller[q] /\ AwaitsLoad(q, d)
  BY <1>2 DEF AwaitsLoad, Idle
<1>4. CacheInv'
  BY <1>2 DEF OverviewInv, CacheInv, CacheTyped, StartedInOrder, EntriesWaitForLatest
<1>5. CallersTyped' /\ ToldFromLoads' /\ OverviewGoesForward'
  BY <1>2 DEF OverviewInv, CallersInv, CallersTyped, ToldFromLoads, OverviewGoesForward,
     Idle
<1>6. CallersWaitForLoads' /\ SnapshotsAreLatest'
  BY <1>2, <1>3 DEF OverviewInv, CallersInv, CallersWaitForLoads, SnapshotsAreLatest
<1> QED
  BY <1>4, <1>5, <1>6 DEF OverviewInv, CallersInv

\* Time takes a snapshot from the callers, never gives one back.
LEMMA TimeStep ==
    ASSUME OverviewInv, NEW c \in OverviewClusters, SnapshotAges(c) \/ RetryAfterPasses(c)
    PROVE  OverviewInv'
<1>1. CacheInv /\ CacheTyped /\ CallersInv /\ overview[c] \in Entry
  BY DEF OverviewInv, CacheInv, CacheTyped
<1>2. UNCHANGED <<load, started, caller, told>>
  BY DEF SnapshotAges, RetryAfterPasses
<1>3. PICK entry \in Entry :
        /\ overview' = [overview EXCEPT ![c] = entry]
        /\ entry.age # "absent" /\ entry.call = overview[c].call
        /\ entry.snapshot = overview[c].snapshot
        /\ entry.age \in {"fresh", "stale"} => overview[c].age \in {"fresh", "stale"}
  <2>1. CASE SnapshotAges(c)
    <3> DEFINE entry == [overview[c] EXCEPT
                           !.age = IF overview[c].age = "fresh" THEN "stale" ELSE "old"]
    <3>1. entry \in Entry
      BY <1>1 DEF Entry, Ages
    <3>2. overview' = [overview EXCEPT ![c] = entry]
      BY <1>1, <2>1 DEF SnapshotAges, CacheTyped
    <3> QED
      BY <1>1, <2>1, <3>1, <3>2 DEF SnapshotAges, Entry
  <2>2. CASE RetryAfterPasses(c)
    <3> DEFINE entry == [overview[c] EXCEPT !.waiting = FALSE]
    <3>1. entry \in Entry
      BY <1>1 DEF Entry
    <3>2. overview' = [overview EXCEPT ![c] = entry]
      BY <1>1, <2>2 DEF RetryAfterPasses, CacheTyped
    <3>3. overview[c].age # "absent"
      BY <1>1, <2>2 DEF RetryAfterPasses, CacheTyped, NotCached, NewEntry
    <3> QED
      BY <1>1, <3>1, <3>2, <3>3 DEF Entry
  <2> QED
    BY <2>1, <2>2
<1>4. CacheInv'
  BY <1>1, <1>2, <1>3, EntryChanges
<1>5. SnapshotsAreLatest'
  <2>1. \A d \in OverviewClusters : overview'[d].age \in {"fresh", "stale"} =>
          overview[d].age \in {"fresh", "stale"}
          /\ overview'[d].snapshot = overview[d].snapshot
    BY <1>1, <1>3 DEF CacheTyped
  <2> QED
    BY <1>1, <1>2, <2>1 DEF CallersInv, SnapshotsAreLatest, AwaitsLoad
<1> QED
  BY <1>1, <1>2, <1>4, <1>5
     DEF OverviewInv, CallersInv, CallersTyped, ToldFromLoads, CallersWaitForLoads,
         AwaitsLoad, OverviewGoesForward

LEMMA OverviewStep == OverviewInv /\ [CONext]_overviewVars => OverviewInv'
<1> SUFFICES ASSUME OverviewInv, [CONext]_overviewVars PROVE OverviewInv'
  OBVIOUS
<1>1. CASE UNCHANGED overviewVars
  BY <1>1 DEF overviewVars, OverviewInv, CacheInv, CacheTyped, CallersInv, CallersTyped,
     StartedInOrder, EntriesWaitForLatest, ToldFromLoads, CallersWaitForLoads,
     SnapshotsAreLatest, AwaitsLoad, OverviewGoesForward
<1> QED
  BY <1>1, FreshStep, StaleStep, ByEntryStep, UncachedStep, LoadedStep, LeaveStep, EndStep,
     TimeStep DEF CONext

\* Nobody is answered from a load that was started before one which somebody had been
\* answered from when he asked (Get, run, admitLocked); with the invariant that makes it
\* so, that the load an entry waits for is the latest of its Cluster and that callers
\* wait only when the snapshot is not returned any more.
THEOREM OverviewCorrect == COSpec => [](OverviewInv /\ OverviewGoesForward)
<1>1. COSpec => []OverviewInv
  BY OverviewInit, OverviewStep, PTL DEF COSpec
<1> QED
  BY <1>1, PTL DEF OverviewInv, CallersInv

-----------------------------------------------------------------------------
(* The size of the cache.                                                   *)

\* Only a Cluster without an entry gets one, and only when there is room.
LEMMA LimitStep ==
    OverviewInv /\ CacheWithinLimit /\ [CONext]_overviewVars => CacheWithinLimit'
<1> SUFFICES ASSUME OverviewInv, CacheWithinLimit, [CONext]_overviewVars
             PROVE  CacheWithinLimit'
  OBVIOUS
<1>1. CacheTyped
  BY DEF OverviewInv, CacheInv
<1>2. IsFiniteSet(Cached) /\ Cardinality(Cached) \in Nat
  BY OverviewAssumption, FS_Subset, FS_CardinalityType DEF Cached
<1>3. ASSUME Cached' \subseteq Cached
      PROVE  CacheWithinLimit'
  <2>1. Cardinality(Cached') <= Cardinality(Cached) /\ Cardinality(Cached') \in Nat
    BY <1>2, <1>3, FS_Subset, FS_CardinalityType
  <2> QED
    BY <1>2, <2>1, OverviewAssumption DEF CacheWithinLimit
<1>4. ASSUME NEW k \in Callers, NEW c \in OverviewClusters, GetUncached(k, c)
      PROVE  CacheWithinLimit'
  <2>1. CASE Admits
    <3> DEFINE Remaining == {d \in OverviewClusters : SweptCache[d] # NotCached}
    <3>1. Cached' \subseteq Remaining \cup {c}
      BY <1>1, <1>4, <2>1, SweptEntries DEF GetUncached, Cached
    <3>2. Cardinality(Remaining) < MaxCachedClusters
      BY <2>1 DEF Admits
    <3>3. IsFiniteSet(Remaining) /\ Cardinality(Remaining) \in Nat
      BY OverviewAssumption, FS_Subset, FS_CardinalityType
    <3> HIDE DEF Remaining
    <3>4. IsFiniteSet(Remaining \cup {c}) /\ Cardinality(Remaining \cup {c}) <= Cardinality(Remaining) + 1
      <4>1. /\ IsFiniteSet(Remaining \cup {c})
            /\ Cardinality(Remaining \cup {c}) =
                 IF c \in Remaining THEN Cardinality(Remaining) ELSE Cardinality(Remaining) + 1
        BY <3>3, FS_AddElement
      <4> QED
        BY <3>3, <4>1
    <3>5. /\ Cardinality(Cached') <= Cardinality(Remaining \cup {c})
          /\ Cardinality(Cached') \in Nat /\ Cardinality(Remaining \cup {c}) \in Nat
      BY <3>1, <3>4, FS_Subset, FS_CardinalityType
    <3> QED
      BY <3>2, <3>3, <3>4, <3>5, OverviewAssumption DEF CacheWithinLimit
  <2>2. CASE ~Admits
    <3>1. overview' = SweptCache
      BY <1>4, <2>2 DEF GetUncached
    <3>2. Cached' \subseteq Cached
      BY <1>1, <3>1, SweptEntries DEF Cached
    <3> QED
      BY <1>3, <3>2
  <2> QED
    BY <2>1, <2>2
<1>5. ASSUME NEW c \in OverviewClusters, overview[c].age # "absent",
             \A d \in OverviewClusters : d # c => overview'[d] = overview[d]
      PROVE  Cached' \subseteq Cached
  BY <1>5 DEF Cached, NotCached, NewEntry
<1>6. ASSUME NEW k \in Callers, NEW c \in OverviewClusters,
             GetFresh(k, c) \/ GetStale(k, c) \/ GetByEntry(k, c)
      PROVE  Cached' \subseteq Cached
  BY <1>1, <1>5, <1>6 DEF GetFresh, GetStale, GetByEntry, CacheTyped
<1>7. ASSUME NEW c \in OverviewClusters, SnapshotAges(c) \/ RetryAfterPasses(c)
      PROVE  Cached' \subseteq Cached
  <2>1. overview[c].age # "absent"
    BY <1>1, <1>7 DEF SnapshotAges, RetryAfterPasses, CacheTyped, NotCached, NewEntry
  <2> QED
    BY <1>1, <1>5, <1>7, <2>1 DEF SnapshotAges, RetryAfterPasses, CacheTyped
<1>8. ASSUME NEW i \in Loads, NEW outcome \in Outcomes, EndsLoad(i, outcome)
      PROVE  Cached' \subseteq Cached
  <2> SUFFICES ASSUME NEW c \in OverviewClusters, overview[c] = NotCached
               PROVE  overview'[c] = NotCached
    BY DEF Cached
  <2>1. overview[c].call # i
    BY LoadNumbers DEF NotCached, NewEntry
  <2> QED
    BY <1>8, <2>1 DEF EndsLoad
<1>9. ASSUME overview' = overview
      PROVE  Cached' \subseteq Cached
  BY <1>9 DEF Cached
<1>10. ASSUME NEW k \in Callers, LeavesLoad(k) \/ \E c \in OverviewClusters : GetsLoaded(k, c)
       PROVE  overview' = overview
  BY <1>10 DEF LeavesLoad, GetsLoaded
<1> QED
  BY <1>3, <1>4, <1>6, <1>7, <1>8, <1>9, <1>10 DEF CONext, overviewVars

\* Every variable stays in its range, and the cache within its limit, whatever loads fail
\* and whoever waits for them (admitLocked).
THEOREM OverviewTypeCorrect == COSpec => []COTypeOK
<1>1. COInit => CacheWithinLimit
  <2>1. COInit => Cached = {}
    BY DEF COInit, Cached
  <2> QED
    BY <2>1, FS_EmptySet, OverviewAssumption DEF CacheWithinLimit
<1>2. OverviewInv /\ CacheWithinLimit /\ [CONext]_overviewVars => CacheWithinLimit'
  BY LimitStep
<1>3. COSpec => [](OverviewInv /\ CacheWithinLimit)
  BY <1>1, <1>2, OverviewInit, OverviewStep, PTL DEF COSpec
<1>4. OverviewInv /\ CacheWithinLimit => COTypeOK
  <2> SUFFICES ASSUME OverviewInv, CacheWithinLimit PROVE COTypeOK
    OBVIOUS
  <2>1. CacheTyped /\ CallersTyped
    BY DEF OverviewInv, CacheInv, CallersInv
  <2>2. ASSUME NEW c \in Cached
        PROVE  overview[c] \in [snapshot : Loads \cup {NoLoad}, age : Ages,
                                call : Loads \cup {NoLoad}, waiting : BOOLEAN]
    <3>1. overview[c] \in Entry /\ overview[c].age # "absent"
      BY <2>1 DEF CacheTyped, Cached
    <3> QED
      BY <3>1 DEF Entry
  <2> QED
    BY <2>1, <2>2
       DEF COTypeOK, CacheWithinLimit, CacheTyped, CallersTyped, LoadRecord, CallerRecord
<1> QED
  BY <1>3, <1>4, PTL

-----------------------------------------------------------------------------
(* ResourceCache: sums, orders and what a LIST builds.                       *)

\* What an object contributes, taken unit by unit.
Units(content, S) == {u \in S \X (1 .. Ceiling) : u[2] <= content[u[1]]}

\* Every set of numbers that is not empty has a least one.
LEMMA LeastNumber ==
    ASSUME NEW T, T \subseteq Nat, T # {}
    PROVE  \E n \in T : \A m \in T : n <= m
<1>1. \E n \in T : \A m \in T : <<m, n>> \notin OpToRel(<, Nat)
  BY NatLessThanWellFounded, WFMin, Zenon
<1>2. PICK n \in T : \A m \in T : <<m, n>> \notin OpToRel(<, Nat)
  BY <1>1
<1>3. ASSUME NEW m \in T
      PROVE  n <= m
  <2>1. <<m, n>> \in Nat \X Nat /\ n \in Nat /\ m \in Nat
    OBVIOUS
  <2>2. m < n => <<m, n>> \in OpToRel(<, Nat)
    BY <2>1 DEF OpToRel
  <2>3. ~(m < n)
    BY <1>2, <2>2, Zenon
  <2> QED  BY <2>1, <2>3
<1> QED  BY <1>3

\* Every set of finite sets that is not empty has one of the fewest elements.
LEMMA SmallestSet ==
    ASSUME NEW T, T # {}, \A s \in T : IsFiniteSet(s)
    PROVE  \E s \in T : \A t \in T : Cardinality(s) <= Cardinality(t)
<1> DEFINE sizes == {Cardinality(s) : s \in T}
<1>1. sizes \subseteq Nat /\ sizes # {}
  BY FS_CardinalityType
<1>2. PICK n \in sizes : \A m \in sizes : n <= m
  <2> HIDE DEF sizes
  <2> QED  BY <1>1, LeastNumber
<1> QED  BY <1>2

\* One more object brings as many units as it contributes.
LEMMA UnitsAdd ==
    ASSUME NEW content, NEW S, IsFiniteSet(S), NEW x, x \notin S,
           content[x] \in 0 .. Ceiling, Ceiling \in Nat
    PROVE  /\ IsFiniteSet(Units(content, S))
           /\ Cardinality(Units(content, S)) \in Nat
           /\ Cardinality(Units(content, S \cup {x})) =
                content[x] + Cardinality(Units(content, S))
<1> DEFINE n == content[x]
           new == {x} \X (1 .. n)
<1>1. n \in Nat /\ n <= Ceiling
  OBVIOUS
<1>2. Units(content, S \cup {x}) = Units(content, S) \cup new
  <2> HIDE DEF n
  <2>1. n = content[x]
    BY DEF n
  <2>2. \A u : u \in Units(content, S \cup {x}) => u \in Units(content, S) \/ u \in new
    BY <1>1, <2>1 DEF Units
  <2>3. \A u : u \in Units(content, S) => u \in Units(content, S \cup {x})
    BY DEF Units
  <2>4. \A u : u \in new => u \in Units(content, S \cup {x})
    BY <1>1, <2>1 DEF Units
  <2> QED  BY <2>2, <2>3, <2>4, Zenon
<1>3. Units(content, S) \cap new = {}
  BY DEF Units
<1>4. IsFiniteSet(S \X (1 .. Ceiling))
  <2>1. IsFiniteSet(1 .. Ceiling)
    <3>1. 1 \in Int /\ Ceiling \in Int
      OBVIOUS
    <3> QED  BY <3>1, FS_Interval, Zenon
  <2> QED  BY <2>1, FS_Product
<1>5. IsFiniteSet(Units(content, S))
  <2>1. Units(content, S) \in SUBSET (S \X (1 .. Ceiling))
    BY DEF Units
  <2> QED  BY <1>4, <2>1, FS_Subset
<1>6. IsFiniteSet(new) /\ Cardinality(new) = n
  <2>1. IsFiniteSet({x}) /\ Cardinality({x}) = 1
    BY FS_Singleton
  <2>2. IsFiniteSet(1 .. n) /\ Cardinality(1 .. n) = n
    <3> HIDE DEF n
    <3>1. 1 \in Int /\ n \in Int /\ (IF 1 > n THEN 0 ELSE n - 1 + 1) = n
      BY <1>1
    <3>2. IsFiniteSet(1 .. n) /\ Cardinality(1 .. n) = IF 1 > n THEN 0 ELSE n - 1 + 1
      BY <3>1, FS_Interval, Zenon
    <3> QED  BY <3>1, <3>2
  <2>3. IsFiniteSet(new) /\ Cardinality(new) = 1 * n
    BY <2>1, <2>2, FS_Product
  <2> QED  BY <1>1, <2>3
<1>7. Cardinality(Units(content, S)) \in Nat
  BY <1>5, FS_CardinalityType
<1>8. Cardinality(Units(content, S) \cup new) = Cardinality(Units(content, S)) + n - 0
  BY <1>3, <1>5, <1>6, FS_Union, FS_EmptySet
<1> QED
  <2> HIDE DEF n, new
  <2>1. n = content[x]
    BY DEF n
  <2>2. Cardinality(Units(content, S \cup {x})) = Cardinality(Units(content, S)) + n - 0
    BY <1>2, <1>8, Zenon
  <2>3. Cardinality(Units(content, S)) + n - 0 = n + Cardinality(Units(content, S))
    BY <1>1, <1>7
  <2> QED  BY <1>5, <1>7, <2>1, <2>2, <2>3, Zenon

\* Contents that agree on a set have the same units there.
LEMMA UnitsAgree ==
    ASSUME NEW c, NEW d, NEW S, \A x \in S : c[x] = d[x]
    PROVE  Units(c, S) = Units(d, S)
BY DEF Units

(***************************************************************************)
(* The fold over the contributions counts their units: counting satisfies  *)
(* the recursion of the fold, and a smallest set on which the two differed *)
(* would differ on the set without the element that the fold takes next.   *)
(***************************************************************************)
LEMMA SumIsUnits ==
    ASSUME NEW content, IsFiniteSet(DOMAIN content), Ceiling \in Nat,
           \A x \in DOMAIN content : content[x] \in 0 .. Ceiling
    PROVE  FoldSet(LAMBDA o, sum : content[o] + sum, 0, DOMAIN content)
              = Cardinality(Units(content, DOMAIN content))
<1> DEFINE D == DOMAIN content
           Some(s) == CHOOSE x \in s : TRUE
           Sums(g) == g = [s \in SUBSET D |-> IF s = {} THEN 0
                                ELSE content[Some(s)] + g[s \ {Some(s)}]]
           counted == [s \in SUBSET D |-> Cardinality(Units(content, s))]
           iter == CHOOSE g : Sums(g)
<1>1. FoldSet(LAMBDA o, sum : content[o] + sum, 0, D) = iter[D]
  BY DEF FoldSet, MapThenFoldSet
<1>2. \A s \in SUBSET D : s # {} => Some(s) \in s
  OBVIOUS
<1>3. \A s \in SUBSET D : IsFiniteSet(s)
  BY FS_Subset
<1>4. \A s \in SUBSET D : s # {} =>
        Cardinality(Units(content, s))
           = content[Some(s)] + Cardinality(Units(content, s \ {Some(s)}))
  <2> SUFFICES ASSUME NEW s \in SUBSET D, s # {}
               PROVE  Cardinality(Units(content, s))
                 = content[Some(s)] + Cardinality(Units(content, s \ {Some(s)}))
    BY Zenon
  <2> DEFINE x == Some(s)
             rest == s \ {x}
  <2>1. x \in s /\ x \in D /\ x \notin rest /\ s = rest \cup {x}
    BY <1>2
  <2>2. IsFiniteSet(rest)
    BY <1>3
  <2>3. content[x] \in 0 .. Ceiling
    BY <2>1
  <2> HIDE DEF x, rest
  <2>4. Cardinality(Units(content, rest \cup {x})) = content[x] + Cardinality(Units(content, rest))
    BY <2>1, <2>2, <2>3, UnitsAdd
  <2> QED  BY <2>1, <2>4 DEF x, rest
<1>5. Cardinality(Units(content, {})) = 0
  <2>1. Units(content, {}) = {}
    BY DEF Units
  <2> QED  BY <2>1, FS_EmptySet
<1>6. Sums(counted)
  <2> HIDE DEF Some
  <2>1. \A s \in SUBSET D : counted[s] = IF s = {} THEN 0
                                ELSE content[Some(s)] + counted[s \ {Some(s)}]
    BY <1>4, <1>5
  <2> QED  BY <2>1
<1>7. Sums(iter)
  <2> HIDE DEF Sums, counted
  <2> QED  BY <1>6
<1>8. ASSUME iter[D] # counted[D]
      PROVE  FALSE
  <2> DEFINE wrong == {s \in SUBSET D : iter[s] # counted[s]}
  <2>1. D \in wrong
    BY <1>8
  <2>2. \A s \in wrong : IsFiniteSet(s)
    BY <1>3
  <2>3. PICK s \in wrong : \A t \in wrong : Cardinality(s) <= Cardinality(t)
    <3> HIDE DEF wrong
    <3> QED  BY <2>1, <2>2, SmallestSet
  <2>4. s \in SUBSET D /\ iter[s] # counted[s]
    OBVIOUS
  <2> HIDE DEF iter, counted, Some
  <2>5. s # {}
    BY <1>6, <1>7, <2>4
  <2>6. Some(s) \in s /\ s \ {Some(s)} \in SUBSET D
    BY <1>2, <2>4, <2>5
  <2>7. iter[s \ {Some(s)}] # counted[s \ {Some(s)}]
    <3>1. iter[s] = content[Some(s)] + iter[s \ {Some(s)}]
      BY <1>7, <2>4, <2>5
    <3>2. counted[s] = content[Some(s)] + counted[s \ {Some(s)}]
      BY <1>6, <2>4, <2>5
    <3> QED  BY <2>4, <3>1, <3>2
  <2>8. s \ {Some(s)} \in wrong
    BY <2>6, <2>7
  <2>9. IsFiniteSet(s) /\ Cardinality(s) \in Nat
    BY <1>3, <2>4, FS_CardinalityType
  <2>10. Cardinality(s \ {Some(s)}) = Cardinality(s) - 1
    BY <2>6, <2>9, FS_RemoveElement
  <2>11. Cardinality(s) <= Cardinality(s \ {Some(s)})
    BY <2>3, <2>8
  <2> QED  BY <2>9, <2>10, <2>11
<1> QED
  <2>1. counted[D] = Cardinality(Units(content, D))
    OBVIOUS
  <2> HIDE DEF iter, counted
  <2> QED  BY <1>1, <1>8, <2>1

\* Objects of the Cluster with what they contribute.
IsContent(content) ==
    /\ content = [k \in DOMAIN content |-> content[k]]
    /\ DOMAIN content \subseteq Objects
    /\ \A k \in DOMAIN content : content[k] \in Amounts

\* Totals that are what some objects add up to.
Matching(content, t) ==
    t = [count |-> Cardinality(DOMAIN content),
         sum |-> Cardinality(Units(content, DOMAIN content))]

\* No content reaches the ceiling.
LEMMA ContentBounded ==
    ASSUME NEW content, IsContent(content)
    PROVE  /\ IsFiniteSet(DOMAIN content) /\ Cardinality(DOMAIN content) \in Nat
           /\ \A k \in DOMAIN content : content[k] \in 0 .. Ceiling
           /\ Cardinality(Units(content, DOMAIN content)) \in 0 .. Ceiling
<1> DEFINE D == DOMAIN content
<1>1. IsFiniteSet(D) /\ Cardinality(D) \in Nat
  BY ResourceCacheAssumption, FS_Subset, FS_CardinalityType DEF IsContent
<1>2. PICK largest \in 0 .. Ceiling : /\ \A amount \in Amounts : amount <= largest
                                      /\ Cardinality(Objects) * largest <= Ceiling
  BY ResourceCacheAssumption
<1>3. Ceiling \in Nat /\ largest \in Nat /\ Cardinality(Objects) \in Nat
  BY ResourceCacheAssumption, FS_CardinalityType
<1>4. \A k \in D : content[k] \in 0 .. Ceiling /\ content[k] <= largest
  BY <1>2, <1>3, ResourceCacheAssumption DEF IsContent
<1>5. Units(content, D) \in SUBSET (Objects \X (1 .. largest))
  <2> SUFFICES ASSUME NEW u \in Units(content, D)
               PROVE  u \in Objects \X (1 .. largest)
    OBVIOUS
  <2>1. u \in D \X (1 .. Ceiling) /\ u[2] <= content[u[1]]
    BY DEF Units
  <2>2. u[1] \in D /\ u[2] \in 1 .. Ceiling /\ u = <<u[1], u[2]>>
    BY <2>1
  <2>3. u[2] \in 1 .. largest
    BY <1>3, <1>4, <2>1, <2>2
  <2> QED  BY <2>2, <2>3 DEF IsContent
<1>6. /\ IsFiniteSet(1 .. largest) /\ Cardinality(1 .. largest) = largest
  <2>1. 1 \in Int /\ largest \in Int /\ (IF 1 > largest THEN 0 ELSE largest - 1 + 1) = largest
    BY <1>3
  <2>2. /\ IsFiniteSet(1 .. largest)
        /\ Cardinality(1 .. largest) = IF 1 > largest THEN 0 ELSE largest - 1 + 1
    BY <2>1, FS_Interval, Zenon
  <2> QED  BY <2>1, <2>2
<1>7. /\ IsFiniteSet(Objects \X (1 .. largest))
      /\ Cardinality(Objects \X (1 .. largest)) = Cardinality(Objects) * largest
  BY <1>6, ResourceCacheAssumption, FS_Product
<1>8. /\ IsFiniteSet(Units(content, D))
      /\ Cardinality(Units(content, D)) <= Cardinality(Objects \X (1 .. largest))
  BY <1>5, <1>7, FS_Subset
<1>9. Cardinality(Units(content, D)) \in Nat
  BY <1>8, FS_CardinalityType
<1>10. Cardinality(Units(content, D)) <= Cardinality(Objects) * largest
  BY <1>7, <1>8, Zenon
<1>11. Cardinality(Objects) * largest \in Nat
  BY <1>3
<1>12. Cardinality(Units(content, D)) \in 0 .. Ceiling
  <2> DEFINE n == Cardinality(Objects) * largest
             m == Cardinality(Units(content, D))
  <2>1. m \in Nat /\ n \in Nat /\ m <= n /\ n <= Ceiling
    BY <1>2, <1>9, <1>10, <1>11, Zenon
  <2> HIDE DEF m, n
  <2>2. m \in 0 .. Ceiling
    BY <1>3, <2>1
  <2> QED  BY <2>2 DEF m
<1> QED  BY <1>1, <1>4, <1>12

\* What a section says it holds is the sum of what it holds.
LEMMA MatchingIsSum ==
    ASSUME NEW content, IsContent(content), NEW t, Matching(content, t)
    PROVE  /\ t \in [count : Nat, sum : 0 .. Ceiling]
           /\ t.count = Cardinality(DOMAIN content)
           /\ t.sum = FoldSet(LAMBDA o, sum : content[o] + sum, 0, DOMAIN content)
<1>1. /\ IsFiniteSet(DOMAIN content) /\ Cardinality(DOMAIN content) \in Nat
      /\ \A k \in DOMAIN content : content[k] \in 0 .. Ceiling
      /\ Cardinality(Units(content, DOMAIN content)) \in 0 .. Ceiling
  BY ContentBounded
<1>2. FoldSet(LAMBDA o, sum : content[o] + sum, 0, DOMAIN content)
         = Cardinality(Units(content, DOMAIN content))
  BY <1>1, ResourceCacheAssumption, SumIsUnits
<1>3. /\ t.count = Cardinality(DOMAIN content)
      /\ t.sum = Cardinality(Units(content, DOMAIN content))
      /\ t \in [count : Nat, sum : 0 .. Ceiling]
  BY <1>1 DEF Matching
<1> QED  BY <1>2, <1>3, Zenon

\* The store of newStore.
LEMMA NothingMatches ==
    IsContent(NoItems) /\ Matching(NoItems, NoTotals)
<1>1. DOMAIN NoItems = {} /\ IsContent(NoItems)
  BY DEF NoItems, IsContent
<1>2. Units(NoItems, {}) = {}
  BY DEF Units
<1> QED  BY <1>1, <1>2, FS_EmptySet DEF Matching, NoTotals

\* A new object is counted.
LEMMA PutMatches ==
    ASSUME NEW content, IsContent(content), NEW t, Matching(content, t),
           NEW o \in Objects, o \notin DOMAIN content, NEW amount \in Amounts
    PROVE  /\ IsContent(Put(content, o, amount))
           /\ DOMAIN Put(content, o, amount) = DOMAIN content \cup {o}
           /\ Matching(Put(content, o, amount), Added(t, amount))
<1> DEFINE D == DOMAIN content
           next == Put(content, o, amount)
<1>1. /\ IsContent(next) /\ DOMAIN next = D \cup {o} /\ next[o] = amount
      /\ \A k \in D : next[k] = content[k]
  BY DEF Put, IsContent
<1>2. /\ IsFiniteSet(D) /\ Cardinality(D) \in Nat
      /\ Cardinality(Units(content, D)) \in 0 .. Ceiling
  BY ContentBounded
<1> HIDE DEF next
<1>3. /\ amount \in 0 .. Ceiling /\ next[o] \in 0 .. Ceiling
      /\ Cardinality(Units(next, DOMAIN next)) \in 0 .. Ceiling
  BY <1>1, ContentBounded
<1>4. Units(next, D) = Units(content, D)
  BY <1>1, UnitsAgree
<1>5. Ceiling \in Nat
  BY ResourceCacheAssumption
<1>6. Cardinality(Units(next, D \cup {o})) = next[o] + Cardinality(Units(next, D))
  BY <1>2, <1>3, <1>5, UnitsAdd
<1>7. Cardinality(Units(next, DOMAIN next)) = amount + Cardinality(Units(content, D))
  BY <1>1, <1>4, <1>6, Zenon
<1>8. Cardinality(DOMAIN next) = Cardinality(D) + 1
  BY <1>1, <1>2, FS_AddElement
<1>9. t.sum = Cardinality(Units(content, D)) /\ t.count = Cardinality(D)
  BY DEF Matching
<1>10. Plus(t.sum, amount) = Cardinality(Units(next, DOMAIN next))
  <2> DEFINE m == Cardinality(Units(content, D))
             n == Cardinality(Units(next, DOMAIN next))
  <2>1. m \in 0 .. Ceiling /\ n \in 0 .. Ceiling /\ n = amount + m /\ amount \in 0 .. Ceiling
    BY <1>2, <1>3, <1>7, Zenon
  <2> HIDE DEF m, n
  <2>2. Plus(m, amount) = n
    BY <1>5, <2>1 DEF Plus
  <2> QED  BY <1>9, <2>2, Zenon DEF m, n
<1>11. Added(t, amount) = [count |-> Cardinality(DOMAIN next),
                           sum |-> Cardinality(Units(next, DOMAIN next))]
  BY <1>8, <1>9, <1>10, Zenon DEF Added
<1> QED  BY <1>1, <1>11, Zenon DEF Matching, next

\* An object that goes is counted no longer.
LEMMA RemovedMatches ==
    ASSUME NEW content, IsContent(content), NEW t, Matching(content, t),
           NEW o \in DOMAIN content
    PROVE  /\ IsContent(ItemsWithout(content, o))
           /\ DOMAIN ItemsWithout(content, o) = DOMAIN content \ {o}
           /\ Matching(ItemsWithout(content, o), Removed(t, content[o]))
<1> DEFINE D == DOMAIN content
           next == ItemsWithout(content, o)
<1>1. /\ IsContent(next) /\ DOMAIN next = D \ {o} /\ o \notin DOMAIN next
      /\ D = DOMAIN next \cup {o} /\ \A k \in DOMAIN next : content[k] = next[k]
  BY DEF ItemsWithout, IsContent
<1>2. /\ IsFiniteSet(D) /\ Cardinality(D) \in Nat /\ content[o] \in 0 .. Ceiling
      /\ Cardinality(Units(content, D)) \in 0 .. Ceiling
  BY ContentBounded
<1> HIDE DEF next
<1>3. /\ IsFiniteSet(DOMAIN next)
      /\ Cardinality(Units(next, DOMAIN next)) \in 0 .. Ceiling
  BY <1>1, ContentBounded
<1>4. Units(content, DOMAIN next) = Units(next, DOMAIN next)
  BY <1>1, UnitsAgree
<1>5. Ceiling \in Nat
  BY ResourceCacheAssumption
<1>6. Cardinality(Units(content, DOMAIN next \cup {o}))
         = content[o] + Cardinality(Units(content, DOMAIN next))
  BY <1>1, <1>2, <1>3, <1>5, UnitsAdd
<1>7. Cardinality(Units(content, D)) = content[o] + Cardinality(Units(next, DOMAIN next))
  BY <1>1, <1>4, <1>6, Zenon
<1>8. Cardinality(DOMAIN next) = Cardinality(D) - 1 /\ Cardinality(DOMAIN next) \in Nat
  BY <1>1, <1>2, <1>3, FS_RemoveElement, FS_CardinalityType
<1>9. t.sum = Cardinality(Units(content, D)) /\ t.count = Cardinality(D)
  BY DEF Matching
<1>10. Minus(t.sum, content[o]) = Cardinality(Units(next, DOMAIN next))
  <2> DEFINE m == Cardinality(Units(content, D))
             n == Cardinality(Units(next, DOMAIN next))
             amount == content[o]
  <2>1. m \in 0 .. Ceiling /\ n \in 0 .. Ceiling /\ m = amount + n /\ amount \in 0 .. Ceiling
    BY <1>2, <1>3, <1>7, Zenon
  <2> HIDE DEF m, n, amount
  <2>2. Minus(m, amount) = n
    BY <1>5, <2>1 DEF Minus
  <2> QED  BY <1>9, <2>2, Zenon DEF m, n, amount
<1>11. Minus(t.count, 1) = Cardinality(DOMAIN next)
  <2> DEFINE m == Cardinality(D)
             n == Cardinality(DOMAIN next)
  <2>1. m \in Nat /\ n \in Nat /\ n = m - 1
    BY <1>2, <1>8, Zenon
  <2> HIDE DEF m, n
  <2>2. Minus(m, 1) = n
    BY <2>1 DEF Minus
  <2> QED  BY <1>9, <2>2, Zenon DEF m, n
<1>12. Removed(t, content[o]) = [count |-> Cardinality(DOMAIN next),
                                 sum |-> Cardinality(Units(next, DOMAIN next))]
  BY <1>10, <1>11, Zenon DEF Removed
<1> QED  BY <1>1, <1>12, Zenon DEF Matching, next

\* An object that comes again counts for what it is now, and for that alone.
LEMMA WithMatches ==
    ASSUME NEW content, IsContent(content), NEW t, Matching(content, t),
           NEW o \in Objects, NEW amount \in Amounts,
           NEW next, next = With([items |-> content, totals |-> t], o, amount)
    PROVE  /\ IsContent(next.items)
           /\ DOMAIN next.items = DOMAIN content \cup {o}
           /\ Matching(next.items, next.totals)
           /\ next = [items |-> next.items, totals |-> next.totals]
<1>1. CASE o \notin DOMAIN content
  <2>1. next = [items |-> Put(content, o, amount), totals |-> Added(t, amount)]
    BY <1>1 DEF With
  <2>2. /\ IsContent(Put(content, o, amount))
        /\ DOMAIN Put(content, o, amount) = DOMAIN content \cup {o}
        /\ Matching(Put(content, o, amount), Added(t, amount))
    BY <1>1, PutMatches
  <2>3. next.items = Put(content, o, amount) /\ next.totals = Added(t, amount)
    BY <2>1
  <2>4. next = [items |-> next.items, totals |-> next.totals]
    BY <2>1
  <2> QED  BY <2>2, <2>3, <2>4, Zenon
<1>2. CASE o \in DOMAIN content
  <2> DEFINE rest == ItemsWithout(content, o)
             less == Removed(t, content[o])
  <2>1. IsContent(rest) /\ DOMAIN rest = DOMAIN content \ {o} /\ Matching(rest, less)
    BY <1>2, RemovedMatches
  <2>2. Put(content, o, amount) = Put(rest, o, amount)
    <3>1. DOMAIN content \cup {o} = DOMAIN rest \cup {o}
      BY <2>1
    <3>2. \A k \in DOMAIN content : k # o => rest[k] = content[k]
      BY DEF ItemsWithout
    <3> HIDE DEF rest
    <3> QED  BY <3>1, <3>2 DEF Put
  <2>3. next = [items |-> Put(content, o, amount), totals |-> Added(less, amount)]
    BY <1>2 DEF With
  <2> HIDE DEF rest, less
  <2>4. /\ IsContent(Put(rest, o, amount))
        /\ DOMAIN Put(rest, o, amount) = DOMAIN rest \cup {o}
        /\ Matching(Put(rest, o, amount), Added(less, amount))
    BY <2>1, PutMatches
  <2>5. DOMAIN rest \cup {o} = DOMAIN content \cup {o}
    BY <2>1
  <2>6. next.items = Put(rest, o, amount) /\ next.totals = Added(less, amount)
    BY <2>2, <2>3
  <2>7. next = [items |-> next.items, totals |-> next.totals]
    BY <2>3
  <2> QED  BY <2>4, <2>5, <2>6, <2>7, Zenon
<1> QED  BY <1>1, <1>2

\* An entry of a LIST, and a change that a watch delivers.
ListEntry == [object : Objects, amount : Amounts]
ClusterChange == [object : Objects, amount : Amounts \cup {Gone}]

\* The loop of Replace is defined at every entry: a first one where it is not would
\* come after one where it is.
LEMMA BuildsEach ==
    ASSUME NEW n \in Nat, NEW list \in [1 .. n -> ListEntry]
    PROVE  /\ Len(list) = n
           /\ \A i \in 0 .. n :
                Builds(list)[i] = IF i = 0 THEN [items |-> NoItems, totals |-> NoTotals]
                                  ELSE With(Builds(list)[i - 1], list[i].object, list[i].amount)
<1> DEFINE first == [items |-> NoItems, totals |-> NoTotals]
           Next(b, i) == IF i = 0 THEN first
                         ELSE With(b[i - 1], list[i].object, list[i].amount)
           Correct(b, k) == b = [i \in 0 .. k |-> Next(b, i)]
<1>1. Len(list) = n
  OBVIOUS
<1>2. ASSUME NEW k \in Nat, NEW b, Correct(b, k)
      PROVE  \E c : Correct(c, k + 1)
  <2> DEFINE c == [i \in 0 .. k + 1 |->
                     IF i = k + 1 THEN With(b[k], list[i].object, list[i].amount) ELSE b[i]]
  <2>1. \A i \in 0 .. k + 1 : c[i] = Next(c, i)
    <3> SUFFICES ASSUME NEW i \in 0 .. k + 1
                 PROVE  c[i] = Next(c, i)
      BY Zenon
    <3>1. CASE i = k + 1
      <4>1. i # 0 /\ i - 1 = k /\ k \in 0 .. k + 1 /\ k # k + 1
        BY <3>1
      <4>2. c[i - 1] = b[k]
        BY <4>1
      <4> QED  BY <3>1, <4>1, <4>2
    <3>2. CASE i # k + 1
      <4>1. i \in 0 .. k
        BY <3>2
      <4>2. c[i] = b[i] /\ b[i] = Next(b, i)
        BY <1>2, <3>2, <4>1
      <4>3. i # 0 => i - 1 \in 0 .. k /\ i - 1 \in 0 .. k + 1 /\ i - 1 # k + 1
        BY <4>1
      <4>4. i # 0 => c[i - 1] = b[i - 1]
        BY <4>3
      <4> HIDE DEF c
      <4> QED  BY <4>2, <4>4
    <3> QED  BY <3>1, <3>2
  <2>2. c = [i \in 0 .. k + 1 |-> c[i]]
    OBVIOUS
  <2> HIDE DEF c
  <2>3. Correct(c, k + 1)
    BY <2>1, <2>2
  <2> QED  BY <2>3
<1>3. \E b : Correct(b, 0)
  <2> DEFINE b == [i \in 0 .. 0 |-> first]
  <2>1. \A i \in 0 .. 0 : Next(b, i) = first
    OBVIOUS
  <2>2. Correct(b, 0)
    BY <2>1
  <2> QED  BY <2>2
<1>4. ASSUME ~ \E b : Correct(b, n)
      PROVE  FALSE
  <2> DEFINE wrong == {k \in Nat : ~ \E b : Correct(b, k)}
  <2>1. n \in wrong /\ wrong \subseteq Nat
    BY <1>4
  <2>2. PICK k \in wrong : \A m \in wrong : k <= m
    <3> HIDE DEF wrong
    <3> QED  BY <2>1, LeastNumber
  <2>3. k \in Nat /\ ~ \E b : Correct(b, k)
    OBVIOUS
  <2>4. k # 0
    BY <1>3, <2>3, Zenon
  <2>5. k - 1 \in Nat /\ k - 1 + 1 = k
    BY <2>3, <2>4
  <2>6. k - 1 \notin wrong
    <3> HIDE DEF wrong
    <3> QED  BY <2>2, <2>3, <2>5
  <2>7. PICK b : Correct(b, k - 1)
    BY <2>5, <2>6
  <2> HIDE DEF Correct
  <2>8. \E c : Correct(c, k - 1 + 1)
    BY <1>2, <2>5, <2>7
  <2> QED  BY <2>3, <2>5, <2>8
<1>5. Builds(list) = CHOOSE b : Correct(b, n)
  BY <1>1 DEF Builds
<1>6. Correct(Builds(list), n)
  <2> HIDE DEF Correct
  <2> QED  BY <1>4, <1>5, Zenon
<1> QED  BY <1>1, <1>6

\* What Replace builds from a LIST adds up, and holds the objects of the LIST.
LEMMA BuildsMatch ==
    ASSUME NEW n \in Nat, NEW list \in [1 .. n -> ListEntry]
    PROVE  LET built == Builds(list)[n]
           IN  /\ Len(list) = n
               /\ IsContent(built.items) /\ Matching(built.items, built.totals)
               /\ DOMAIN built.items = {list[i].object : i \in 1 .. n}
<1> DEFINE built(k) == Builds(list)[k]
           Right(k) == /\ built(k) = [items |-> built(k).items, totals |-> built(k).totals]
                       /\ IsContent(built(k).items) /\ Matching(built(k).items, built(k).totals)
                       /\ DOMAIN built(k).items = {list[i].object : i \in 1 .. k}
<1>1. Len(list) = n
  OBVIOUS
<1>2. \A i \in 0 .. n :
        built(i) = IF i = 0 THEN [items |-> NoItems, totals |-> NoTotals]
                   ELSE With(built(i - 1), list[i].object, list[i].amount)
  BY BuildsEach
<1> HIDE DEF built
<1>3. Right(0)
  <2>1. built(0) = [items |-> NoItems, totals |-> NoTotals]
    BY <1>2
  <2>2. {list[i].object : i \in 1 .. 0} = {}
    OBVIOUS
  <2>3. DOMAIN NoItems = {}
    BY DEF NoItems
  <2> QED  BY <2>1, <2>2, <2>3, NothingMatches
<1>4. ASSUME NEW k \in 0 .. n, k # 0, Right(k - 1)
      PROVE  Right(k)
  <2> DEFINE before == built(k - 1)
             e == list[k]
  <2>1. k \in 1 .. n /\ e.object \in Objects /\ e.amount \in Amounts
    BY <1>4 DEF ListEntry
  <2>2. built(k) = With([items |-> before.items, totals |-> before.totals], e.object, e.amount)
    <3>1. built(k) = With(before, e.object, e.amount)
      BY <1>2, <1>4
    <3>2. before = [items |-> before.items, totals |-> before.totals]
      BY <1>4, Zenon
    <3> QED  BY <3>1, <3>2, Zenon
  <2>3. /\ IsContent(before.items) /\ Matching(before.items, before.totals)
        /\ DOMAIN before.items = {list[i].object : i \in 1 .. k - 1}
    BY <1>4, Zenon
  <2> HIDE DEF before, e
  <2>4. /\ IsContent(built(k).items)
        /\ DOMAIN built(k).items = DOMAIN before.items \cup {e.object}
        /\ Matching(built(k).items, built(k).totals)
        /\ built(k) = [items |-> built(k).items, totals |-> built(k).totals]
    BY <2>1, <2>2, <2>3, WithMatches
  <2>5. {list[i].object : i \in 1 .. k} = {list[i].object : i \in 1 .. k - 1} \cup {e.object}
    <3>1. 1 .. k = (1 .. k - 1) \cup {k}
      BY <2>1
    <3> QED  BY <3>1 DEF e
  <2> QED  BY <2>3, <2>4, <2>5, Zenon
<1>5. ASSUME ~Right(n)
      PROVE  FALSE
  <2> DEFINE wrong == {k \in 0 .. n : ~Right(k)}
  <2>1. n \in wrong /\ wrong \subseteq Nat
    BY <1>5
  <2>2. PICK k \in wrong : \A m \in wrong : k <= m
    <3> HIDE DEF wrong
    <3> QED  BY <2>1, LeastNumber
  <2>3. k \in 0 .. n /\ ~Right(k)
    OBVIOUS
  <2> HIDE DEF Right
  <2>4. k # 0
    BY <1>3, <2>3
  <2>5. k - 1 \in 0 .. n /\ k - 1 < k
    BY <2>3, <2>4
  <2>6. k - 1 \notin wrong
    <3> HIDE DEF wrong
    <3> QED  BY <2>2, <2>3, <2>5
  <2>7. Right(k - 1)
    BY <2>5, <2>6
  <2> QED  BY <1>4, <2>3, <2>4, <2>7
<1> QED  BY <1>1, <1>5 DEF built

\* sort.Slice: a set of numbers has an order, with each of them in it once.
LEMMA InOrderExists ==
    ASSUME NEW S, S \subseteq Nat, IsFiniteSet(S)
    PROVE  /\ InOrder(S) \in [1 .. Cardinality(S) -> S]
           /\ \A i, j \in 1 .. Cardinality(S) : InOrder(S)[i] = InOrder(S)[j] => i = j
           /\ \A x \in S : \E i \in 1 .. Cardinality(S) : InOrder(S)[i] = x
<1> DEFINE n == Cardinality(S)
           Upto(x) == {y \in S : y <= x}
           rank == [x \in S |-> Cardinality(Upto(x))]
<1>1. n \in Nat /\ IsFiniteSet(1 .. n) /\ Cardinality(1 .. n) = n
  <2>1. n \in Nat
    BY FS_CardinalityType
  <2> HIDE DEF n
  <2>2. 1 \in Int /\ n \in Int /\ (IF 1 > n THEN 0 ELSE n - 1 + 1) = n
    BY <2>1
  <2>3. IsFiniteSet(1 .. n) /\ Cardinality(1 .. n) = IF 1 > n THEN 0 ELSE n - 1 + 1
    BY <2>2, FS_Interval, Zenon
  <2> QED  BY <2>1, <2>2, <2>3
<1>2. \A x \in S : rank[x] \in 1 .. n
  <2> SUFFICES ASSUME NEW x \in S
               PROVE  rank[x] \in 1 .. n
    BY Zenon
  <2>1. x \in Upto(x) /\ Upto(x) \in SUBSET S
    OBVIOUS
  <2> HIDE DEF Upto
  <2>2. IsFiniteSet(Upto(x)) /\ Cardinality(Upto(x)) <= n /\ Cardinality(Upto(x)) \in Nat
    BY <2>1, FS_Subset, FS_CardinalityType
  <2>3. Cardinality(Upto(x)) # 0
    BY <2>1, <2>2, FS_EmptySet
  <2> QED  BY <1>1, <2>2, <2>3
<1>3. \A x, y \in S : x < y => rank[x] < rank[y]
  <2> SUFFICES ASSUME NEW x \in S, NEW y \in S, x < y
               PROVE  rank[x] < rank[y]
    BY Zenon
  <2>1. Upto(x) \in SUBSET Upto(y) /\ y \in Upto(y) /\ y \notin Upto(x) /\ Upto(y) \in SUBSET S
    <3>1. x \in Nat /\ y \in Nat /\ ~(y <= x) /\ y <= y
      OBVIOUS
    <3>2. \A z \in S : z <= x => z <= y
      <4> SUFFICES ASSUME NEW z \in S, z <= x
                   PROVE  z <= y
        BY Zenon
      <4>1. z \in Nat
        OBVIOUS
      <4> QED  BY <3>1, <4>1
    <3> QED  BY <3>1, <3>2, Zenon
  <2> HIDE DEF Upto
  <2>2. IsFiniteSet(Upto(y)) /\ IsFiniteSet(Upto(x))
    BY <2>1, FS_Subset
  <2>3. /\ Cardinality(Upto(x)) <= Cardinality(Upto(y))
        /\ Cardinality(Upto(x)) # Cardinality(Upto(y))
        /\ Cardinality(Upto(x)) \in Nat /\ Cardinality(Upto(y)) \in Nat
    BY <2>1, <2>2, FS_Subset, FS_CardinalityType
  <2> QED  BY <2>3
<1> HIDE DEF n
<1>4. \A x, y \in S : rank[x] = rank[y] => x = y
  <2> SUFFICES ASSUME NEW x \in S, NEW y \in S, rank[x] = rank[y]
               PROVE  x = y
    BY Zenon
  <2> HIDE DEF rank
  <2>1. rank[x] \in Nat /\ rank[y] \in Nat
    BY <1>1, <1>2
  <2>2. ~(rank[x] < rank[y]) /\ ~(rank[y] < rank[x])
    BY <2>1
  <2>3. ~(x < y) /\ ~(y < x)
    BY <1>3, <2>2, Zenon
  <2>4. x \in Nat /\ y \in Nat
    OBVIOUS
  <2> QED  BY <2>3, <2>4
<1>5. rank \in Injection(S, 1 .. n)
  <2>1. rank \in [S -> 1 .. n]
    BY <1>2
  <2> HIDE DEF rank
  <2> QED  BY <1>4, <2>1 DEF Injection, IsInjective
<1>6. rank \in Surjection(S, 1 .. n)
  BY <1>1, <1>5, FS_Injection DEF n
<1>7. \A i \in 1 .. n : \E x \in S : rank[x] = i
  BY <1>6 DEF Surjection
<1> DEFINE keys == [i \in 1 .. n |-> CHOOSE x \in S : rank[x] = i]
<1> HIDE DEF rank
<1>8. /\ keys \in [1 .. n -> S]
      /\ \A i \in 1 .. n : rank[keys[i]] = i
  BY <1>7
<1> HIDE DEF keys
<1>9. \A i, j \in 1 .. n : i < j => keys[i] < keys[j]
  <2> SUFFICES ASSUME NEW i \in 1 .. n, NEW j \in 1 .. n, i < j
               PROVE  keys[i] < keys[j]
    BY Zenon
  <2>1. /\ keys[i] \in S /\ keys[j] \in S /\ rank[keys[i]] = i /\ rank[keys[j]] = j
        /\ i \in Nat /\ j \in Nat
    BY <1>1, <1>8
  <2>2. keys[i] # keys[j] /\ ~(rank[keys[j]] < rank[keys[i]])
    BY <2>1
  <2>3. ~(keys[j] < keys[i])
    BY <1>3, <2>1, <2>2, Zenon
  <2>4. keys[i] \in Nat /\ keys[j] \in Nat
    BY <2>1
  <2> QED  BY <2>2, <2>3, <2>4
<1> DEFINE order == InOrder(S)
<1>10. order \in [1 .. n -> S] /\ \A i, j \in 1 .. n : i < j => order[i] < order[j]
  <2>1. \E k \in [1 .. n -> S] : \A i, j \in 1 .. n : i < j => k[i] < k[j]
    BY <1>8, <1>9
  <2> QED  BY <2>1 DEF InOrder, n
<1> HIDE DEF order
<1>11. \A i, j \in 1 .. n : order[i] = order[j] => i = j
  <2> SUFFICES ASSUME NEW i \in 1 .. n, NEW j \in 1 .. n, order[i] = order[j]
               PROVE  i = j
    BY Zenon
  <2>0. order[i] \in S /\ order[j] \in S
    BY <1>10
  <2>1. i \in Nat /\ j \in Nat /\ order[i] \in Nat /\ order[j] \in Nat
    <3>1. i \in Nat /\ j \in Nat
      BY <1>1
    <3>2. \A x \in S : x \in Nat
      OBVIOUS
    <3> QED  BY <2>0, <3>1, <3>2, Zenon
  <2>2. ~(order[i] < order[j]) /\ ~(order[j] < order[i])
    BY <2>1
  <2>3. ~(i < j) /\ ~(j < i)
    BY <1>10, <2>2, Zenon
  <2> QED  BY <2>1, <2>3
<1>12. order \in Injection(1 .. n, S)
  BY <1>10, <1>11 DEF Injection, IsInjective
<1>13. order \in Surjection(1 .. n, S)
  BY <1>1, <1>12, FS_Injection DEF n
<1>14. \A x \in S : \E i \in 1 .. n : order[i] = x
  BY <1>13 DEF Surjection
<1> QED  BY <1>10, <1>11, <1>14 DEF order, n

-----------------------------------------------------------------------------
(* ResourceCache: the inductive invariant.                                   *)

Walk == [session : Nat, offset : Nat, seen : [Objects -> Nat],
         stayed : SUBSET Objects, done : BOOLEAN]

\* matchingKeys: the keys of a session are sorted, each of them once.
EachOnce(keys) == \A i, j \in 1 .. Len(keys) : keys[i] = keys[j] => i = j

\* The objects of the store are what its totals add up; what the watch has still to
\* deliver are changes of such objects.
StoreAddsUp ==
    /\ IsContent(items) /\ Matching(items, totals)
    /\ IsContent(stored)
    /\ events \in Seq(ClusterChange)
    /\ section \in [synced : BOOLEAN, failed : BOOLEAN, watching : BOOLEAN]

\* The paging sessions: never two of one name, and no key twice in one.
Tables(table) ==
    /\ table \in Seq([session : Nat \ {0}, keys : Seq(Objects)])
    /\ Len(table) <= MaxPaging
    /\ \A i, j \in 1 .. Len(table) : table[i].session = table[j].session => i = j
    /\ \A i \in 1 .. Len(table) : EachOnce(table[i].keys)

\* A walk over some keys has shown what stayed of those before its token, and nothing
\* after it; and what stayed is among them.
Along(w, keys) ==
    /\ \A o \in Objects :
          \/ w.seen[o] = 0
          \/ w.seen[o] = 1 /\ \E i \in 1 .. Len(keys) : i <= w.offset /\ keys[i] = o
    /\ \A o \in w.stayed :
          /\ \E i \in 1 .. Len(keys) : keys[i] = o
          /\ \A i \in 1 .. Len(keys) : i <= w.offset /\ keys[i] = o => w.seen[o] = 1

\* What a walk that is over has shown.
Complete(w) ==
    /\ \A o \in w.stayed : w.seen[o] = 1
    /\ \A o \in Objects : w.seen[o] <= 1

\* What was promised is cached; a walk goes along the keys of the session that its
\* token names, if the table still has it.
Walking(w, content, table) ==
    /\ w \in Walk /\ w.stayed \subseteq DOMAIN content
    /\ \A i \in 1 .. Len(table) : table[i].session = w.session => Along(w, table[i].keys)
    /\ w.done => Complete(w)

Walks == walk \in [Readers -> Walk] /\ \A r \in Readers : Walking(walk[r], items, paging)

SectionInv == StoreAddsUp /\ Tables(paging) /\ Walks /\ changed \in Nat

-----------------------------------------------------------------------------

\* A page of these keys shows an object.
OnPage(keys, offset, limit, o) ==
    \E i \in 1 .. Len(keys) :
        offset < i /\ i <= offset + limit /\ keys[i] = o /\ o \in DOMAIN items

\* What a page adds to what a walk has seen.
LEMMA PageCounts ==
    ASSUME NEW seen \in [Objects -> Nat], NEW keys \in Seq(Objects), EachOnce(keys),
           NEW offset \in Nat, NEW limit \in Nat, NEW o \in Objects
    PROVE  /\ OnPage(keys, offset, limit, o) =>
                Shows(seen, keys, offset, limit)[o] = seen[o] + 1
           /\ ~OnPage(keys, offset, limit, o) =>
                Shows(seen, keys, offset, limit)[o] = seen[o]
<1> DEFINE window == {i \in DOMAIN keys : /\ offset < i /\ i <= offset + limit
                                          /\ keys[i] = o /\ o \in DOMAIN items}
<1>1. DOMAIN keys = 1 .. Len(keys)
  OBVIOUS
<1>2. Shows(seen, keys, offset, limit)[o] = seen[o] + Cardinality(window)
  BY DEF Shows
<1>3. CASE OnPage(keys, offset, limit, o)
  <2>1. PICK i \in 1 .. Len(keys) : /\ offset < i /\ i <= offset + limit
                                    /\ keys[i] = o /\ o \in DOMAIN items
    BY <1>3 DEF OnPage
  <2>2. window = {i}
    BY <1>1, <2>1 DEF EachOnce
  <2>3. Cardinality(window) = 1
    BY <2>2, FS_Singleton
  <2> HIDE DEF window
  <2> QED  BY <1>2, <1>3, <2>3
<1>4. CASE ~OnPage(keys, offset, limit, o)
  <2>1. window = {}
    BY <1>1, <1>4 DEF OnPage
  <2>2. Cardinality(window) = 0
    BY <2>1, FS_EmptySet
  <2> HIDE DEF window
  <2> QED  BY <1>2, <1>4, <2>2
<1> QED  BY <1>3, <1>4

\* A page goes on along the keys, and the last one completes the walk.
LEMMA PageGoesOn ==
    ASSUME NEW w, NEW keys \in Seq(Objects), EachOnce(keys), NEW limit \in Nat,
           w.seen \in [Objects -> Nat], w.offset \in Nat, w.stayed \subseteq Objects,
           w.stayed \subseteq DOMAIN items, Along(w, keys),
           NEW v, v.seen = Shows(w.seen, keys, w.offset, limit),
           v.offset = w.offset + limit, v.stayed = w.stayed
    PROVE  /\ v.seen \in [Objects -> Nat]
           /\ Along(v, keys)
           /\ ~(w.offset + limit < Len(keys)) => Complete(v)
<1> DEFINE end == w.offset + limit
           shown(o) == \E i \in 1 .. Len(keys) : /\ w.offset < i /\ i <= end
                                                 /\ keys[i] = o /\ o \in DOMAIN items
<1>1. \A o \in Objects : v.seen[o] = w.seen[o] + IF shown(o) THEN 1 ELSE 0
  <2> SUFFICES ASSUME NEW o \in Objects
               PROVE  v.seen[o] = w.seen[o] + IF shown(o) THEN 1 ELSE 0
    BY Zenon
  <2> DEFINE page == Shows(w.seen, keys, w.offset, limit)
  <2>1. /\ OnPage(keys, w.offset, limit, o) => page[o] = w.seen[o] + 1
        /\ ~OnPage(keys, w.offset, limit, o) => page[o] = w.seen[o]
    BY PageCounts
  <2>2. v.seen = page
    OBVIOUS
  <2>3. shown(o) <=> OnPage(keys, w.offset, limit, o)
    BY DEF OnPage
  <2>4. w.seen[o] \in Nat
    OBVIOUS
  <2> HIDE DEF page, shown
  <2> QED  BY <2>1, <2>2, <2>3, <2>4
<1>2. end \in Nat /\ w.offset <= end /\ Len(keys) \in Nat
  OBVIOUS
<1>3. v.seen \in [Objects -> Nat]
  <2>1. v.seen = [o \in Objects |-> v.seen[o]]
    BY DEF Shows
  <2>2. \A o \in Objects : v.seen[o] \in Nat
    <3> HIDE DEF shown
    <3> QED  BY <1>1
  <2> QED  BY <2>1, <2>2
<1>4. \A o \in Objects :
        \/ v.seen[o] = 0
        \/ v.seen[o] = 1 /\ \E i \in 1 .. Len(keys) : i <= end /\ keys[i] = o
  <2> SUFFICES ASSUME NEW o \in Objects
               PROVE  \/ v.seen[o] = 0
                      \/ v.seen[o] = 1 /\ \E i \in 1 .. Len(keys) : i <= end /\ keys[i] = o
    BY Zenon
  <2>1. \/ w.seen[o] = 0
        \/ w.seen[o] = 1 /\ \E i \in 1 .. Len(keys) : i <= w.offset /\ keys[i] = o
    BY DEF Along
  <2>2. CASE shown(o)
    <3>1. PICK i \in 1 .. Len(keys) : w.offset < i /\ i <= end /\ keys[i] = o
      BY <2>2
    <3>2. w.seen[o] # 1
      <4> SUFFICES ASSUME w.seen[o] = 1
                   PROVE  FALSE
        OBVIOUS
      <4>1. PICK j \in 1 .. Len(keys) : j <= w.offset /\ keys[j] = o
        BY <2>1
      <4>2. i = j
        BY <3>1, <4>1 DEF EachOnce
      <4> HIDE DEF end
      <4> QED  BY <3>1, <4>1, <4>2
    <3>3. v.seen[o] = w.seen[o] + 1
      BY <1>1, <2>2
    <3>4. v.seen[o] = 1
      BY <2>1, <3>2, <3>3
    <3> QED  BY <3>1, <3>4
  <2>3. CASE ~shown(o)
    <3> HIDE DEF shown
    <3>1. v.seen[o] = w.seen[o] + 0
      BY <1>1, <2>3
    <3>2. v.seen[o] = w.seen[o]
      BY <2>1, <3>1
    <3>3. \A i \in 1 .. Len(keys) : i <= w.offset => i <= end
      BY <1>2
    <3> HIDE DEF end
    <3> QED  BY <2>1, <3>2, <3>3, Zenon
  <2> QED  BY <2>2, <2>3, Zenon
<1>5. \A o \in w.stayed :
        /\ \E i \in 1 .. Len(keys) : keys[i] = o
        /\ \A i \in 1 .. Len(keys) : i <= end /\ keys[i] = o => v.seen[o] = 1
  <2> SUFFICES ASSUME NEW o \in w.stayed
               PROVE  /\ \E i \in 1 .. Len(keys) : keys[i] = o
                      /\ \A i \in 1 .. Len(keys) : i <= end /\ keys[i] = o => v.seen[o] = 1
    BY Zenon
  <2>1. o \in Objects /\ o \in DOMAIN items
    OBVIOUS
  <2>2. \E i \in 1 .. Len(keys) : keys[i] = o
    BY DEF Along
  <2>3. ASSUME NEW i \in 1 .. Len(keys), i <= end, keys[i] = o
        PROVE  v.seen[o] = 1
    <3>1. CASE i <= w.offset
      <4>1. w.seen[o] = 1
        BY <2>3, <3>1 DEF Along
      <4>2. v.seen[o] # 0
        <5>1. v.seen[o] = 1 + IF shown(o) THEN 1 ELSE 0
          BY <1>1, <2>1, <4>1
        <5> HIDE DEF shown
        <5> QED  BY <5>1
      <4> QED  BY <1>4, <2>1, <4>2
    <3>2. CASE ~(i <= w.offset)
      <4>1. w.offset < i
        BY <3>2
      <4>2. shown(o)
        BY <2>1, <2>3, <4>1
      <4> HIDE DEF shown
      <4>3. v.seen[o] = w.seen[o] + 1 /\ w.seen[o] \in Nat
        BY <1>1, <2>1, <4>2
      <4>4. v.seen[o] # 0
        BY <4>3
      <4> QED  BY <1>4, <2>1, <4>4
    <3> QED  BY <3>1, <3>2
  <2> HIDE DEF end
  <2> QED  BY <2>2, <2>3, Zenon
<1>6. Along(v, keys)
  <2> HIDE DEF end
  <2>1. v.offset = end /\ v.stayed = w.stayed
    BY DEF end
  <2> QED  BY <1>4, <1>5, <2>1, Zenon DEF Along
<1>7. ASSUME ~(end < Len(keys))
      PROVE  Complete(v)
  <2>1. \A i \in 1 .. Len(keys) : i <= end
    BY <1>2, <1>7
  <2>2. \A o \in w.stayed : v.seen[o] = 1
    <3> HIDE DEF end
    <3> QED  BY <1>5, <2>1, Zenon
  <2>3. \A o \in Objects : v.seen[o] <= 1
    <3> SUFFICES ASSUME NEW o \in Objects
                 PROVE  v.seen[o] <= 1
      BY Zenon
    <3>1. v.seen[o] = 0 \/ v.seen[o] = 1
      BY <1>4
    <3> QED  BY <3>1
  <2> QED  BY <2>2, <2>3, Zenon DEF Complete
<1> QED  BY <1>3, <1>6, <1>7

\* A random identifier there is.
LEMMA NewSessionExists ==
    ASSUME Tables(paging), walk \in [Readers -> Walk]
    PROVE  /\ NewSession \in Nat \ {0}
           /\ \A i \in 1 .. Len(paging) : paging[i].session # NewSession
           /\ \A r \in Readers : walk[r].session # NewSession
<1> DEFINE n == Cardinality(Readers)
           most == MaxPaging + n + 1
           held == {paging[i].session : i \in 1 .. Len(paging)}
           tokens == {walk[r].session : r \in Readers}
<1>1. n \in Nat /\ MaxPaging \in Nat /\ Len(paging) \in Nat /\ Len(paging) <= MaxPaging
  BY ResourceCacheAssumption, FS_CardinalityType DEF Tables
<1>2. IsFiniteSet(tokens) /\ Cardinality(tokens) <= n /\ Cardinality(tokens) \in Nat
  <2> DEFINE f == [r \in Readers |-> walk[r].session]
  <2>1. f \in Surjection(Readers, tokens)
    BY DEF Surjection
  <2> HIDE DEF f, tokens
  <2> QED  BY <2>1, ResourceCacheAssumption, FS_Surjection, FS_CardinalityType
<1>3. IsFiniteSet(held) /\ Cardinality(held) <= MaxPaging /\ Cardinality(held) \in Nat
  <2> DEFINE f == [i \in 1 .. Len(paging) |-> paging[i].session]
             len == Len(paging)
  <2>1. f \in Surjection(1 .. Len(paging), held)
    BY DEF Surjection
  <2> HIDE DEF f, held, len
  <2>2. len \in Nat /\ len <= MaxPaging /\ f \in Surjection(1 .. len, held)
    BY <1>1, <2>1 DEF len
  <2>3. 1 \in Int /\ len \in Int /\ (IF 1 > len THEN 0 ELSE len - 1 + 1) = len
    BY <2>2
  <2>4. IsFiniteSet(1 .. len) /\ Cardinality(1 .. len) = IF 1 > len THEN 0 ELSE len - 1 + 1
    BY <2>3, FS_Interval, Zenon
  <2>5. IsFiniteSet(1 .. len) /\ Cardinality(1 .. len) = len
    BY <2>3, <2>4
  <2>6. IsFiniteSet(held) /\ Cardinality(held) <= len
    BY <2>2, <2>5, FS_Surjection
  <2>7. Cardinality(held) \in Nat
    BY <2>6, FS_CardinalityType
  <2> QED  BY <1>1, <2>2, <2>6, <2>7
<1> HIDE DEF held, tokens, n
<1>4. /\ IsFiniteSet(held \cup tokens) /\ Cardinality(held \cup tokens) <= MaxPaging + n
      /\ Cardinality(held \cup tokens) \in Nat
  <2>1. /\ IsFiniteSet(held \cup tokens)
        /\ Cardinality(held \cup tokens) =
             Cardinality(held) + Cardinality(tokens) - Cardinality(held \cap tokens)
    BY <1>2, <1>3, FS_Union
  <2>2. Cardinality(held \cap tokens) \in Nat
    BY <1>2, <1>3, FS_Intersection, FS_CardinalityType
  <2>3. Cardinality(held \cup tokens) \in Nat
    BY <2>1, FS_CardinalityType
  <2> QED  BY <1>1, <1>2, <1>3, <2>1, <2>2, <2>3
<1>5. ~(1 .. most \subseteq held \cup tokens)
  <2> SUFFICES ASSUME 1 .. most \subseteq held \cup tokens
               PROVE  FALSE
    OBVIOUS
  <2>0. most \in Nat /\ most = MaxPaging + n + 1
    BY <1>1
  <2> HIDE DEF most
  <2>1. 1 \in Int /\ most \in Int /\ (IF 1 > most THEN 0 ELSE most - 1 + 1) = most
    BY <2>0
  <2>2. Cardinality(1 .. most) = IF 1 > most THEN 0 ELSE most - 1 + 1
    BY <2>1, FS_Interval, Zenon
  <2>3. Cardinality(1 .. most) = most
    BY <2>1, <2>2
  <2>4. Cardinality(1 .. most) <= Cardinality(held \cup tokens)
    BY <1>4, FS_Subset
  <2> QED  BY <1>1, <1>4, <2>0, <2>3, <2>4
<1>6. DOMAIN paging = 1 .. Len(paging)
  BY DEF Tables
<1> DEFINE Free3(k) == /\ \A i \in DOMAIN paging : paging[i].session # k
                      /\ \A r \in Readers : walk[r].session # k
<1>7. \E k \in 1 .. most : Free3(k)
  BY <1>5, <1>6 DEF held, tokens
<1>8. NewSession = CHOOSE k \in 1 .. most : Free3(k)
  BY DEF NewSession, n
<1>9. NewSession \in 1 .. most /\ Free3(NewSession)
  <2> HIDE DEF Free3, most
  <2> QED  BY <1>7, <1>8
<1>10. NewSession \in Nat \ {0}
  BY <1>9, <1>1
<1> QED  BY <1>6, <1>9, <1>10

\* Initially the section is empty and nobody reads.
LEMMA SectionInit == RCInit => SectionInv
<1> SUFFICES ASSUME RCInit
             PROVE  SectionInv
  OBVIOUS
<1>1. IsContent(items) /\ Matching(items, totals)
  BY NothingMatches DEF RCInit
<1>2. IsContent(stored)
  BY DEF RCInit, IsContent
<1>3. /\ events \in Seq(ClusterChange)
      /\ section \in [synced : BOOLEAN, failed : BOOLEAN, watching : BOOLEAN]
      /\ changed \in Nat
  BY DEF RCInit
<1>4. Tables(paging)
  <2>1. paging = <<>> /\ Len(paging) = 0
    BY DEF RCInit
  <2>2. MaxPaging \in Nat
    BY ResourceCacheAssumption
  <2> QED  BY <2>1, <2>2 DEF Tables
<1>5. NoWalk \in Walk /\ NoWalk.stayed = {} /\ ~NoWalk.done
  BY DEF NoWalk, NotSeen, Walk
<1>6. Walks
  <2>1. walk = [r \in Readers |-> NoWalk] /\ Len(paging) = 0
    BY DEF RCInit
  <2> QED  BY <1>5, <2>1 DEF Walks, Walking
<1> QED  BY <1>1, <1>2, <1>3, <1>4, <1>6 DEF SectionInv, StoreAddsUp

\* What a walk was promised is kept while the section changes under it.
LEMMA WalksAreKept ==
    ASSUME Walks, Tables(paging), NEW gone, Stays(gone), paging' = paging,
           \A o \in DOMAIN items : o \in gone \/ o \in DOMAIN items'
    PROVE  Walks'
<1>1. walk' = [r \in Readers |-> [walk[r] EXCEPT !.stayed = @ \ gone]]
  BY DEF Stays
<1>2. SUFFICES ASSUME NEW r \in Readers
               PROVE  walk'[r] \in Walk /\ Walking(walk'[r], items', paging')
  BY <1>1 DEF Walks
<1> DEFINE w == walk[r]
           v == walk'[r]
<1>3. w \in Walk /\ Walking(w, items, paging)
  BY DEF Walks
<1>4. v = [w EXCEPT !.stayed = @ \ gone]
  BY <1>1
<1> HIDE DEF w, v
<1>5. /\ v.session = w.session /\ v.offset = w.offset /\ v.seen = w.seen
      /\ v.stayed = w.stayed \ gone /\ v.done = w.done /\ v \in Walk
  BY <1>3, <1>4 DEF Walk
<1>6. v.stayed \subseteq DOMAIN items'
  BY <1>3, <1>5 DEF Walking
<1>7. ASSUME NEW keys, Along(w, keys)
      PROVE  Along(v, keys)
  BY <1>5, <1>7 DEF Along
<1>8. ASSUME NEW i \in 1 .. Len(paging), paging[i].session = v.session
      PROVE  Along(v, paging[i].keys)
  <2>1. Along(w, paging[i].keys)
    BY <1>3, <1>5, <1>8 DEF Walking
  <2> QED  BY <1>7, <2>1
<1>9. v.done => Complete(v)
  BY <1>3, <1>5 DEF Walking, Complete
<1>10. Walking(v, items', paging')
  BY <1>5, <1>6, <1>8, <1>9 DEF Walking
<1> QED  BY <1>5, <1>10 DEF v

LEMMA ObjectChangesStep ==
    ASSUME SectionInv, NEW o \in Objects, NEW amount \in Amounts \cup {Gone},
           ObjectChanges(o, amount)
    PROVE  SectionInv'
<1> DEFINE event == [object |-> o, amount |-> amount]
<1>1. UNCHANGED <<items, totals, section, paging, walk>>
  BY DEF ObjectChanges, storeVars
<1>2. IsContent(stored)'
  <2>1. IsContent(stored) /\ amount \in Amounts \cup {Gone}
    BY DEF SectionInv, StoreAddsUp
  <2>2. CASE amount = Gone
    <3>1. stored' = ItemsWithout(stored, o)
      BY <2>2 DEF ObjectChanges
    <3>2. IsContent(ItemsWithout(stored, o))
      BY <2>1 DEF IsContent, ItemsWithout
    <3> QED  BY <3>1, <3>2 DEF IsContent
  <2>3. CASE amount # Gone
    <3>1. stored' = Put(stored, o, amount) /\ amount \in Amounts
      BY <2>3 DEF ObjectChanges
    <3>2. IsContent(Put(stored, o, amount))
      BY <2>1, <3>1 DEF IsContent, Put
    <3> QED  BY <3>1, <3>2 DEF IsContent
  <2> QED  BY <2>2, <2>3
<1>3. /\ events' \in Seq(ClusterChange) /\ changed' \in Nat
  <2>1. event \in ClusterChange
    BY DEF ClusterChange
  <2>2. events \in Seq(ClusterChange) /\ changed \in Nat
    BY DEF SectionInv, StoreAddsUp
  <2>3. events' = Append(events, event) \/ events' = events
    BY DEF ObjectChanges
  <2>4. changed' = changed + 1
    BY DEF ObjectChanges
  <2> HIDE DEF event
  <2> QED  BY <2>1, <2>2, <2>3, <2>4
<1>4. Tables(paging)' /\ Walks' /\ IsContent(items)' /\ Matching(items, totals)'
      /\ (section \in [synced : BOOLEAN, failed : BOOLEAN, watching : BOOLEAN])'
  BY <1>1 DEF SectionInv, StoreAddsUp, Tables, Walks, IsContent, Matching
<1> QED  BY <1>2, <1>3, <1>4 DEF SectionInv, StoreAddsUp

LEMMA UpsertStep ==
    ASSUME SectionInv, NEW o \in Objects, NEW amount \in Amounts, Upsert(o, amount),
           paging' = paging
    PROVE  IsContent(items)' /\ Matching(items, totals)' /\ Walks'
<1> DEFINE next == With([items |-> items, totals |-> totals], o, amount)
<1>1. IsContent(items) /\ Matching(items, totals) /\ Walks /\ Tables(paging)
  BY DEF SectionInv, StoreAddsUp
<1>2. items' = next.items /\ totals' = next.totals /\ walk' = walk
  BY DEF Upsert
<1>3. /\ IsContent(next.items) /\ DOMAIN next.items = DOMAIN items \cup {o}
      /\ Matching(next.items, next.totals)
  <2> HIDE DEF next
  <2>1. next = With([items |-> items, totals |-> totals], o, amount)
    BY DEF next
  <2> QED  BY <1>1, <2>1, WithMatches
<1> HIDE DEF next
<1>4. IsContent(items)' /\ Matching(items, totals)'
  BY <1>2, <1>3 DEF IsContent, Matching
<1>5. Walks'
  <2>1. DOMAIN items \subseteq DOMAIN items'
    BY <1>2, <1>3
  <2>2. \A r \in Readers : Walking(walk[r], items', paging')
    BY <1>1, <2>1 DEF Walks, Walking
  <2> QED  BY <1>1, <1>2, <2>2 DEF Walks
<1> QED  BY <1>4, <1>5

LEMMA DeleteStep ==
    ASSUME SectionInv, NEW o \in Objects, Delete(o), paging' = paging
    PROVE  IsContent(items)' /\ Matching(items, totals)' /\ Walks'
<1>1. IsContent(items) /\ Matching(items, totals) /\ Walks /\ Tables(paging)
  BY DEF SectionInv, StoreAddsUp
<1>2. DOMAIN items' = DOMAIN items \ {o} /\ IsContent(items)' /\ Matching(items, totals)'
  <2>1. CASE o \in DOMAIN items
    <3>1. items' = ItemsWithout(items, o) /\ totals' = Removed(totals, items[o])
      BY <2>1 DEF Delete
    <3>2. /\ IsContent(ItemsWithout(items, o))
          /\ DOMAIN ItemsWithout(items, o) = DOMAIN items \ {o}
          /\ Matching(ItemsWithout(items, o), Removed(totals, items[o]))
      BY <1>1, <2>1, RemovedMatches
    <3> QED  BY <3>1, <3>2 DEF IsContent, Matching
  <2>2. CASE o \notin DOMAIN items
    <3>1. items' = ItemsWithout(items, o) /\ totals' = totals
      BY <2>2 DEF Delete
    <3>2. ItemsWithout(items, o) = items /\ DOMAIN items = DOMAIN items \ {o}
      BY <1>1, <2>2 DEF ItemsWithout, IsContent
    <3> QED  BY <1>1, <3>1, <3>2 DEF IsContent, Matching
  <2> QED  BY <2>1, <2>2
<1>3. Walks'
  <2>1. Stays({o}) /\ \A p \in DOMAIN items : p \in {o} \/ p \in DOMAIN items'
    BY <1>2 DEF Delete
  <2> QED  BY <1>1, <2>1, WalksAreKept
<1> QED  BY <1>2, <1>3

LEMMA WatchDeliversStep == ASSUME SectionInv, WatchDelivers PROVE SectionInv'
<1> DEFINE event == Head(events)
<1>1. /\ events # <<>> /\ events' = Tail(events)
      /\ UNCHANGED <<stored, changed, section, paging>>
  BY DEF WatchDelivers
<1>2. /\ events \in Seq(ClusterChange)
      /\ IsContent(stored) /\ Tables(paging) /\ changed \in Nat
      /\ section \in [synced : BOOLEAN, failed : BOOLEAN, watching : BOOLEAN]
  BY DEF SectionInv, StoreAddsUp
<1>3. event.object \in Objects /\ event.amount \in Amounts \cup {Gone}
  <2>1. event \in ClusterChange
    BY <1>1, <1>2
  <2> HIDE DEF event
  <2> QED  BY <2>1 DEF ClusterChange
<1>4. events' \in Seq(ClusterChange)
  BY <1>1, <1>2
<1>5. IsContent(items)' /\ Matching(items, totals)' /\ Walks'
  <2>1. CASE event.amount = Gone
    <3>1. Delete(event.object)
      BY <2>1 DEF WatchDelivers
    <3> HIDE DEF event
    <3> QED  BY <1>1, <1>3, <3>1, DeleteStep
  <2>2. CASE event.amount # Gone
    <3>1. Upsert(event.object, event.amount) /\ event.amount \in Amounts
      BY <1>3, <2>2 DEF WatchDelivers
    <3> HIDE DEF event
    <3> QED  BY <1>1, <1>3, <3>1, UpsertStep
  <2> QED  BY <2>1, <2>2
<1>6. IsContent(stored)' /\ Tables(paging)' /\ changed' \in Nat
      /\ (section \in [synced : BOOLEAN, failed : BOOLEAN, watching : BOOLEAN])'
  BY <1>1, <1>2 DEF IsContent, Tables
<1> QED  BY <1>4, <1>5, <1>6 DEF SectionInv, StoreAddsUp

LEMMA WatchEndsStep ==
    ASSUME SectionInv, NEW failed \in BOOLEAN, WatchEnds(failed)
    PROVE  SectionInv'
<1>1. /\ UNCHANGED <<stored, changed, items, totals, paging, walk>> /\ events' = <<>>
      /\ section' = [section EXCEPT !.watching = FALSE, !.failed = @ \/ failed]
  BY DEF WatchEnds
<1>2. section \in [synced : BOOLEAN, failed : BOOLEAN, watching : BOOLEAN]
  BY DEF SectionInv, StoreAddsUp
<1>3. section' \in [synced : BOOLEAN, failed : BOOLEAN, watching : BOOLEAN]
  BY <1>1, <1>2
<1>4. Tables(paging)' /\ Walks' /\ IsContent(items)' /\ Matching(items, totals)'
      /\ IsContent(stored)' /\ changed' \in Nat
  BY <1>1 DEF SectionInv, StoreAddsUp, Tables, Walks, IsContent, Matching
<1>5. events' \in Seq(ClusterChange)
  BY <1>1
<1> QED  BY <1>3, <1>4, <1>5 DEF SectionInv, StoreAddsUp

\* A LIST holds every object of the Cluster.
LEMMA ListHoldsAll ==
    ASSUME IsContent(stored), NEW twice \in Objects \cup {0}, NEW earlier \in Amounts
    PROVE  LET list == Listed(twice, earlier)
           IN  /\ Len(list) \in Nat
               /\ list \in [1 .. Len(list) -> ListEntry]
               /\ {list[i].object : i \in 1 .. Len(list)} = DOMAIN stored
<1> DEFINE n == Cardinality(DOMAIN stored)
           keys == InOrder(DOMAIN stored)
           extra == IF twice \in DOMAIN stored
                    THEN <<[object |-> twice, amount |-> earlier]>> ELSE <<>>
           rest == [i \in 1 .. n |-> [object |-> keys[i], amount |-> stored[keys[i]]]]
           list == Listed(twice, earlier)
<1>1. list = extra \o rest
  BY DEF Listed
<1>2. /\ DOMAIN stored \subseteq Objects /\ DOMAIN stored \subseteq Nat
      /\ IsFiniteSet(DOMAIN stored) /\ n \in Nat
      /\ \A o \in DOMAIN stored : stored[o] \in Amounts
  BY ResourceCacheAssumption, FS_Subset, FS_CardinalityType DEF IsContent
<1>3. /\ keys \in [1 .. n -> DOMAIN stored]
      /\ \A x \in DOMAIN stored : \E i \in 1 .. n : keys[i] = x
  BY <1>2, InOrderExists
<1> HIDE DEF n, keys
<1>4. rest \in Seq(ListEntry) /\ Len(rest) = n /\ \A i \in 1 .. n : rest[i].object = keys[i]
  <2>1. \A i \in 1 .. n : [object |-> keys[i], amount |-> stored[keys[i]]] \in ListEntry
    BY <1>2, <1>3 DEF ListEntry
  <2>2. rest \in [1 .. n -> ListEntry]
    BY <2>1
  <2> QED  BY <1>2, <2>2
<1>5. /\ extra \in Seq(ListEntry) /\ Len(extra) \in {0, 1}
      /\ \A i \in 1 .. Len(extra) : extra[i].object \in DOMAIN stored
  <2>1. CASE twice \in DOMAIN stored
    <3>1. [object |-> twice, amount |-> earlier] \in ListEntry
      BY <1>2, <2>1 DEF ListEntry
    <3>2. extra = <<[object |-> twice, amount |-> earlier]>>
      BY <2>1
    <3> QED  BY <2>1, <3>1, <3>2
  <2>2. CASE twice \notin DOMAIN stored
    <3>1. extra = <<>>
      BY <2>2
    <3> QED  BY <3>1
  <2> QED  BY <2>1, <2>2
<1> HIDE DEF extra, rest, list
<1>6. /\ list \in Seq(ListEntry) /\ Len(list) = Len(extra) + n
      /\ \A i \in 1 .. Len(list) :
            list[i] = IF i <= Len(extra) THEN extra[i] ELSE rest[i - Len(extra)]
  BY <1>1, <1>2, <1>4, <1>5
<1>7. Len(list) \in Nat /\ list \in [1 .. Len(list) -> ListEntry]
  BY <1>6
<1>8. ASSUME NEW i \in 1 .. Len(list)
      PROVE  list[i].object \in DOMAIN stored
  <2>1. CASE i <= Len(extra)
    <3>1. i \in 1 .. Len(extra) /\ list[i] = extra[i]
      BY <1>5, <1>6, <2>1
    <3> QED  BY <1>5, <3>1
  <2>2. CASE ~(i <= Len(extra))
    <3>1. i - Len(extra) \in 1 .. n /\ list[i] = rest[i - Len(extra)]
      BY <1>2, <1>5, <1>6, <2>2
    <3> QED  BY <1>3, <1>4, <3>1
  <2> QED  BY <2>1, <2>2
<1>9. ASSUME NEW x \in DOMAIN stored
      PROVE  \E i \in 1 .. Len(list) : list[i].object = x
  <2>1. PICK j \in 1 .. n : keys[j] = x
    BY <1>3
  <2> DEFINE i == j + Len(extra)
  <2>2. i \in 1 .. Len(list) /\ ~(i <= Len(extra)) /\ i - Len(extra) = j
    BY <1>2, <1>5, <1>6
  <2> HIDE DEF i
  <2>3. list[i] = rest[j]
    BY <1>6, <2>2
  <2>4. list[i].object = x
    BY <1>4, <2>1, <2>3
  <2> QED  BY <2>2, <2>4
<1>10. {list[i].object : i \in 1 .. Len(list)} = DOMAIN stored
  BY <1>8, <1>9
<1> QED  BY <1>7, <1>10 DEF list

LEMMA RelistsStep ==
    ASSUME SectionInv, NEW twice \in Objects \cup {0}, NEW earlier \in Amounts,
           Relists(twice, earlier)
    PROVE  SectionInv'
<1> DEFINE list == Listed(twice, earlier)
           n == Len(list)
           built == Builds(list)[n]
<1>1. /\ IsContent(stored) /\ Tables(paging) /\ changed \in Nat /\ Walks /\ IsContent(items)
      /\ events \in Seq(ClusterChange)
  BY DEF SectionInv, StoreAddsUp
<1>2. /\ items' = built.items /\ totals' = built.totals
      /\ Stays(DOMAIN items \ DOMAIN stored)
      /\ UNCHANGED <<stored, events, changed, paging>>
      /\ section' = [synced |-> TRUE, failed |-> FALSE, watching |-> TRUE]
  BY DEF Relists, clusterVars
<1>3. /\ n \in Nat /\ list \in [1 .. n -> ListEntry]
      /\ {list[i].object : i \in 1 .. n} = DOMAIN stored
  BY <1>1, ListHoldsAll
<1> HIDE DEF list, n
<1>4. /\ IsContent(built.items) /\ Matching(built.items, built.totals)
      /\ DOMAIN built.items = DOMAIN stored
  BY <1>3, BuildsMatch
<1> HIDE DEF built
<1>5. IsContent(items)' /\ Matching(items, totals)' /\ DOMAIN items' = DOMAIN stored
  BY <1>2, <1>4 DEF IsContent, Matching
<1>6. Walks'
  <2> DEFINE gone == DOMAIN items \ DOMAIN stored
  <2>1. \A o \in DOMAIN items : o \in gone \/ o \in DOMAIN items'
    BY <1>5
  <2> HIDE DEF gone
  <2>2. Stays(gone)
    BY <1>2 DEF gone
  <2> QED  BY <1>1, <1>2, <2>1, <2>2, WalksAreKept
<1>7. IsContent(stored)' /\ Tables(paging)' /\ changed' \in Nat
      /\ events' \in Seq(ClusterChange)
      /\ section' \in [synced : BOOLEAN, failed : BOOLEAN, watching : BOOLEAN]
  BY <1>1, <1>2 DEF IsContent, Tables
<1> QED  BY <1>5, <1>6, <1>7 DEF SectionInv, StoreAddsUp

PagingSession == [session : Nat \ {0}, keys : Seq(Objects)]

\* Steps that read leave the store as it is.
LEMMA ReadersLeaveStore ==
    ASSUME SectionInv, UNCHANGED <<clusterVars, storeVars>>
    PROVE  StoreAddsUp' /\ changed' \in Nat
BY DEF SectionInv, StoreAddsUp, clusterVars, storeVars, IsContent, Matching

LEMMA TableEntries ==
    ASSUME NEW table, Tables(table), NEW i \in 1 .. Len(table)
    PROVE  /\ table[i].session \in Nat \ {0} /\ table[i].session # 0
           /\ table[i].keys \in Seq(Objects) /\ EachOnce(table[i].keys)
<1>1. table \in Seq(PagingSession) /\ EachOnce(table[i].keys)
  BY DEF Tables, PagingSession
<1>2. table[i] \in PagingSession
  BY <1>1
<1> QED  BY <1>1, <1>2 DEF PagingSession

\* A table without its oldest session, if the limit asks for that, has the others.
LEMMA OldestLeaves ==
    ASSUME NEW table, Tables(table), table # <<>>
    PROVE  /\ Tables(Tail(table)) /\ Len(Tail(table)) = Len(table) - 1
           /\ \A i \in 1 .. Len(Tail(table)) : i + 1 \in 1 .. Len(table)
           /\ \A i \in 1 .. Len(Tail(table)) : Tail(table)[i] = table[i + 1]
<1> DEFINE rest == Tail(table)
<1>1. table \in Seq(PagingSession) /\ Len(table) <= MaxPaging /\ Len(table) \in Nat
  BY DEF Tables, PagingSession
<1>2. /\ rest \in Seq(PagingSession) /\ Len(rest) = Len(table) - 1
      /\ \A i \in 1 .. Len(rest) : rest[i] = table[i + 1]
  BY <1>1
<1> HIDE DEF rest
<1>3. \A i \in 1 .. Len(rest) : i + 1 \in 1 .. Len(table)
  BY <1>1, <1>2
<1>4. Len(rest) <= MaxPaging
  BY <1>1, <1>2, ResourceCacheAssumption
<1>5. \A i, j \in 1 .. Len(rest) : rest[i].session = rest[j].session => i = j
  <2> SUFFICES ASSUME NEW i \in 1 .. Len(rest), NEW j \in 1 .. Len(rest),
                      rest[i].session = rest[j].session
               PROVE  i = j
    BY Zenon
  <2>1. i + 1 = j + 1
    BY <1>2, <1>3 DEF Tables
  <2>2. i \in Int /\ j \in Int
    BY <1>1, <1>2
  <2> QED  BY <2>1, <2>2
<1>6. \A i \in 1 .. Len(rest) : EachOnce(rest[i].keys)
  BY <1>2, <1>3 DEF Tables
<1>7. Tables(rest)
  BY <1>2, <1>4, <1>5, <1>6 DEF Tables, PagingSession
<1> QED  BY <1>2, <1>3, <1>7 DEF rest

\* A session that is opened comes last, and what else is in the table was there.
LEMMA PagingOpens ==
    ASSUME Tables(paging), NEW entry \in PagingSession, EachOnce(entry.keys),
           \A i \in 1 .. Len(paging) : paging[i].session # entry.session
    PROVE  /\ Tables(Opened(entry))
           /\ \A i \in 1 .. Len(Opened(entry)) :
                \/ Opened(entry)[i] = entry
                \/ \E j \in 1 .. Len(paging) : Opened(entry)[i] = paging[j]
<1> DEFINE rest == IF Len(paging) >= MaxPaging THEN Tail(paging) ELSE paging
           next == Append(rest, entry)
<1>1. MaxPaging \in Nat \ {0} /\ Len(paging) \in Nat
  BY ResourceCacheAssumption DEF Tables
<1>2. /\ Tables(rest) /\ Len(rest) < MaxPaging /\ Len(rest) \in Nat
      /\ \A i \in 1 .. Len(rest) : \E j \in 1 .. Len(paging) : rest[i] = paging[j]
  <2>1. CASE Len(paging) >= MaxPaging
    <3>1. paging # <<>> /\ rest = Tail(paging)
      BY <1>1, <2>1 DEF Tables
    <3>2. /\ Tables(Tail(paging)) /\ Len(Tail(paging)) = Len(paging) - 1
          /\ \A i \in 1 .. Len(Tail(paging)) : i + 1 \in 1 .. Len(paging)
          /\ \A i \in 1 .. Len(Tail(paging)) : Tail(paging)[i] = paging[i + 1]
      BY <3>1, OldestLeaves
    <3>3. Len(paging) <= MaxPaging
      BY DEF Tables
    <3>4. Len(rest) < MaxPaging /\ Len(rest) \in Nat
      <4>1. Len(paging) - 1 < MaxPaging /\ Len(paging) - 1 \in Nat
        BY <1>1, <2>1, <3>3
      <4> QED  BY <3>1, <3>2, <4>1, Zenon
    <3> QED  BY <3>1, <3>2, <3>4, Zenon
  <2>2. CASE ~(Len(paging) >= MaxPaging)
    <3>1. rest = paging /\ Len(paging) < MaxPaging
      BY <1>1, <2>2
    <3> QED  BY <1>1, <3>1, Zenon
  <2> QED  BY <2>1, <2>2
<1> HIDE DEF rest
<1>3. rest \in Seq(PagingSession)
  BY <1>2 DEF Tables, PagingSession
<1>4. /\ next \in Seq(PagingSession) /\ Len(next) = Len(rest) + 1
      /\ next[Len(rest) + 1] = entry
      /\ \A i \in 1 .. Len(rest) : next[i] = rest[i]
  BY <1>2, <1>3
<1> HIDE DEF next
<1>5. \A i \in 1 .. Len(next) : i = Len(rest) + 1 \/ i \in 1 .. Len(rest)
  BY <1>2, <1>4
<1>6. \A i \in 1 .. Len(next) :
        next[i] = entry \/ \E j \in 1 .. Len(paging) : next[i] = paging[j]
  BY <1>2, <1>4, <1>5, Zenon
<1>7. Len(next) <= MaxPaging
  BY <1>1, <1>2, <1>4
<1>8. \A i \in 1 .. Len(next) : EachOnce(next[i].keys)
  BY <1>2, <1>4, <1>5, Zenon DEF Tables
<1>9. \A i, j \in 1 .. Len(next) : next[i].session = next[j].session => i = j
  <2>1. \A i \in 1 .. Len(rest) : rest[i].session # entry.session
    BY <1>2, Zenon
  <2>2. \A i, j \in 1 .. Len(rest) : rest[i].session = rest[j].session => i = j
    BY <1>2 DEF Tables
  <2> QED  BY <1>4, <1>5, <2>1, <2>2, Zenon
<1>10. Tables(next)
  BY <1>4, <1>7, <1>8, <1>9, Zenon DEF Tables, PagingSession
<1>11. Opened(entry) = next
  BY DEF Opened, next, rest
<1> QED  BY <1>6, <1>10, <1>11, Zenon

\* The walk of one reader moves, and the table is left alone or has a session that
\* none of the other readers holds.
LEMMA OneWalkMoves ==
    ASSUME Walks, NEW r \in Readers, NEW v \in Walk, walk' = [walk EXCEPT ![r] = v],
           items' = items, v.stayed \subseteq DOMAIN items, v.done => Complete(v),
           \A i \in 1 .. Len(paging') :
              paging'[i].session = v.session => Along(v, paging'[i].keys),
           \A i \in 1 .. Len(paging') :
              \/ \E j \in 1 .. Len(paging) : paging'[i] = paging[j]
              \/ \A p \in Readers : paging'[i].session # walk[p].session
    PROVE  Walks'
<1>1. walk' \in [Readers -> Walk]
  BY DEF Walks
<1>2. ASSUME NEW p \in Readers
      PROVE  Walking(walk'[p], items', paging')
  <2>1. CASE p = r
    <3>1. walk'[p] = v
      BY <2>1 DEF Walks
    <3>2. Walking(v, items, paging')
      BY Zenon DEF Walking
    <3> QED  BY <3>1, <3>2
  <2>2. CASE p # r
    <3> DEFINE w == walk[p]
    <3>1. walk'[p] = w /\ w \in Walk /\ Walking(w, items, paging)
      BY <2>2 DEF Walks
    <3> HIDE DEF w
    <3>2. ASSUME NEW i \in 1 .. Len(paging'), paging'[i].session = w.session
          PROVE  Along(w, paging'[i].keys)
      <4>1. PICK j \in 1 .. Len(paging) : paging'[i] = paging[j]
        BY <3>2 DEF w
      <4> QED  BY <3>1, <3>2, <4>1 DEF Walking
    <3>3. Walking(w, items, paging')
      BY <3>1, <3>2, Zenon DEF Walking
    <3> QED  BY <3>1, <3>3
  <2> QED  BY <2>1, <2>2
<1> QED  BY <1>1, <1>2 DEF Walks

LEMMA FirstPageStep ==
    ASSUME SectionInv, NEW r \in Readers, NEW limit \in Limits, FirstPage(r, limit)
    PROVE  SectionInv'
<1> DEFINE keys == InOrder(DOMAIN items)
           more == limit < Len(keys)
           fresh == [session |-> NewSession, keys |-> keys]
           start == [session |-> 0, offset |-> 0, seen |-> NotSeen,
                     stayed |-> DOMAIN items, done |-> FALSE]
           v == [session |-> IF more THEN NewSession ELSE 0,
                 offset |-> limit, seen |-> Shows(NotSeen, keys, 0, limit),
                 stayed |-> DOMAIN items, done |-> ~more]
<1>1. /\ paging' = IF more THEN Opened(fresh) ELSE paging
      /\ walk' = [walk EXCEPT ![r] = v]
      /\ UNCHANGED <<clusterVars, storeVars>>
  BY DEF FirstPage
<1>2. /\ IsContent(items) /\ Tables(paging) /\ Walks /\ walk \in [Readers -> Walk]
      /\ limit \in Nat
  BY ResourceCacheAssumption DEF SectionInv, StoreAddsUp, Walks
<1>3. /\ NewSession \in Nat \ {0}
      /\ \A i \in 1 .. Len(paging) : paging[i].session # NewSession
      /\ \A p \in Readers : walk[p].session # NewSession
  <2>1. walk \in [Readers -> [session : Nat, offset : Nat, seen : [Objects -> Nat],
                              stayed : SUBSET Objects, done : BOOLEAN]]
    BY <1>2 DEF Walk
  <2> QED  BY <1>2, NewSessionExists
<1>4. /\ keys \in Seq(Objects) /\ EachOnce(keys)
      /\ \A o \in DOMAIN items : \E i \in 1 .. Len(keys) : keys[i] = o
  <2> DEFINE n == Cardinality(DOMAIN items)
  <2>1. /\ IsFiniteSet(DOMAIN items) /\ DOMAIN items \subseteq Nat /\ n \in Nat
        /\ DOMAIN items \subseteq Objects
    BY <1>2, ContentBounded, ResourceCacheAssumption DEF IsContent
  <2>2. /\ keys \in [1 .. n -> DOMAIN items]
        /\ \A i, j \in 1 .. n : keys[i] = keys[j] => i = j
        /\ \A x \in DOMAIN items : \E i \in 1 .. n : keys[i] = x
    BY <2>1, InOrderExists
  <2> HIDE DEF keys, n
  <2>3. keys \in [1 .. n -> Objects] /\ Len(keys) = n
    BY <2>1, <2>2
  <2> QED  BY <2>1, <2>2, <2>3 DEF EachOnce
<1>5. DOMAIN items \subseteq Objects /\ NotSeen \in [Objects -> Nat]
  BY <1>2 DEF IsContent, NotSeen
<1> HIDE DEF keys
<1>6. Along(start, keys)
  <2>1. \A o \in Objects : start.seen[o] = 0
    BY DEF NotSeen
  <2>2. start.stayed = DOMAIN items /\ start.offset = 0
    OBVIOUS
  <2>3. \A i \in 1 .. Len(keys) : ~(i <= 0)
    BY <1>4
  <2> HIDE DEF start
  <2> QED  BY <1>4, <1>5, <2>1, <2>2, <2>3 DEF Along
<1>7. /\ v.seen \in [Objects -> Nat] /\ Along(v, keys)
      /\ ~more => Complete(v)
  <2>1. /\ start.seen \in [Objects -> Nat] /\ start.offset \in Nat
        /\ start.stayed \subseteq Objects /\ start.stayed \subseteq DOMAIN items
        /\ v.seen = Shows(start.seen, keys, start.offset, limit)
        /\ v.stayed = start.stayed /\ start.offset = 0
    BY <1>5
  <2>2. v.offset = start.offset + limit /\ (start.offset + limit < Len(keys) <=> more)
    BY <1>2
  <2> HIDE DEF start, v, more
  <2>3. /\ v.seen \in [Objects -> Nat] /\ Along(v, keys)
        /\ ~(start.offset + limit < Len(keys)) => Complete(v)
    BY <1>2, <1>4, <1>6, <2>1, <2>2, PageGoesOn
  <2> QED  BY <2>2, <2>3
<1>8. /\ v \in Walk /\ v.stayed \subseteq DOMAIN items /\ v.done = ~more
      /\ v.session = IF more THEN NewSession ELSE 0
  <2>1. more \in BOOLEAN
    OBVIOUS
  <2> HIDE DEF more
  <2> QED  BY <1>2, <1>3, <1>5, <1>7, <2>1 DEF Walk
<1> HIDE DEF v
<1>9. Tables(paging') /\ Walks'
  <2>0. items' = items
    BY <1>1 DEF storeVars
  <2>1. CASE more
    <3>1. fresh \in PagingSession /\ EachOnce(fresh.keys) /\ fresh.session = NewSession
          /\ fresh.keys = keys
      BY <1>3, <1>4 DEF PagingSession
    <3>2. paging' = Opened(fresh) /\ v.session = NewSession /\ ~v.done
      BY <1>1, <1>8, <2>1
    <3> HIDE DEF fresh, more
    <3>3. /\ Tables(paging')
          /\ \A i \in 1 .. Len(paging') :
                paging'[i] = fresh \/ \E j \in 1 .. Len(paging) : paging'[i] = paging[j]
      <4>1. \A i \in 1 .. Len(paging) : paging[i].session # fresh.session
        BY <1>3, <3>1
      <4>2. /\ Tables(Opened(fresh))
            /\ \A i \in 1 .. Len(Opened(fresh)) :
                  \/ Opened(fresh)[i] = fresh
                  \/ \E j \in 1 .. Len(paging) : Opened(fresh)[i] = paging[j]
        BY <1>2, <3>1, <4>1, PagingOpens
      <4> QED  BY <3>2, <4>2, Zenon
    <3>4. \A i \in 1 .. Len(paging') :
             paging'[i].session = v.session => Along(v, paging'[i].keys)
      <4> SUFFICES ASSUME NEW i \in 1 .. Len(paging'), paging'[i].session = v.session
                   PROVE  Along(v, paging'[i].keys)
        BY Zenon
      <4>1. paging'[i] = fresh
        BY <1>3, <3>2, <3>3
      <4> QED  BY <1>7, <3>1, <4>1
    <3>5. \A i \in 1 .. Len(paging') :
             \/ \E j \in 1 .. Len(paging) : paging'[i] = paging[j]
             \/ \A p \in Readers : paging'[i].session # walk[p].session
      BY <1>3, <3>1, <3>3
    <3>6. v.done => Complete(v)
      BY <3>2
    <3>7. Walks'
      BY <1>1, <1>2, <1>8, <2>0, <3>4, <3>5, <3>6, OneWalkMoves
    <3> QED  BY <3>2, <3>3, <3>7
  <2>2. CASE ~more
    <3>1. paging' = paging /\ v.session = 0
      BY <1>1, <1>8, <2>2
    <3>2. \A i \in 1 .. Len(paging) : paging[i].session # v.session
      BY <1>2, <3>1, TableEntries
    <3>3. v.done => Complete(v)
      BY <1>7, <2>2
    <3> HIDE DEF more
    <3>4. Walks'
      BY <1>1, <1>2, <1>8, <2>0, <3>1, <3>2, <3>3, OneWalkMoves
    <3> QED  BY <1>2, <3>1, <3>4
  <2> QED  BY <2>1, <2>2
<1>10. Tables(paging)'
  BY <1>9 DEF Tables
<1> QED  BY <1>1, <1>9, <1>10, ReadersLeaveStore DEF SectionInv

LEMMA ContinuePageStep ==
    ASSUME SectionInv, NEW r \in Readers, NEW limit \in Limits, ContinuePage(r, limit)
    PROVE  SectionInv'
<1> DEFINE w == walk[r]
<1>1. PICK n \in Resumed(r) :
        walk' = [walk EXCEPT ![r] =
            [session |-> IF w.offset + limit < Len(paging[n].keys) THEN w.session ELSE 0,
             offset |-> w.offset + limit,
             seen |-> Shows(w.seen, paging[n].keys, w.offset, limit),
             stayed |-> w.stayed, done |-> ~(w.offset + limit < Len(paging[n].keys))]]
  BY DEF ContinuePage
<1>2. UNCHANGED <<clusterVars, storeVars>> /\ paging' = paging
  BY DEF ContinuePage
<1> DEFINE keys == paging[n].keys
           more == w.offset + limit < Len(keys)
           v == [session |-> IF more THEN w.session ELSE 0, offset |-> w.offset + limit,
                 seen |-> Shows(w.seen, keys, w.offset, limit),
                 stayed |-> w.stayed, done |-> ~more]
<1>3. /\ Tables(paging) /\ Walks /\ walk \in [Readers -> Walk] /\ limit \in Nat
      /\ w \in Walk /\ Walking(w, items, paging)
  BY ResourceCacheAssumption DEF SectionInv, Walks
<1>4. n \in 1 .. Len(paging) /\ paging[n].session = w.session
  BY <1>3 DEF Resumed, Tables
<1>5. keys \in Seq(Objects) /\ EachOnce(keys)
  BY <1>3, <1>4, TableEntries
<1>6. Along(w, keys)
  BY <1>3, <1>4 DEF Walking
<1>7. walk' = [walk EXCEPT ![r] = v]
  BY <1>1
<1> HIDE DEF keys, w
<1>8. /\ v.seen = Shows(w.seen, keys, w.offset, limit) /\ v.offset = w.offset + limit
      /\ v.stayed = w.stayed /\ v.session = (IF more THEN w.session ELSE 0)
      /\ v.done = ~more
  OBVIOUS
<1>9. /\ w.seen \in [Objects -> Nat] /\ w.offset \in Nat /\ w.stayed \subseteq Objects
      /\ w.stayed \subseteq DOMAIN items /\ w.session \in Nat
  BY <1>3 DEF Walk, Walking
<1>10. /\ v.seen \in [Objects -> Nat] /\ Along(v, keys)
       /\ ~more => Complete(v)
  <2> HIDE DEF v
  <2> QED  BY <1>3, <1>5, <1>6, <1>8, <1>9, PageGoesOn
<1>11. v \in Walk
  <2>1. more \in BOOLEAN /\ w.offset + limit \in Nat
    BY <1>3, <1>9
  <2> HIDE DEF more
  <2> QED  BY <1>9, <1>10, <2>1 DEF Walk
<1> HIDE DEF v
<1>12. ASSUME NEW i \in 1 .. Len(paging), paging[i].session = v.session
       PROVE  Along(v, paging[i].keys)
  <2>1. paging[i].session # 0
    BY <1>3, TableEntries
  <2>2. v.session = w.session
    BY <1>8, <1>12, <2>1
  <2>3. i = n
    BY <1>3, <1>4, <1>12, <2>2 DEF Tables
  <2> QED  BY <1>10, <2>3 DEF keys
<1>13. v.done => Complete(v)
  <2> HIDE DEF more
  <2> QED  BY <1>8, <1>10
<1>14. \A i \in 1 .. Len(paging) : \E j \in 1 .. Len(paging) : paging[i] = paging[j]
  OBVIOUS
<1>15. Walks'
  <2>1. items' = items /\ v.stayed \subseteq DOMAIN items
    BY <1>2, <1>8, <1>9 DEF storeVars
  <2> QED  BY <1>2, <1>3, <1>7, <1>11, <1>12, <1>13, <1>14, <2>1, OneWalkMoves
<1>16. Tables(paging)'
  BY <1>2, <1>3 DEF Tables
<1> QED  BY <1>2, <1>15, <1>16, ReadersLeaveStore DEF SectionInv

LEMMA PageRefusedStep ==
    ASSUME SectionInv, NEW r \in Readers, PageRefused(r)
    PROVE  SectionInv'
<1>1. /\ walk' = [walk EXCEPT ![r] = NoWalk] /\ paging' = paging
      /\ UNCHANGED <<clusterVars, storeVars>>
  BY DEF PageRefused
<1>2. Tables(paging) /\ Walks
  BY DEF SectionInv
<1>3. NoWalk \in Walk /\ NoWalk.stayed = {} /\ ~NoWalk.done /\ NoWalk.session = 0
  BY DEF NoWalk, NotSeen, Walk
<1>4. \A i \in 1 .. Len(paging) : paging[i].session # NoWalk.session
  BY <1>2, <1>3, TableEntries
<1>5. Walks'
  <2>1. items' = items /\ NoWalk.stayed \subseteq DOMAIN items
    BY <1>1, <1>3 DEF storeVars
  <2> QED  BY <1>1, <1>2, <1>3, <1>4, <2>1, OneWalkMoves
<1>6. Tables(paging)'
  BY <1>1, <1>2 DEF Tables
<1> QED  BY <1>1, <1>5, <1>6, ReadersLeaveStore DEF SectionInv

LEMMA SessionAgesStep == ASSUME SectionInv, SessionAges PROVE SectionInv'
<1>1. /\ paging # <<>> /\ paging' = Tail(paging) /\ walk' = walk
      /\ UNCHANGED <<clusterVars, storeVars>>
  BY DEF SessionAges
<1>2. Tables(paging) /\ Walks
  BY DEF SectionInv
<1> DEFINE table == Tail(paging)
<1>3. /\ Tables(table) /\ \A i \in 1 .. Len(table) : i + 1 \in 1 .. Len(paging)
      /\ \A i \in 1 .. Len(table) : table[i] = paging[i + 1]
  BY <1>1, <1>2, OldestLeaves
<1>4. paging' = table /\ items' = items
  BY <1>1 DEF storeVars
<1> HIDE DEF table
<1>5. ASSUME NEW p \in Readers
      PROVE  Walking(walk[p], items, table)
  BY <1>2, <1>3 DEF Walks, Walking
<1>6. Walks'
  BY <1>1, <1>2, <1>4, <1>5 DEF Walks
<1>7. Tables(paging)'
  BY <1>3, <1>4 DEF Tables
<1> QED  BY <1>1, <1>6, <1>7, ReadersLeaveStore DEF SectionInv

LEMMA SectionStep == SectionInv /\ [RCNext]_cacheVars => SectionInv'
<1> SUFFICES ASSUME SectionInv, [RCNext]_cacheVars
             PROVE  SectionInv'
  OBVIOUS
<1>1. CASE UNCHANGED cacheVars
  <2>1. UNCHANGED <<stored, events, changed, items, totals, section, paging, walk>>
    BY <1>1 DEF cacheVars, clusterVars, storeVars
  <2>2. Walks' /\ Tables(paging)'
    BY <2>1 DEF SectionInv, Walks, Tables
  <2> QED  BY <1>1, <2>1, <2>2, ReadersLeaveStore DEF SectionInv, cacheVars
<1>2. CASE \E o \in Objects, a \in Amounts \cup {Gone} : ObjectChanges(o, a)
  BY <1>2, ObjectChangesStep
<1>3. CASE WatchDelivers
  BY <1>3, WatchDeliversStep
<1>4. CASE \E failed \in BOOLEAN : WatchEnds(failed)
  BY <1>4, WatchEndsStep
<1>5. CASE \E o \in Objects \cup {0}, a \in Amounts : Relists(o, a)
  BY <1>5, RelistsStep
<1>6. CASE \E r \in Readers, limit \in Limits : FirstPage(r, limit) \/ ContinuePage(r, limit)
  BY <1>6, FirstPageStep, ContinuePageStep
<1>7. CASE \E r \in Readers : PageRefused(r)
  BY <1>7, PageRefusedStep
<1>8. CASE SessionAges
  BY <1>8, SessionAgesStep
<1> QED  BY <1>1, <1>2, <1>3, <1>4, <1>5, <1>6, <1>7, <1>8 DEF RCNext

(* What a section holds adds up to its totals, the table of paging sessions   *)
(* is in order, and every walk has shown what it owes up to its token.        *)
THEOREM SectionCorrect == RCSpec => []SectionInv
<1> QED  BY SectionInit, SectionStep, PTL DEF RCSpec

(* The totals, which upsert, Delete and Replace keep up by adding and         *)
(* subtracting, are always what the cached objects add up to.                 *)
THEOREM TotalsAddUp == RCSpec => []TotalsMatchItems
<1>1. SectionInv => TotalsMatchItems
  <2> SUFFICES ASSUME SectionInv
               PROVE  TotalsMatchItems
    OBVIOUS
  <2>1. IsContent(items) /\ Matching(items, totals)
    BY DEF SectionInv, StoreAddsUp
  <2>2. /\ totals.count = Cardinality(DOMAIN items)
        /\ totals.sum = FoldSet(LAMBDA o, sum : items[o] + sum, 0, DOMAIN items)
    BY <2>1, MatchingIsSum
  <2> QED  BY <2>2 DEF TotalsMatchItems
<1> QED  BY <1>1, SectionCorrect, PTL

(* A walk that reaches its end has shown every object that stayed cached      *)
(* exactly once, whatever the sizes of its pages, and whatever was deleted,   *)
(* listed again, opened or evicted meanwhile.                                 *)
THEOREM WalksComplete == RCSpec => []WalkIsComplete
<1>1. SectionInv => WalkIsComplete
  BY DEF SectionInv, Walks, Walking, Complete, WalkIsComplete
<1> QED  BY <1>1, SectionCorrect, PTL

(* The variables stay in their ranges; paging sessions stay within the limit. *)
THEOREM SectionTypeCorrect == RCSpec => []RCTypeOK
<1>1. SectionInv => RCTypeOK
  <2> SUFFICES ASSUME SectionInv
               PROVE  RCTypeOK
    OBVIOUS
  <2>1. IsContent(items) /\ Matching(items, totals) /\ IsContent(stored) /\ Tables(paging)
        /\ section \in [synced : BOOLEAN, failed : BOOLEAN, watching : BOOLEAN]
    BY DEF SectionInv, StoreAddsUp
  <2>2. totals \in [count : Nat, sum : 0 .. Ceiling]
    BY <2>1, MatchingIsSum
  <2>3. \A r \in Readers : walk[r].stayed \subseteq Objects
    BY DEF SectionInv, Walks, Walk
  <2> QED  BY <2>1, <2>2, <2>3 DEF RCTypeOK, IsContent, Tables
<1> QED  BY <1>1, SectionCorrect, PTL
=============================================================================
