------------------------- MODULE SessionDrainProofs -------------------------
(***************************************************************************)
(* Proofs about SessionDrain, for every number of connections, requests    *)
(* and slots, and about MCSessions, where it moves beside the registry,    *)
(* the access to Pods and a port forward.                                  *)
(***************************************************************************)
EXTENDS MCSessions, PodProofs, FiniteSetTheorems, TLAPS

-----------------------------------------------------------------------------
(* Counting requests.                                                       *)

\* One request more or less in a set of requests.
LEMMA CountRequests ==
    ASSUME NEW S \in SUBSET Requests, NEW r \in Requests
    PROVE  /\ Cardinality(S) \in Nat
           /\ Cardinality(S \cup {r}) =
                IF r \in S THEN Cardinality(S) ELSE Cardinality(S) + 1
           /\ Cardinality(S \ {r}) =
                IF r \in S THEN Cardinality(S) - 1 ELSE Cardinality(S)
           /\ r \in S => Cardinality(S) > 0
           /\ Cardinality(S) = 0 => S = {}
           /\ Cardinality(S) = 1 /\ r \in S => S = {r}
<1>1. IsFiniteSet(S)
  BY RequestAssumption, FS_Subset
<1>2. /\ Cardinality(S) \in Nat
      /\ Cardinality(S) = 0 <=> S = {}
      /\ Cardinality(S) = 1 <=> \E x : S = {x}
  BY <1>1, FS_CardinalityType, FS_EmptySet, FS_Singleton
<1>3. Cardinality(S \cup {r}) =
        IF r \in S THEN Cardinality(S) ELSE Cardinality(S) + 1
  BY <1>1, FS_AddElement
<1>4. Cardinality(S \ {r}) =
        IF r \in S THEN Cardinality(S) - 1 ELSE Cardinality(S)
  BY <1>1, FS_RemoveElement
<1>5. r \in S => Cardinality(S) > 0
  BY <1>2
<1>6. Cardinality(S) = 1 /\ r \in S => S = {r}
  BY <1>2
<1> QED
  BY <1>2, <1>3, <1>4, <1>5, <1>6

\* The sets that are counted, after the request r has moved.
LEMMA Moved ==
    ASSUME NEW r \in Requests, NEW place \in Places, TypeOK,
           Move(r, place), target' = target
    PROVE  /\ Holding' = IF place \in {"queued", "working"}
                         THEN Holding \cup {r} ELSE Holding \ {r}
           /\ \A s \in Sessions :
                /\ Working(s)' = IF target[r] = s /\ place = "working"
                                 THEN Working(s) \cup {r} ELSE Working(s) \ {r}
                /\ Inside(s)' =
                     IF target[r] = s
                        /\ place \in {"entered", "queued", "working", "leaving"}
                     THEN Inside(s) \cup {r} ELSE Inside(s) \ {r}
<1>1. \A q \in Requests : at'[q] = IF q = r THEN place ELSE at[q]
  BY DEF TypeOK, Move
<1>2. Holding' = IF place \in {"queued", "working"}
                 THEN Holding \cup {r} ELSE Holding \ {r}
  BY <1>1 DEF Holding
<1>3. ASSUME NEW s \in Sessions
      PROVE  Working(s)' = IF target[r] = s /\ place = "working"
                           THEN Working(s) \cup {r} ELSE Working(s) \ {r}
  BY <1>1 DEF Working
<1>4. ASSUME NEW s \in Sessions
      PROVE  Inside(s)' =
               IF target[r] = s
                  /\ place \in {"entered", "queued", "working", "leaving"}
               THEN Inside(s) \cup {r} ELSE Inside(s) \ {r}
  BY <1>1 DEF Inside
<1> QED
  BY <1>2, <1>3, <1>4

\* A counter with one session counted up or down.
LEMMA CountUpDown ==
    ASSUME NEW f \in [Sessions -> Nat], NEW t \in Sessions
    PROVE  /\ [f EXCEPT ![t] = @ + 1] \in [Sessions -> Nat]
           /\ f[t] > 0 => [f EXCEPT ![t] = @ - 1] \in [Sessions -> Nat]
OBVIOUS

-----------------------------------------------------------------------------
(* The inductive invariant.                                                 *)

\* A request that is under way has found a session.
TargetsAreSessions ==
    \A r \in Requests : at[r] \notin {"idle", "done"} => target[r] \in Sessions

\* A handler that replaces another session knows which.
PreviousAreSessions ==
    \A h \in Sessions : handler[h] \in {"replacing", "finishing"}
                          => previous[h] \in Sessions

\* No more slots are out than there are.
SlotsWithinLimits ==
    used <= GlobalSlots /\ \A s \in Sessions : taken[s] <= SessionSlots

\* Only a session that drains has a timer or is finished, and a timer that still
\* runs belongs to one that is not finished.
DrainInOrder ==
    /\ finished \subseteq draining
    /\ \A s \in Sessions :
         /\ timer[s] # "none" => s \in draining
         /\ timer[s] = "armed" => s \notin finished

\* Who is about to call finishDrain without having waited for the deadline does so
\* for a session that drains and that no request is in.
FinishersFindItIdle ==
    \A s \in Sessions :
        (\/ \E h \in Sessions : handler[h] = "finishing" /\ previous[h] = s
         \/ \E r \in Requests : at[r] = "finishing" /\ target[r] = s)
        => s \in draining /\ Inside(s) = {}

SlotInv == TypeOK /\ TargetsAreSessions /\ PreviousAreSessions
           /\ SlotsAccounted /\ SlotsWithinLimits

DrainInv == SlotInv /\ DrainInOrder /\ FinishersFindItIdle

-----------------------------------------------------------------------------
(* Slots.                                                                   *)

LEMMA SlotInit == Init => SlotInv
<1> SUFFICES ASSUME Init PROVE SlotInv
  OBVIOUS
<1>1. Holding = {} /\ \A s \in Sessions : Working(s) = {} /\ Inside(s) = {}
  BY DEF Init, Holding, Working, Inside
<1>2. SlotsAccounted
  BY <1>1, FS_EmptySet DEF Init, SlotsAccounted
<1> QED
  BY <1>2, SlotAssumption
     DEF Init, SlotInv, TypeOK, TargetsAreSessions, PreviousAreSessions,
         SlotsWithinLimits, Places, Handling

\* A step that leaves the requests where they are leaves the counters right.
LEMMA RequestsRest ==
    ASSUME SlotInv, UNCHANGED <<inFlight, slotVars, requestVars>>,
           TypeOK', PreviousAreSessions'
    PROVE  SlotInv'
<1>1. Holding' = Holding
      /\ \A s \in Sessions : Working(s)' = Working(s) /\ Inside(s)' = Inside(s)
  BY DEF Holding, Working, Inside, requestVars
<1> QED
  BY <1>1 DEF SlotInv, SlotsAccounted, SlotsWithinLimits, TargetsAreSessions, slotVars,
              requestVars

\* Registering, draining and leaving keep what is said of the counters.
LEMMA ConnectionKeepsSlots ==
    ASSUME SlotInv, NEW s \in Sessions,
           Register(s) \/ Disconnect(s) \/ Handle(s) \/ Drain(s)
    PROVE  SlotInv'
<1> USE DEF registryVars, drainState, slotVars, requestVars
<1>1. UNCHANGED <<inFlight, slotVars, requestVars>>
  BY DEF Register, Disconnect, Handle, Drain, StartDrain, FinishIdle, ServeEnds,
         Unregister, DrainTimeout, FinishLate
<1>2. TypeOK
  BY DEF SlotInv
<1>3. CASE Register(s)
  <2>1. TypeOK'
    BY <1>2, <1>3 DEF TypeOK, Register, Handling
  <2>2. PreviousAreSessions'
    BY <1>2, <1>3 DEF TypeOK, Register, SlotInv, PreviousAreSessions
  <2> QED
    BY <1>1, <2>1, <2>2, RequestsRest
<1>4. CASE Disconnect(s) \/ ServeEnds(s) \/ Unregister(s) \/ DrainTimeout(s)
  <2>1. TypeOK'
    BY <1>2, <1>4 DEF TypeOK, Disconnect, ServeEnds, Unregister, DrainTimeout, Handling
  <2>2. PreviousAreSessions'
    BY <1>2, <1>4 DEF TypeOK, SlotInv, PreviousAreSessions, Disconnect, ServeEnds,
                      Unregister, DrainTimeout
  <2> QED
    BY <1>1, <2>1, <2>2, RequestsRest
<1>5. CASE StartDrain(s)
  <2>1. previous[s] \in Sessions
    BY <1>5 DEF SlotInv, PreviousAreSessions, StartDrain
  <2>2. TypeOK'
    BY <1>2, <1>5, <2>1 DEF TypeOK, StartDrain, Handling
  <2>3. PreviousAreSessions'
    BY <1>2, <1>5, <2>1 DEF TypeOK, SlotInv, PreviousAreSessions, StartDrain
  <2> QED
    BY <1>1, <2>2, <2>3, RequestsRest
<1>6. CASE FinishIdle(s) \/ FinishLate(s)
  <2>1. handler[s] = "finishing" => previous[s] \in Sessions
    BY <1>6 DEF SlotInv, PreviousAreSessions
  <2>2. TypeOK'
    BY <1>2, <1>6, <2>1 DEF TypeOK, FinishIdle, FinishLate, FinishDrain, Handling
  <2>3. PreviousAreSessions'
    BY <1>2, <1>6 DEF TypeOK, SlotInv, PreviousAreSessions, FinishIdle, FinishLate
  <2> QED
    BY <1>1, <2>2, <2>3, RequestsRest
<1> QED
  BY <1>3, <1>4, <1>5, <1>6 DEF Handle, Drain

\* What a counter of the requests in a set must change by when one of them moves.
Change(before, after) ==
    IF after /\ ~before THEN 1 ELSE IF before /\ ~after THEN -1 ELSE 0

\* Counters that change by that still count the requests.
LEMMA MoveKeepsCounts ==
    ASSUME SlotInv, NEW r \in Requests, NEW place \in Places,
           Move(r, place), target' = target, target[r] \in Sessions,
           used' = used + Change(r \in Holding, place \in {"queued", "working"}),
           taken' = [taken EXCEPT ![target[r]] =
                       @ + Change(at[r] = "working", place = "working")],
           inFlight' = [inFlight EXCEPT ![target[r]] =
                          @ + Change(r \in Inside(target[r]),
                                     place \in {"entered", "queued", "working",
                                                "leaving"})]
    PROVE  /\ SlotsAccounted'
           /\ used' \in Nat
           /\ taken' \in [Sessions -> Nat] /\ inFlight' \in [Sessions -> Nat]
<1>1. TypeOK /\ SlotsAccounted
  BY DEF SlotInv
<1>2. used' = Cardinality(Holding')
  <2>1. Holding \in SUBSET Requests
    BY DEF Holding
  <2>2. Holding' = IF place \in {"queued", "working"}
                   THEN Holding \cup {r} ELSE Holding \ {r}
    BY <1>1, Moved
  <2>3. used = Cardinality(Holding)
    BY <1>1 DEF SlotsAccounted
  <2>4. /\ Cardinality(Holding) \in Nat
        /\ Cardinality(Holding \cup {r}) =
             IF r \in Holding THEN Cardinality(Holding) ELSE Cardinality(Holding) + 1
        /\ Cardinality(Holding \ {r}) =
             IF r \in Holding THEN Cardinality(Holding) - 1 ELSE Cardinality(Holding)
    BY <2>1, CountRequests
  <2> QED
    BY <2>2, <2>3, <2>4 DEF Change
<1>3. ASSUME NEW s \in Sessions
      PROVE  taken'[s] = Cardinality(Working(s)')
  <2>1. r \in Working(s) <=> target[r] = s /\ at[r] = "working"
    BY DEF Working
  <2>2. Working(s)' = IF target[r] = s /\ place = "working"
                      THEN Working(s) \cup {r} ELSE Working(s) \ {r}
    BY <1>1, Moved
  <2>3. taken[s] = Cardinality(Working(s)) /\ taken \in [Sessions -> Nat]
    BY <1>1 DEF SlotsAccounted, TypeOK
  <2>4. taken'[s] = IF s = target[r]
                    THEN taken[s] + Change(at[r] = "working", place = "working")
                    ELSE taken[s]
    BY <2>3
  <2>5. /\ Cardinality(Working(s)) \in Nat
        /\ Cardinality(Working(s) \cup {r}) =
             IF r \in Working(s) THEN Cardinality(Working(s))
                                 ELSE Cardinality(Working(s)) + 1
        /\ Cardinality(Working(s) \ {r}) =
             IF r \in Working(s) THEN Cardinality(Working(s)) - 1
                                 ELSE Cardinality(Working(s))
    <3>1. Working(s) \in SUBSET Requests
      BY DEF Working
    <3> QED
      BY <3>1, CountRequests
  <2> QED
    BY <2>1, <2>2, <2>3, <2>4, <2>5 DEF Change
<1>4. ASSUME NEW s \in Sessions
      PROVE  inFlight'[s] = Cardinality(Inside(s)')
  <2> DEFINE in == place \in {"entered", "queued", "working", "leaving"}
  <2>1. Inside(s) \in SUBSET Requests /\ (r \in Inside(s) => target[r] = s)
    BY DEF Inside
  <2>2. Inside(s)' = IF target[r] = s /\ in THEN Inside(s) \cup {r} ELSE Inside(s) \ {r}
    BY <1>1, Moved
  <2>3. inFlight[s] = Cardinality(Inside(s)) /\ inFlight \in [Sessions -> Nat]
    BY <1>1 DEF SlotsAccounted, TypeOK
  <2>4. inFlight'[s] = IF s = target[r] THEN inFlight[s] + Change(r \in Inside(s), in)
                       ELSE inFlight[s]
    BY <2>3
  <2>5. /\ Cardinality(Inside(s)) \in Nat
        /\ Cardinality(Inside(s) \cup {r}) =
             IF r \in Inside(s) THEN Cardinality(Inside(s))
                                ELSE Cardinality(Inside(s)) + 1
        /\ Cardinality(Inside(s) \ {r}) =
             IF r \in Inside(s) THEN Cardinality(Inside(s)) - 1
                                ELSE Cardinality(Inside(s))
    BY <2>1, CountRequests
  <2> HIDE DEF in
  <2> QED
    BY <2>1, <2>2, <2>3, <2>4, <2>5 DEF Change
<1>5. Holding' \in SUBSET Requests
      /\ \A s \in Sessions : Working(s)' \in SUBSET Requests /\ Inside(s)' \in SUBSET Requests
  BY DEF Holding, Working, Inside
<1>6. \A S \in SUBSET Requests : Cardinality(S) \in Nat
  BY CountRequests
<1>7. DOMAIN taken' = Sessions /\ DOMAIN inFlight' = Sessions
      /\ taken' = [s \in Sessions |-> taken'[s]]
      /\ inFlight' = [s \in Sessions |-> inFlight'[s]]
  BY <1>1 DEF TypeOK
<1>8. taken' \in [Sessions -> Nat]
  <2>1. \A s \in Sessions : taken'[s] \in Nat
    BY <1>3, <1>5, <1>6
  <2> QED
    BY <1>7, <2>1
<1>9. inFlight' \in [Sessions -> Nat]
  <2>1. \A s \in Sessions : inFlight'[s] \in Nat
    BY <1>4, <1>5, <1>6
  <2> QED
    BY <1>7, <2>1
<1> QED
  BY <1>2, <1>3, <1>4, <1>5, <1>6, <1>8, <1>9 DEF SlotsAccounted

\* Counting nothing changes nothing.
LEMMA CountNothing ==
    ASSUME NEW f \in [Sessions -> Nat], NEW t \in Sessions
    PROVE  f = [f EXCEPT ![t] = @ + 0]
OBVIOUS

\* Every step of a request keeps the counters right and within the limits.
LEMMA RequestKeepsSlots ==
    ASSUME SlotInv, NEW r \in Requests, Lookup(r) \/ Serve(r)
    PROVE  SlotInv'
<1> USE DEF registryVars, drainState, slotVars
<1>1. TypeOK /\ SlotsAccounted /\ TargetsAreSessions
  BY DEF SlotInv
<1>2. UNCHANGED <<route, handler, previous, draining>>
      /\ timer' \in [Sessions -> {"none", "armed", "stopped", "fired"}]
      /\ open' \subseteq Sessions /\ finished' \subseteq Sessions
  <2>1. CASE FinishLast(r)
    <3>1. target[r] \in Sessions
      BY <1>1, <2>1 DEF FinishLast, TargetsAreSessions
    <3> QED
      BY <1>1, <2>1, <3>1 DEF FinishLast, FinishDrain, TypeOK
  <2>2. CASE ~FinishLast(r)
    BY <1>1, <2>2 DEF TypeOK, Lookup, Serve, BeginBusiness, RefusedByDrain,
       CapabilityMissing, AcquireGlobal, AcquireSession, SessionExhausted, Answer,
       EndBusiness
  <2> QED
    BY <2>1, <2>2
<1>3. CASE Lookup(r)
  <2>1. Holding' = Holding
        /\ \A s \in Sessions : Working(s)' = Working(s) /\ Inside(s)' = Inside(s)
    BY <1>1, <1>3 DEF Lookup, Move, TypeOK, Holding, Working, Inside
  <2>2. TypeOK' /\ TargetsAreSessions'
    BY <1>1, <1>2, <1>3 DEF Lookup, Move, TypeOK, TargetsAreSessions, Places
  <2> QED
    BY <1>2, <1>3, <2>1, <2>2
       DEF Lookup, SlotInv, SlotsAccounted, SlotsWithinLimits, PreviousAreSessions
<1>4. CASE Serve(r)
  <2>1. /\ target[r] \in Sessions /\ target' = target
        /\ r \in Holding <=> at[r] \in {"queued", "working"}
        /\ r \in Inside(target[r])
             <=> at[r] \in {"entered", "queued", "working", "leaving"}
    BY <1>1, <1>4
       DEF TargetsAreSessions, Holding, Inside, Serve, BeginBusiness, RefusedByDrain,
           CapabilityMissing, AcquireGlobal, AcquireSession, SessionExhausted, Answer,
           EndBusiness, FinishLast
  <2>2. \A f \in [Sessions -> Nat] : f = [f EXCEPT ![target[r]] = @ + 0]
    BY <2>1, CountNothing
  <2>3. /\ taken \in [Sessions -> Nat] /\ inFlight \in [Sessions -> Nat]
        /\ used \in Nat
    BY <1>1 DEF TypeOK
  <2>4. PICK place \in Places :
          /\ Move(r, place)
          /\ used' = used + Change(r \in Holding, place \in {"queued", "working"})
          /\ taken' = [taken EXCEPT ![target[r]] =
                         @ + Change(at[r] = "working", place = "working")]
          /\ inFlight' = [inFlight EXCEPT ![target[r]] =
                            @ + Change(r \in Inside(target[r]),
                                       place \in {"entered", "queued", "working",
                                                  "leaving"})]
          /\ place # "idle"
    <3> USE DEF Places
    <3>1. CASE BeginBusiness(r)
      BY <2>1, <2>2, <2>3, <3>1 DEF BeginBusiness, Change
    <3>2. CASE RefusedByDrain(r) \/ FinishLast(r)
      BY <2>1, <2>2, <2>3, <3>2 DEF RefusedByDrain, FinishLast, Change
    <3>3. CASE CapabilityMissing(r)
      BY <2>1, <2>2, <2>3, <3>3 DEF CapabilityMissing, Change
    <3>4. CASE AcquireGlobal(r)
      BY <2>1, <2>2, <2>3, <3>4 DEF AcquireGlobal, Change
    <3>5. CASE AcquireSession(r)
      BY <2>1, <2>2, <2>3, <3>5 DEF AcquireSession, Change
    <3>6. CASE SessionExhausted(r)
      BY <2>1, <2>2, <2>3, <3>6 DEF SessionExhausted, Change
    <3>7. CASE Answer(r)
      BY <2>1, <2>2, <2>3, <3>7 DEF Answer, Change
    <3>8. CASE EndBusiness(r)
      <4>1. inFlight' = [inFlight EXCEPT ![target[r]] = @ + (-1)]
        BY <2>1, <2>3, <3>8 DEF EndBusiness
      <4>2. taken' = [taken EXCEPT ![target[r]] = @ + 0] /\ used' = used + 0
        BY <2>2, <2>3, <3>8 DEF EndBusiness
      <4>3. PICK place \in {"finishing", "done"} : Move(r, place)
        BY <3>8 DEF EndBusiness
      <4>4. ~(place \in {"queued", "working"}) /\ ~(place = "working")
            /\ ~(place \in {"entered", "queued", "working", "leaving"})
        BY <4>3
      <4>5. Change(r \in Holding, place \in {"queued", "working"}) = 0
            /\ Change(at[r] = "working", place = "working") = 0
            /\ Change(r \in Inside(target[r]),
                      place \in {"entered", "queued", "working", "leaving"}) = -1
        BY <2>1, <3>8, <4>4 DEF EndBusiness, Change
      <4> QED
        BY <4>1, <4>2, <4>3, <4>5
    <3> QED
      BY <1>4, <3>1, <3>2, <3>3, <3>4, <3>5, <3>6, <3>7, <3>8 DEF Serve
  <2>5. /\ SlotsAccounted' /\ used' \in Nat
        /\ taken' \in [Sessions -> Nat] /\ inFlight' \in [Sessions -> Nat]
    BY <2>1, <2>4, MoveKeepsCounts
  <2>6. TypeOK' /\ TargetsAreSessions'
    BY <1>1, <1>2, <2>1, <2>4, <2>5 DEF Move, TypeOK, TargetsAreSessions
  <2>7. SlotsWithinLimits'
    BY <1>4, <2>1, <2>3, SlotAssumption
       DEF SlotInv, SlotsWithinLimits, Serve, BeginBusiness, RefusedByDrain,
           CapabilityMissing, AcquireGlobal, AcquireSession, SessionExhausted, Answer,
           EndBusiness, FinishLast
  <2> QED
    BY <1>2, <2>5, <2>6, <2>7 DEF SlotInv, PreviousAreSessions
<1> QED
  BY <1>3, <1>4

LEMMA SlotStep == SlotInv /\ [Next]_vars => SlotInv'
<1> SUFFICES ASSUME SlotInv, [Next]_vars PROVE SlotInv'
  OBVIOUS
<1>1. CASE UNCHANGED vars
  <2>1. UNCHANGED <<inFlight, slotVars, requestVars>> /\ TypeOK' /\ PreviousAreSessions'
    BY <1>1 DEF vars, registryVars, drainState, slotVars, requestVars, SlotInv, TypeOK,
                PreviousAreSessions
  <2> QED
    BY <2>1, RequestsRest
<1> QED
  BY <1>1, ConnectionKeepsSlots, RequestKeepsSlots DEF Next

\* The three counters are the requests they count, and no more slots are out than there
\* are, however requests, refusals and replacements overlap (acquireResourceAdmission,
\* beginBusiness, endBusiness); every variable stays in its range.
THEOREM SlotsCorrect == Spec => [](TypeOK /\ SlotsAccounted /\ SlotsWithinLimits)
<1>1. Spec => []SlotInv
  BY SlotInit, SlotStep, PTL DEF Spec
<1> QED
  BY <1>1, PTL DEF SlotInv

-----------------------------------------------------------------------------
(* Draining.                                                                *)

LEMMA DrainInit == Init => DrainInv
BY SlotInit DEF Init, DrainInv, DrainInOrder, FinishersFindItIdle

\* Nobody enters a session that drains.
LEMMA DrainingAdmitsNobody ==
    ASSUME SlotInv, [Next]_vars, NEW s \in draining
    PROVE  Inside(s)' \subseteq Inside(s)
<1> USE DEF registryVars, drainState, slotVars, requestVars, SlotInv
<1>1. CASE UNCHANGED requestVars
  BY <1>1 DEF Inside
<1>2. ASSUME NEW r \in Requests, Lookup(r) \/ Serve(r)
      PROVE  Inside(s)' \subseteq Inside(s)
  <2> USE DEF TypeOK, Inside, Move
  <2>1. CASE Lookup(r)
    BY <2>1 DEF Lookup
  <2>2. CASE BeginBusiness(r)
    BY <2>2 DEF BeginBusiness
  <2>3. CASE RefusedByDrain(r) \/ FinishLast(r)
    BY <2>3 DEF RefusedByDrain, FinishLast
  <2>4. CASE CapabilityMissing(r) \/ AcquireGlobal(r) \/ AcquireSession(r)
    BY <2>4 DEF CapabilityMissing, AcquireGlobal, AcquireSession
  <2>5. CASE SessionExhausted(r) \/ Answer(r) \/ EndBusiness(r)
    BY <2>5 DEF SessionExhausted, Answer, EndBusiness
  <2> QED
    BY <1>2, <2>1, <2>2, <2>3, <2>4, <2>5 DEF Serve
<1>3. ASSUME NEW h \in Sessions, Register(h) \/ Disconnect(h) \/ Handle(h) \/ Drain(h)
      PROVE  UNCHANGED requestVars
  BY <1>3 DEF Register, Disconnect, Handle, Drain, StartDrain, FinishIdle, ServeEnds,
              Unregister, DrainTimeout, FinishLate
<1> QED
  BY <1>1, <1>2, <1>3 DEF Next, vars

\* The session that finishDrain is called for is one that drains.
LEMMA FinishKeepsOrder ==
    ASSUME TypeOK, DrainInOrder, NEW s \in draining, FinishDrain(s),
           draining' = draining
    PROVE  DrainInOrder'
BY DEF TypeOK, DrainInOrder, FinishDrain

LEMMA OrderStep == DrainInv /\ [Next]_vars => DrainInOrder'
<1> SUFFICES ASSUME DrainInv, [Next]_vars PROVE DrainInOrder'
  OBVIOUS
<1> USE DEF registryVars, drainState, slotVars, requestVars
<1>1. /\ TypeOK /\ DrainInOrder /\ FinishersFindItIdle
      /\ PreviousAreSessions /\ TargetsAreSessions
  BY DEF DrainInv, SlotInv
<1>2. CASE UNCHANGED <<draining, finished, timer>>
  BY <1>1, <1>2 DEF DrainInOrder
<1>3. ASSUME NEW h \in Sessions, StartDrain(h)
      PROVE  DrainInOrder'
  BY <1>1, <1>3 DEF StartDrain, TypeOK, DrainInOrder, PreviousAreSessions
<1>4. ASSUME NEW h \in Sessions, FinishIdle(h)
      PROVE  DrainInOrder'
  <2>1. previous[h] \in draining
    BY <1>1, <1>4 DEF FinishIdle, FinishersFindItIdle, PreviousAreSessions
  <2> QED
    BY <1>1, <1>4, <2>1, FinishKeepsOrder DEF FinishIdle
<1>5. ASSUME NEW s \in Sessions, DrainTimeout(s)
      PROVE  DrainInOrder'
  BY <1>1, <1>5 DEF DrainTimeout, TypeOK, DrainInOrder
<1>6. ASSUME NEW s \in Sessions, FinishLate(s)
      PROVE  DrainInOrder'
  <2>1. s \in draining
    BY <1>1, <1>6 DEF FinishLate, DrainInOrder
  <2> QED
    BY <1>1, <1>6, <2>1, FinishKeepsOrder DEF FinishLate
<1>7. ASSUME NEW r \in Requests, FinishLast(r)
      PROVE  DrainInOrder'
  <2>1. target[r] \in draining
    BY <1>1, <1>7 DEF FinishLast, FinishersFindItIdle, TargetsAreSessions
  <2> QED
    BY <1>1, <1>7, <2>1, FinishKeepsOrder DEF FinishLast
<1>8. ASSUME NEW s \in Sessions, Register(s) \/ Disconnect(s) \/ ServeEnds(s) \/ Unregister(s)
      PROVE  UNCHANGED <<draining, finished, timer>>
  BY <1>8 DEF Register, Disconnect, ServeEnds, Unregister
<1>9. ASSUME NEW r \in Requests, Lookup(r) \/ Serve(r), ~FinishLast(r)
      PROVE  UNCHANGED <<draining, finished, timer>>
  BY <1>9 DEF Lookup, Serve, BeginBusiness, RefusedByDrain, CapabilityMissing,
     AcquireGlobal, AcquireSession, SessionExhausted, Answer, EndBusiness
<1> QED
  BY <1>2, <1>3, <1>4, <1>5, <1>6, <1>7, <1>8, <1>9 DEF Next, Handle, Drain, vars

\* draining only grows.
LEMMA DrainingGrows == [Next]_vars => draining \subseteq draining'
BY DEF Next, vars, registryVars, drainState, slotVars, requestVars, Register, Disconnect,
       Handle, Drain, StartDrain, FinishIdle, ServeEnds, Unregister, DrainTimeout,
       FinishLate, Lookup, Serve, BeginBusiness, RefusedByDrain, CapabilityMissing,
       AcquireGlobal, AcquireSession, SessionExhausted, Answer, EndBusiness, FinishLast

\* A counter at zero means that nobody is inside.
LEMMA NobodyInside ==
    ASSUME SlotInv, NEW s \in Sessions
    PROVE  /\ inFlight[s] = 0 => Inside(s) = {}
           /\ \A r \in Requests : r \in Inside(s) /\ inFlight[s] = 1 => Inside(s) = {r}
<1>1. Inside(s) \in SUBSET Requests
  BY DEF Inside
<1>2. inFlight[s] = Cardinality(Inside(s))
  BY DEF SlotInv, SlotsAccounted
<1>3. IsFiniteSet(Inside(s))
  BY <1>1, RequestAssumption, FS_Subset
<1>4. Cardinality(Inside(s)) = 0 => Inside(s) = {}
  BY <1>3, FS_EmptySet
<1> QED
  BY <1>1, <1>2, <1>4, CountRequests

\* A handler comes to finishDrain from a session that it has found idle.
LEMMA HandlersFindItIdle ==
    ASSUME DrainInv, [Next]_vars, NEW h \in Sessions, NEW s \in Sessions,
           handler'[h] = "finishing", previous'[h] = s
    PROVE  s \in draining' /\ Inside(s)' = {}
<1> USE DEF registryVars, drainState, slotVars, requestVars
<1>1. SlotInv /\ TypeOK /\ PreviousAreSessions /\ FinishersFindItIdle
  BY DEF DrainInv, SlotInv
<1>2. CASE handler[h] = "finishing"
  <2>1. previous[h] = s
    BY <1>1, <1>2 DEF TypeOK, Next, vars, Register, Disconnect, Handle, Drain, StartDrain,
       FinishIdle, ServeEnds, Unregister, DrainTimeout, FinishLate, Lookup, Serve,
       BeginBusiness, RefusedByDrain, CapabilityMissing, AcquireGlobal, AcquireSession,
       SessionExhausted, Answer, EndBusiness, FinishLast
  <2>2. s \in draining /\ Inside(s) = {}
    BY <1>1, <1>2, <2>1 DEF FinishersFindItIdle
  <2> QED
    BY <1>1, <2>2, DrainingAdmitsNobody, DrainingGrows
<1>3. CASE handler[h] # "finishing"
  <2>1. /\ StartDrain(h)
        /\ previous[h] \notin draining /\ inFlight[previous[h]] = 0
    BY <1>1, <1>3 DEF TypeOK, Next, vars, Register, Disconnect, Handle, Drain, StartDrain,
       FinishIdle, ServeEnds, Unregister, DrainTimeout, FinishLate, Lookup, Serve,
       BeginBusiness, RefusedByDrain, CapabilityMissing, AcquireGlobal, AcquireSession,
       SessionExhausted, Answer, EndBusiness, FinishLast
  <2>2. previous[h] = s /\ s \in draining' /\ UNCHANGED <<at, target>>
    BY <2>1 DEF StartDrain
  <2>3. Inside(s) = {}
    BY <1>1, <2>1, <2>2, NobodyInside
  <2> QED
    BY <2>2, <2>3 DEF Inside
<1> QED
  BY <1>2, <1>3

\* A request comes to finishDrain as the last of a session that drains.
LEMMA RequestsFindItIdle ==
    ASSUME DrainInv, [Next]_vars, NEW r \in Requests, NEW s \in Sessions,
           at'[r] = "finishing", target'[r] = s
    PROVE  s \in draining' /\ Inside(s)' = {}
<1> USE DEF registryVars, drainState, slotVars, requestVars
<1>1. SlotInv /\ TypeOK /\ TargetsAreSessions /\ FinishersFindItIdle
  BY DEF DrainInv, SlotInv
<1>2. CASE at[r] = "finishing"
  <2>1. target[r] = s
    BY <1>1, <1>2 DEF TypeOK, Next, vars, Register, Disconnect, Handle, Drain, StartDrain,
       FinishIdle, ServeEnds, Unregister, DrainTimeout, FinishLate, Lookup, Serve,
       BeginBusiness, RefusedByDrain, CapabilityMissing, AcquireGlobal, AcquireSession,
       SessionExhausted, Answer, EndBusiness, FinishLast, Move
  <2>2. s \in draining /\ Inside(s) = {}
    BY <1>1, <1>2, <2>1 DEF FinishersFindItIdle
  <2> QED
    BY <1>1, <2>2, DrainingAdmitsNobody, DrainingGrows
<1>3. CASE at[r] # "finishing"
  <2>1. EndBusiness(r) /\ target[r] \in draining /\ inFlight[target[r]] = 1
    BY <1>1, <1>3 DEF TypeOK, Next, vars, Register, Disconnect, Handle, Drain, StartDrain,
       FinishIdle, ServeEnds, Unregister, DrainTimeout, FinishLate, Lookup, Serve,
       BeginBusiness, RefusedByDrain, CapabilityMissing, AcquireGlobal, AcquireSession,
       SessionExhausted, Answer, EndBusiness, FinishLast, Move
  <2>2. target[r] = s /\ s \in draining' /\ r \in Inside(s)
    BY <1>1, <2>1 DEF EndBusiness, TargetsAreSessions, Inside
  <2>3. Inside(s) = {r}
    BY <1>1, <2>1, <2>2, NobodyInside
  <2>4. Inside(s)' \subseteq Inside(s)
    BY <1>1, <2>1, <2>2, DrainingAdmitsNobody
  <2>5. r \notin Inside(s)'
    BY DEF Inside
  <2> QED
    BY <2>2, <2>3, <2>4, <2>5
<1> QED
  BY <1>2, <1>3

LEMMA DrainStep == DrainInv /\ [Next]_vars => DrainInv'
<1> SUFFICES ASSUME DrainInv, [Next]_vars PROVE DrainInv'
  OBVIOUS
<1>1. SlotInv'
  BY SlotStep DEF DrainInv
<1>2. DrainInOrder'
  BY OrderStep
<1>3. FinishersFindItIdle'
  <2> SUFFICES ASSUME NEW s \in Sessions,
                      \/ \E h \in Sessions : handler'[h] = "finishing" /\ previous'[h] = s
                      \/ \E r \in Requests : at'[r] = "finishing" /\ target'[r] = s
               PROVE  s \in draining' /\ Inside(s)' = {}
    BY DEF FinishersFindItIdle
  <2> QED
    BY HandlersFindItIdle, RequestsFindItIdle
<1> QED
  BY <1>1, <1>2, <1>3 DEF DrainInv

\* A session is finished only after it has begun to drain, and before the deadline only
\* when no request is in it: whoever is about to call finishDrain without having waited
\* (the handler of the session that replaces it, the last request out of it) finds it so
\* (startDrain, endBusiness).
THEOREM DrainCorrect == Spec => []DrainInv
BY DrainInit, DrainStep, PTL DEF Spec

-----------------------------------------------------------------------------
(* SessionDrain implements GracefulDrain.                                   *)

\* What a step of SessionDrain is in GracefulDrain.
LEMMA DrainSteps ==
    ASSUME DrainInv, [Next]_vars
    PROVE  [Graceful!Next]_Graceful!drainVars
<1> USE DEF registryVars, drainState, slotVars, requestVars
<1>1. /\ TypeOK /\ DrainInOrder /\ FinishersFindItIdle
      /\ PreviousAreSessions /\ TargetsAreSessions
  BY DEF DrainInv, SlotInv
<1>2. NoSession \notin Sessions
  BY SessionAssumption DEF NoSession, Sessions
<1> DEFINE phase(s) == IF s \in finished THEN "closed"
                       ELSE IF s \in draining THEN "draining" ELSE "accepting"
           task(r) == IF at[r] \in {"entered", "queued", "working", "leaving"}
                      THEN target[r] ELSE NoSession
           late == {s \in Sessions : timer[s] = "fired"}
           phases == [s \in Sessions |-> phase(s)]
           tasks == [r \in Requests |-> task(r)]
\* A request that neither enters nor leaves, and a session that only registers, loses
\* its connection or is served, are not seen.
<1>3. ASSUME UNCHANGED <<phases, late, tasks>>
      PROVE  UNCHANGED Graceful!drainVars
  BY <1>3 DEF Graceful!drainVars
<1>4. ASSUME UNCHANGED <<draining, finished, timer, at, target>>
      PROVE  UNCHANGED <<phases, late, tasks>>
  BY <1>4
<1>5. ASSUME NEW h \in Sessions,
             Register(h) \/ Disconnect(h) \/ ServeEnds(h) \/ Unregister(h)
      PROVE  UNCHANGED <<draining, finished, timer, at, target>>
  BY <1>5 DEF Register, Disconnect, ServeEnds, Unregister
\* finishDrain closes a session that drains, or does nothing.
<1>6. ASSUME NEW s \in Sessions, FinishDrain(s), UNCHANGED <<draining, tasks>>,
             s \in draining, Inside(s) = {} \/ timer[s] = "fired"
      PROVE  Graceful!Close(s) \/ UNCHANGED <<phases, late, tasks>>
  <2>1. CASE s \in finished
    <3>1. finished' = finished /\ timer' = timer
      BY <1>6, <2>1 DEF FinishDrain
    <3> QED
      BY <1>6, <3>1
  <2>2. CASE s \notin finished
    <3>1. phases[s] = "draining"
      BY <1>6, <2>2
    <3>2. Graceful!Busy(s) => s \in late
      <4>1. ASSUME NEW r \in Requests, tasks[r] = s PROVE r \in Inside(s)
        BY <1>2, <4>1 DEF Inside
      <4> QED
        BY <1>6, <4>1 DEF Graceful!Busy
    <3>3. phases' = [phases EXCEPT ![s] = "closed"]
      BY <1>6 DEF FinishDrain
    <3>4. late' = late
      BY <1>1, <1>6, <2>2 DEF FinishDrain, TypeOK
    <3> QED
      BY <1>6, <3>1, <3>2, <3>3, <3>4 DEF Graceful!Close
  <2> QED
    BY <2>1, <2>2
<1>7. ASSUME NEW h \in Sessions, FinishIdle(h)
      PROVE  [Graceful!Next]_Graceful!drainVars
  <2>1. previous[h] \in Sessions /\ previous[h] \in draining /\ Inside(previous[h]) = {}
    BY <1>1, <1>7 DEF FinishIdle, PreviousAreSessions, FinishersFindItIdle
  <2>2. FinishDrain(previous[h]) /\ UNCHANGED <<draining, tasks>>
    BY <1>7 DEF FinishIdle
  <2> QED
    BY <1>3, <1>6, <2>1, <2>2 DEF Graceful!Next
<1>8. ASSUME NEW s \in Sessions, FinishLate(s)
      PROVE  [Graceful!Next]_Graceful!drainVars
  <2>1. s \in draining /\ timer[s] = "fired"
    BY <1>1, <1>8 DEF FinishLate, DrainInOrder
  <2>2. FinishDrain(s) /\ UNCHANGED <<draining, tasks>>
    BY <1>8 DEF FinishLate
  <2> QED
    BY <1>3, <1>6, <2>1, <2>2 DEF Graceful!Next
<1>9. ASSUME NEW r \in Requests, FinishLast(r)
      PROVE  [Graceful!Next]_Graceful!drainVars
  <2>1. target[r] \in Sessions /\ target[r] \in draining /\ Inside(target[r]) = {}
    BY <1>1, <1>9 DEF FinishLast, TargetsAreSessions, FinishersFindItIdle
  <2>2. FinishDrain(target[r]) /\ UNCHANGED <<draining, tasks>>
    BY <1>1, <1>9 DEF FinishLast, Move, TypeOK
  <2> QED
    BY <1>3, <1>6, <2>1, <2>2 DEF Graceful!Next
\* startDrain is what replaces a session, the first time.
<1>10. ASSUME NEW h \in Sessions, StartDrain(h)
       PROVE  [Graceful!Next]_Graceful!drainVars
  <2> DEFINE s == previous[h]
  <2>1. s \in Sessions /\ UNCHANGED tasks /\ finished' = finished
    BY <1>1, <1>10 DEF StartDrain, PreviousAreSessions
  <2>2. late' = late
    BY <1>1, <1>10, <2>1 DEF StartDrain, TypeOK, DrainInOrder
  <2>3. CASE s \in draining
    BY <1>3, <1>10, <2>1, <2>2, <2>3 DEF StartDrain
  <2>4. CASE s \notin draining
    <3>1. phases[s] = "accepting"
      BY <1>1, <2>1, <2>4 DEF DrainInOrder
    <3>2. phases' = [phases EXCEPT ![s] = "draining"]
      BY <1>1, <1>10, <2>1, <2>4 DEF StartDrain, DrainInOrder
    <3> QED
      BY <2>1, <2>2, <3>1, <3>2 DEF Graceful!Replace, Graceful!Next
  <2> QED
    BY <2>3, <2>4
<1>11. ASSUME NEW s \in Sessions, DrainTimeout(s)
       PROVE  [Graceful!Next]_Graceful!drainVars
  <2>1. phases[s] = "draining"
    BY <1>1, <1>11 DEF DrainTimeout, DrainInOrder
  <2>2. late' = late \cup {s} /\ UNCHANGED <<phases, tasks>>
    BY <1>1, <1>11 DEF DrainTimeout, TypeOK
  <2> QED
    BY <2>1, <2>2 DEF Graceful!Expire, Graceful!Next
\* Requests.
<1>12. ASSUME NEW r \in Requests,
              \/ Lookup(r) \/ RefusedByDrain(r) \/ CapabilityMissing(r)
              \/ AcquireGlobal(r) \/ AcquireSession(r) \/ SessionExhausted(r)
              \/ Answer(r)
       PROVE  [Graceful!Next]_Graceful!drainVars
  <2>1. UNCHANGED <<draining, finished, timer>>
    BY <1>12 DEF Lookup, RefusedByDrain, CapabilityMissing, AcquireGlobal,
       AcquireSession, SessionExhausted, Answer
  <2>2. tasks' = tasks
    BY <1>1, <1>12 DEF TypeOK, Move, Lookup, RefusedByDrain, CapabilityMissing,
       AcquireGlobal, AcquireSession, SessionExhausted, Answer
  <2> QED
    BY <1>3, <2>1, <2>2
<1>13. ASSUME NEW r \in Requests, BeginBusiness(r)
       PROVE  [Graceful!Next]_Graceful!drainVars
  <2>1. /\ target[r] \in Sessions /\ phases[target[r]] = "accepting"
        /\ tasks[r] = NoSession
    BY <1>1, <1>13 DEF BeginBusiness, TargetsAreSessions, DrainInOrder
  <2>2. tasks' = [tasks EXCEPT ![r] = target[r]] /\ UNCHANGED <<phases, late>>
    BY <1>1, <1>13 DEF BeginBusiness, Move, TypeOK
  <2> QED
    BY <2>1, <2>2 DEF Graceful!Admit, Graceful!Next
<1>14. ASSUME NEW r \in Requests, EndBusiness(r)
       PROVE  [Graceful!Next]_Graceful!drainVars
  <2>1. tasks[r] # NoSession
    BY <1>1, <1>2, <1>14 DEF EndBusiness, TargetsAreSessions
  <2>2. tasks' = [tasks EXCEPT ![r] = NoSession] /\ UNCHANGED <<phases, late>>
    BY <1>1, <1>14 DEF EndBusiness, Move, TypeOK
  <2> QED
    BY <2>1, <2>2 DEF Graceful!End, Graceful!Next
<1>15. CASE UNCHANGED vars
  BY <1>3, <1>4, <1>15 DEF vars
<1>16. ASSUME NEW h \in Sessions,
              Register(h) \/ Disconnect(h) \/ ServeEnds(h) \/ Unregister(h)
       PROVE  [Graceful!Next]_Graceful!drainVars
  BY <1>3, <1>4, <1>5, <1>16
<1> HIDE DEF phase, task, late, phases, tasks
<1> QED
  BY <1>7, <1>8, <1>9, <1>10, <1>11, <1>12, <1>13, <1>14, <1>15, <1>16
     DEF Next, Handle, Drain, Serve

\* What the handlers, timers and requests do step by step is the graceful drain that the
\* protocol promises: a replaced session takes no further request, and is closed when its
\* last request has ended or its deadline has passed, not before (manager.go against
\* docs/architecture/agent-protocol-phase-2.md).
THEOREM DrainsGracefully == Spec => ImplementsGracefulDrain
<1>1. Init => Graceful!Init
  BY DEF Init, Graceful!Init
<1>2. DrainInv /\ [Next]_vars => [Graceful!Next]_Graceful!drainVars
  BY DrainSteps
<1> QED
  BY <1>1, <1>2, DrainCorrect, PTL DEF Spec, ImplementsGracefulDrain, Graceful!Spec

-----------------------------------------------------------------------------
(* MCSessions.  Its registry is an instance of ConnectionRegistry, with one *)
(* Agent and no subscribers, and what ConnectionRegistryProofs says of the  *)
(* registry with any constants cannot be cited of an instance: the types of *)
(* this one are proved here.                                                *)

LEMMA RegistryReasons ==
    /\ {"connection_closed", "connection_replaced", "server_shutdown"}
         \subseteq Registry!Reasons
    /\ {"agent_revoked", "credential_revoked", "scope_suspended"}
         \subseteq Registry!Reasons
    /\ Registry!ServeReasons \subseteq Registry!Reasons
BY DEF Registry!Reasons, Registry!ServeReasons, Registry!RevocationReasons

\* Closing a connection keeps its variables typed.
LEMMA RegistryCloses ==
    ASSUME Registry!CRTypeOK, NEW s \in Registry!Sessions, NEW why \in Registry!Reasons,
           Registry!CloseFor(s, why)
    PROVE  /\ {reason', cause'} \subseteq [Registry!Sessions -> Registry!Reasons]
           /\ registryOpen' \subseteq Registry!Sessions
BY DEF Registry!CRTypeOK, Registry!CloseFor, Registry!SetReason

\* Without subscribers an event goes nowhere.
LEMMA RegistryPublishes ==
    ASSUME Registry!CRTypeOK, NEW a, Registry!Publish(a)
    PROVE  UNCHANGED <<channel, reading, view, missed>>
BY DEF Registry!CRTypeOK, Registry!Publish

\* Remembering why the Agent has gone.
LEMMA RegistryRemembers ==
    ASSUME Registry!CRTypeOK, NEW why \in Registry!Reasons, NEW connected,
           Registry!RememberDisconnect("a", why, connected)
    PROVE  /\ remembered' \in [{"a"} -> Registry!Reasons \cup {"unknown"}]
           /\ order' \in Seq({"a"})
<1> DEFINE appended == IF remembered["a"] = "unknown" THEN Append(order, "a") ELSE order
           excess == IF Len(appended) > 1 THEN Len(appended) - 1 ELSE 0
<1>1. appended \in Seq({"a"})
  BY DEF Registry!CRTypeOK
<1>2. order' = SubSeq(appended, excess + 1, Len(appended))
  BY DEF Registry!RememberDisconnect
<1>3. remembered' \in [{"a"} -> Registry!Reasons \cup {"unknown"}]
  BY DEF Registry!CRTypeOK, Registry!RememberDisconnect
<1> HIDE DEF appended
<1>4. /\ Len(appended) \in Nat /\ excess \in Nat
      /\ \A i \in excess + 1 .. Len(appended) : appended[i] \in {"a"}
  BY <1>1
<1> QED
  BY <1>1, <1>2, <1>3, <1>4

LEMMA RegistryTypesInit == Registry!CRInit => Registry!CRTypeOK
<1>1. <<>> \in Seq({"a"})
  OBVIOUS
<1> QED
  BY <1>1, RegistryReasons DEF Registry!CRInit, Registry!CRTypeOK, Registry!Handling,
     Registry!Nothing

LEMMA RegistryTypesStep ==
    Registry!CRTypeOK /\ [Registry!CRNext]_(Registry!crVars) => Registry!CRTypeOK'
<1> SUFFICES ASSUME Registry!CRTypeOK, [Registry!CRNext]_(Registry!crVars)
             PROVE  Registry!CRTypeOK'
  OBVIOUS
<1> USE DEF Registry!crVars, Registry!sessionVars, Registry!registryVars,
        Registry!revocationVars, Registry!runVars, Registry!eventVars
<1>1. \A s \in Registry!Sessions : s # Registry!NoSession /\ <<"a", "a">>[s] = "a"
  BY DEF Registry!Sessions, Registry!NoSession
<1>2. ASSUME NEW s \in Registry!Sessions,
             \/ Registry!Accept(s) \/ Registry!RejectAtCapacity(s) \/ Registry!Activate(s)
             \/ Registry!HandshakeFails(s) \/ Registry!AgentLeaves(s)
      PROVE  Registry!CRTypeOK'
  BY <1>2 DEF Registry!CRTypeOK, Registry!Handling, Registry!Accept, Registry!Activate,
     Registry!RejectAtCapacity, Registry!HandshakeFails, Registry!AgentLeaves
<1>3. ASSUME NEW s \in Registry!Sessions, Registry!Register(s) PROVE Registry!CRTypeOK'
  <2>1. UNCHANGED <<channel, reading, view, missed>>
    BY <1>3, RegistryPublishes DEF Registry!Register
  <2>2. replaced' \subseteq Registry!Sessions
    BY <1>1, <1>3 DEF Registry!CRTypeOK, Registry!Register
  <2> QED
    BY <1>1, <1>3, <2>1, <2>2 DEF Registry!CRTypeOK, Registry!Handling, Registry!Register
<1>4. ASSUME NEW s \in Registry!Sessions, Registry!ServeEnds(s) PROVE Registry!CRTypeOK'
  <2>1. /\ {reason', cause'} \subseteq [Registry!Sessions -> Registry!Reasons]
        /\ registryOpen' \subseteq Registry!Sessions
    BY <1>4, RegistryCloses, RegistryReasons DEF Registry!ServeEnds, Registry!CRTypeOK
  <2> QED
    BY <1>4, <2>1 DEF Registry!CRTypeOK, Registry!Handling, Registry!ServeEnds
<1>5. ASSUME NEW s \in Registry!Sessions, Registry!Unregister(s) PROVE Registry!CRTypeOK'
  <2>1. <<"a", "a">>[s] = "a" /\ reason[s] \in Registry!Reasons
    BY <1>1 DEF Registry!CRTypeOK
  <2>2. /\ connections' \in [{"a"} -> Registry!Sessions \cup {Registry!NoSession}]
        /\ byCluster' \in [{"c"} -> Registry!Sessions \cup {Registry!NoSession}]
    BY <1>5 DEF Registry!CRTypeOK, Registry!Unregister
  <2>3. /\ remembered' \in [{"a"} -> Registry!Reasons \cup {"unknown"}]
        /\ order' \in Seq({"a"})
        /\ UNCHANGED <<channel, reading, view, missed>>
    BY <1>5, <2>1, RegistryRemembers, RegistryPublishes
       DEF Registry!Unregister, Registry!CRTypeOK
  <2>4. /\ {reason', cause'} \subseteq [Registry!Sessions -> Registry!Reasons]
        /\ registryHandler' \in [Registry!Sessions -> Registry!Handling]
        /\ UNCHANGED <<registryOpen, replaced, revoked, revoking, revocations, running, doomed>>
    BY <1>5, RegistryReasons DEF Registry!Unregister, Registry!CRTypeOK, Registry!Handling
  <2> QED
    BY <2>2, <2>3, <2>4 DEF Registry!CRTypeOK
<1>6. ASSUME NEW s \in Registry!Sessions,
             Registry!CloseReplaced(s) \/ Registry!CloseAtShutdown(s)
      PROVE  Registry!CRTypeOK'
  BY <1>6, RegistryCloses, RegistryReasons
     DEF Registry!CRTypeOK, Registry!CloseReplaced, Registry!CloseAtShutdown
<1>7. ASSUME NEW s \in Registry!Sessions, Registry!CloseRevoked(s) PROVE Registry!CRTypeOK'
  <2>1. /\ {reason', cause'} \subseteq [Registry!Sessions -> Registry!Reasons]
        /\ registryOpen' \subseteq Registry!Sessions
    BY <1>7, RegistryCloses DEF Registry!CloseRevoked, Registry!CRTypeOK
  <2> QED
    BY <1>7, <2>1, RegistryReasons
       DEF Registry!CRTypeOK, Registry!CloseRevoked, Registry!Nothing
<1>8. ASSUME NEW targets \in SUBSET Registry!Sessions, NEW why \in Registry!Reasons,
             Registry!HandleRevocation(targets, why), revoked' \subseteq {"a"}
      PROVE  Registry!CRTypeOK'
  BY <1>8 DEF Registry!HandleRevocation, Registry!CRTypeOK
<1>9. ASSUME NEW s \in Registry!Sessions, Registry!RevokeCredential(s)
      PROVE  Registry!CRTypeOK'
  BY <1>8, <1>9, RegistryReasons
     DEF Registry!RevokeCredential, Registry!CRTypeOK, Registry!Registered
<1>10. CASE Registry!AgentRevoked("a") \/ Registry!SuspendCluster("c")
  BY <1>8, <1>10, RegistryReasons DEF Registry!AgentRevoked, Registry!SuspendCluster,
     Registry!CRTypeOK, Registry!Registered
<1>11. CASE \/ Registry!StatusChange("a") \/ Registry!Shutdown \/ Registry!Stopped
            \/ UNCHANGED Registry!crVars
  BY <1>11, RegistryPublishes DEF Registry!StatusChange, Registry!Shutdown,
     Registry!Stopped, Registry!CRTypeOK, Registry!Registered
<1> QED
  BY <1>2, <1>3, <1>4, <1>5, <1>6, <1>7, <1>9, <1>10, <1>11
     DEF Registry!CRNext, Registry!HandlerStep, Registry!Closing

-----------------------------------------------------------------------------
(* The sessions together.                                                   *)

\* A step of the run is a step of each part, or leaves it as it is.
LEMMA StepOfEachPart ==
    [SessionsNext]_sessionsVars =>
        /\ [Next]_vars /\ [Registry!CRNext]_(Registry!crVars)
        /\ [PANext]_paVars /\ [PFNext]_pfVars
BY DEF SessionsNext, sessionsVars, DrainMoves, RegistryMoves, AccessMoves,
   PortForwardMoves, TurnsMove, handlersVars, Registry!crVars, Registry!sessionVars,
   Registry!registryVars, Registry!revocationVars, Registry!runVars, Registry!eventVars

LEMMA StartOfEachPart ==
    SessionsInit => Init /\ Registry!CRInit /\ PAInit /\ PFInit
BY DEF SessionsInit

\* Every variable of the four connections stays in its range, and the slots, the access
\* tables, the remembered endings and the counted bytes within their limits
\* (agentconn/manager.go, podaccess/service.go and agentprotocol/portforward.go).
THEOREM SessionsTypeCorrect == SessionsSpec => []SessionsTypeOK
<1>1. SessionsSpec => []TypeOK
  BY StartOfEachPart, StepOfEachPart, SlotsCorrect, PTL DEF SessionsSpec, Spec
<1>2. SessionsSpec => []Registry!CRTypeOK
  BY StartOfEachPart, StepOfEachPart, RegistryTypesInit, RegistryTypesStep, PTL
     DEF SessionsSpec
<1>3. SessionsSpec => []PATypeOK
  BY StartOfEachPart, StepOfEachPart, AccessSafe, PTL DEF SessionsSpec
<1>4. SessionsSpec => []PFTypeOK
  <2>1. PFInv => PFTypeOK
    BY DEF PFInv
  <2> QED
    BY <2>1, StartOfEachPart, StepOfEachPart, PFInvInit, PFInvStep, PTL DEF SessionsSpec
<1> QED
  BY <1>1, <1>2, <1>3, <1>4, PTL DEF SessionsTypeOK

\* What the run of MCSessions checks of the steps: whichever part moves, the slots
\* in use are those of the requests inside, an exit frame is the last word of a transfer,
\* a user's access to a Pod is the latest one, and the drain is a graceful one.
THEOREM SessionsCorrect ==
    SessionsSpec =>
        /\ [](SlotsAccounted /\ ExitEndsTransfer /\ OnlyLatestAccess)
        /\ ImplementsGracefulDrain
<1>1. SessionsSpec => []SlotsAccounted /\ ImplementsGracefulDrain
  BY StartOfEachPart, StepOfEachPart, SlotsCorrect, DrainsGracefully, PTL
     DEF SessionsSpec, Spec
<1>2. SessionsSpec => []ExitEndsTransfer
  <2>1. PFInv => ExitEndsTransfer
    BY DEF PFInv, ExitEndsTransfer, ExitIsLast, ExitsAreFinal, Final, CutOffOnce
  <2> QED
    BY <2>1, StartOfEachPart, StepOfEachPart, PFInvInit, PFInvStep, PTL DEF SessionsSpec
<1>3. SessionsSpec => []OnlyLatestAccess
  BY StartOfEachPart, StepOfEachPart, AccessSafe, PTL DEF SessionsSpec
<1> QED
  BY <1>1, <1>2, <1>3, PTL
=============================================================================
