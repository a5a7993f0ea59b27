---------------------------- MODULE SessionDrain ----------------------------
(***************************************************************************)
(* How the Server's requests share an Agent's connections                   *)
(* (pkg/server/agentconn/manager.go): a request looks up the session of its *)
(* Cluster, enters it, takes one slot of the whole Server and one of the    *)
(* session, works, and gives everything back, while the Agent's newer       *)
(* connections replace the older ones and drain them.                       *)
(*                                                                          *)
(* One Agent of one Cluster, whose entries in connections and               *)
(* connectionsByCluster change together: both are route.  The steps between *)
(* two mutex sections are separate actions.  RequestResource stands for     *)
(* every kind of request; all take the same path with slots of their own.   *)
(*                                                                          *)
(* Bounds: MaxSessions connections, numbered in the order they register,    *)
(* and each request is made once.                                           *)
(***************************************************************************)
EXTENDS Naturals, FiniteSets

CONSTANTS
    MaxSessions,  \* connections the Agent makes
    Requests,     \* requests made through the Server
    GlobalSlots,  \* MaxResourceRequests
    SessionSlots  \* MaxResourceStreams

ASSUME SessionAssumption == MaxSessions \in Nat
ASSUME SlotAssumption == GlobalSlots \in Nat /\ SessionSlots \in Nat
ASSUME RequestAssumption == IsFiniteSet(Requests)

Sessions == 1..MaxSessions
NoSession == 0

VARIABLES
    route,      \* connections[agent] and connectionsByCluster[cluster]
    handler,    \* where handleConnection is
    previous,   \* what register returned to it
    open,       \* sessions whose QUIC connection is open
    draining,   \* sessions with draining set
    inFlight,   \* businessInFlight
    timer,      \* drainTimer
    finished,   \* sessions whose drainOnce has run
    used,       \* manager.resourceAdmissions
    taken,      \* session.resourceAdmissions
    at,         \* where each request is
    target      \* the session it looked up

registryVars == <<route, handler, previous, open>>
drainState == <<draining, inFlight, timer, finished>>
slotVars == <<used, taken>>
requestVars == <<at, target>>
vars == <<registryVars, drainState, slotVars, requestVars>>

Handling == {"new", "replacing", "finishing", "serving", "returning", "done"}
Places == {"idle", "found", "entered", "queued", "working", "leaving",
           "finishing", "done"}

\* Requests between beginBusiness and endBusiness, and holding slots.
Inside(s) == {r \in Requests :
                target[r] = s /\ at[r] \in {"entered", "queued", "working", "leaving"}}
Holding == {r \in Requests : at[r] \in {"queued", "working"}}
Working(s) == {r \in Requests : target[r] = s /\ at[r] = "working"}

Init ==
    /\ route = NoSession
    /\ handler = [s \in Sessions |-> "new"]
    /\ previous = [s \in Sessions |-> NoSession]
    /\ open = {} /\ draining = {} /\ finished = {}
    /\ inFlight = [s \in Sessions |-> 0]
    /\ timer = [s \in Sessions |-> "none"]
    /\ used = 0 /\ taken = [s \in Sessions |-> 0]
    /\ at = [r \in Requests |-> "idle"]
    /\ target = [r \in Requests |-> NoSession]

-----------------------------------------------------------------------------
(* Draining.                                                                *)

\* finishDrain: once per session it stops the timer, says GoAway and closes.
\* A timer that has already fired is not stopped.
FinishDrain(s) ==
    /\ finished' = finished \cup {s}
    /\ timer' = IF s \notin finished /\ timer[s] = "armed"
                THEN [timer EXCEPT ![s] = "stopped"] ELSE timer
    /\ open' = IF s \notin finished THEN open \ {s} ELSE open

\* Faulty: a busy session is drained without a deadline.
StartDrainUntimed(h) ==
    /\ handler[h] = "replacing"
    /\ draining' = draining \cup {previous[h]}
    /\ handler' = [handler EXCEPT ![h] =
                     IF inFlight[previous[h]] = 0 THEN "finishing" ELSE "serving"]
    /\ UNCHANGED <<route, previous, open, inFlight, timer, finished, slotVars,
                   requestVars>>

\* startDrain under businessMu, by the handler of the session that replaces s.
\* handler: an idle session is finished right away, a busy one is given time.
StartDrain(h) ==
    LET s == previous[h] IN
    /\ handler[h] = "replacing"
    /\ draining' = draining \cup {s}
    /\ IF s \in draining
       THEN /\ handler' = [handler EXCEPT ![h] = "serving"]
            /\ UNCHANGED timer
       ELSE IF inFlight[s] = 0
       THEN /\ handler' = [handler EXCEPT ![h] = "finishing"]
            /\ UNCHANGED timer
       ELSE /\ handler' = [handler EXCEPT ![h] = "serving"]
            /\ timer' = [timer EXCEPT ![s] = "armed"]
    /\ UNCHANGED <<route, previous, open, inFlight, finished, slotVars,
                   requestVars>>

FinishIdle(h) ==
    /\ handler[h] = "finishing"
    /\ FinishDrain(previous[h])
    /\ handler' = [handler EXCEPT ![h] = "serving"]
    /\ UNCHANGED <<route, previous, draining, inFlight, slotVars,
                   requestVars>>

\* The drain timeout, and the call its goroutine makes.
DrainTimeout(s) ==
    /\ timer[s] = "armed"
    /\ timer' = [timer EXCEPT ![s] = "fired"]
    /\ UNCHANGED <<registryVars, draining, inFlight, finished, slotVars,
                   requestVars>>

FinishLate(s) ==
    /\ timer[s] = "fired" /\ s \notin finished
    /\ FinishDrain(s)
    /\ UNCHANGED <<route, handler, previous, draining, inFlight,
                   slotVars, requestVars>>

-----------------------------------------------------------------------------
(* Connections.                                                             *)

Register(s) ==
    /\ handler[s] = "new"
    /\ \A earlier \in 1..(s - 1) : handler[earlier] # "new"
    /\ route' = s
    /\ previous' = [previous EXCEPT ![s] = route]
    /\ handler' = [handler EXCEPT ![s] =
                     IF route = NoSession THEN "serving" ELSE "replacing"]
    /\ open' = open \cup {s}
    /\ UNCHANGED <<drainState, slotVars, requestVars>>

\* The connection goes away under its handler: the Agent left, a heartbeat was
\* refused or missing, a revocation closed it.
Disconnect(s) ==
    /\ s \in open
    /\ open' = open \ {s}
    /\ UNCHANGED <<route, handler, previous, drainState, slotVars,
                   requestVars>>

\* serveControl returns when it cannot read from the connection any more.
ServeEnds(s) ==
    /\ handler[s] = "serving" /\ s \notin open
    /\ handler' = [handler EXCEPT ![s] = "returning"]
    /\ UNCHANGED <<route, previous, open, drainState, slotVars,
                   requestVars>>

\* The deferred unregister leaves a newer session alone.
Unregister(s) ==
    /\ handler[s] = "returning"
    /\ route' = IF route = s THEN NoSession ELSE route
    /\ handler' = [handler EXCEPT ![s] = "done"]
    /\ UNCHANGED <<previous, open, drainState, slotVars, requestVars>>

-----------------------------------------------------------------------------
(* Requests.                                                                *)

Move(r, place) == at' = [at EXCEPT ![r] = place]

\* The lookup under the manager's mutex; none means ErrAgentNotConnected.
Lookup(r) ==
    /\ at[r] = "idle"
    /\ target' = [target EXCEPT ![r] = route]
    /\ Move(r, IF route = NoSession THEN "done" ELSE "found")
    /\ UNCHANGED <<registryVars, drainState, slotVars>>

\* Faulty: does not look at draining again.
BeginBusinessUnchecked(r) ==
    /\ at[r] = "found"
    /\ inFlight' = [inFlight EXCEPT ![target[r]] = @ + 1]
    /\ Move(r, "entered")
    /\ UNCHANGED <<registryVars, draining, timer, finished, slotVars, target>>

\* beginBusiness: a session found a moment ago may be draining by now.
BeginBusiness(r) ==
    /\ at[r] = "found"
    /\ target[r] \notin draining
    /\ inFlight' = [inFlight EXCEPT ![target[r]] = @ + 1]
    /\ Move(r, "entered")
    /\ UNCHANGED <<registryVars, draining, timer, finished, slotVars, target>>

RefusedByDrain(r) ==
    /\ at[r] = "found"
    /\ target[r] \in draining
    /\ Move(r, "done")
    /\ UNCHANGED <<registryVars, drainState, slotVars, target>>

\* The Agent did not offer what the request needs.
CapabilityMissing(r) ==
    /\ at[r] = "entered"
    /\ Move(r, "leaving")
    /\ UNCHANGED <<registryVars, drainState, slotVars, target>>

\* tryAcquire of the Server's slots, then of the session's; a refusal gives
\* back what was taken.
AcquireGlobal(r) ==
    /\ at[r] = "entered"
    /\ IF used < GlobalSlots
       THEN used' = used + 1 /\ Move(r, "queued")
       ELSE UNCHANGED used /\ Move(r, "leaving")
    /\ UNCHANGED <<registryVars, drainState, taken, target>>

AcquireSession(r) ==
    LET s == target[r] IN
    /\ at[r] = "queued"
    /\ taken[s] < SessionSlots
    /\ taken' = [taken EXCEPT ![s] = @ + 1]
    /\ Move(r, "working")
    /\ UNCHANGED <<registryVars, drainState, used, target>>

\* Faulty: gives back a slot of the session, which was not taken.
ExhaustedReturnsBoth(r) ==
    /\ at[r] = "queued"
    /\ taken[target[r]] >= SessionSlots
    /\ used' = used - 1
    /\ taken' = [taken EXCEPT ![target[r]] = @ - 1]
    /\ Move(r, "leaving")
    /\ UNCHANGED <<registryVars, drainState, target>>

\* Faulty: returns without the Server's slot.
ExhaustedLeaks(r) ==
    /\ at[r] = "queued"
    /\ taken[target[r]] >= SessionSlots
    /\ Move(r, "leaving")
    /\ UNCHANGED <<registryVars, drainState, slotVars, target>>

SessionExhausted(r) ==
    /\ at[r] = "queued"
    /\ taken[target[r]] >= SessionSlots
    /\ used' = used - 1
    /\ Move(r, "leaving")
    /\ UNCHANGED <<registryVars, drainState, taken, target>>

\* DoResource returns: an answer, a closed connection or the request timeout.
Answer(r) ==
    /\ at[r] = "working"
    /\ taken' = [taken EXCEPT ![target[r]] = @ - 1]
    /\ used' = used - 1
    /\ Move(r, "leaving")
    /\ UNCHANGED <<registryVars, drainState, target>>

\* endBusiness: the last request out of a draining session closes it.
EndBusiness(r) ==
    LET s == target[r] IN
    /\ at[r] = "leaving"
    /\ inFlight' = [inFlight EXCEPT ![s] = @ - 1]
    /\ Move(r, IF s \in draining /\ inFlight[s] = 1 THEN "finishing" ELSE "done")
    /\ UNCHANGED <<registryVars, draining, timer, finished, slotVars, target>>

FinishLast(r) ==
    /\ at[r] = "finishing"
    /\ FinishDrain(target[r])
    /\ Move(r, "done")
    /\ UNCHANGED <<route, handler, previous, draining, inFlight,
                   slotVars, target>>

-----------------------------------------------------------------------------
Handle(s) ==
    \/ StartDrain(s) \/ FinishIdle(s) \/ ServeEnds(s) \/ Unregister(s)

Drain(s) == DrainTimeout(s) \/ FinishLate(s)

Serve(r) ==
    \/ BeginBusiness(r) \/ RefusedByDrain(r) \/ CapabilityMissing(r)
    \/ AcquireGlobal(r)
    \/ AcquireSession(r) \/ SessionExhausted(r) \/ Answer(r)
    \/ EndBusiness(r) \/ FinishLast(r)

Next ==
    \/ \E s \in Sessions : Register(s) \/ Disconnect(s) \/ Handle(s) \/ Drain(s)
    \/ \E r \in Requests : Lookup(r) \/ Serve(r)

Spec == Init /\ [][Next]_vars

\* Handlers and timers run on; a request may take as long as it likes.
Fairness ==
    /\ \A s \in Sessions : WF_vars(Handle(s)) /\ WF_vars(Drain(s))
    /\ \A r \in Requests : WF_vars(FinishLast(r))

FairSpec == Spec /\ Fairness
-----------------------------------------------------------------------------
(* Properties.                                                              *)

\* Every variable stays in its range.
TypeOK ==
    /\ route \in Sessions \cup {NoSession}
    /\ handler \in [Sessions -> Handling]
    /\ previous \in [Sessions -> Sessions \cup {NoSession}]
    /\ open \subseteq Sessions
    /\ draining \subseteq Sessions
    /\ finished \subseteq Sessions
    /\ inFlight \in [Sessions -> Nat]
    /\ timer \in [Sessions -> {"none", "armed", "stopped", "fired"}]
    /\ used \in Nat
    /\ taken \in [Sessions -> Nat]
    /\ at \in [Requests -> Places]
    /\ target \in [Requests -> Sessions \cup {NoSession}]

\* The three counters are exactly the requests they count, whatever was refused
\* half way: no slot leaks, and none is given back twice.
SlotsAccounted ==
    /\ used = Cardinality(Holding)
    /\ \A s \in Sessions :
         /\ taken[s] = Cardinality(Working(s))
         /\ inFlight[s] = Cardinality(Inside(s))

\* A replaced session is closed in the end, even if a request never returns.
ReplacedIsClosed == \A s \in Sessions : s \in draining ~> s \notin open

\* The implementation of GracefulDrain.
Graceful == INSTANCE GracefulDrain WITH
    phase <- [s \in Sessions |->
                IF s \in finished THEN "closed"
                ELSE IF s \in draining THEN "draining" ELSE "accepting"],
    late <- {s \in Sessions : timer[s] = "fired"},
    task <- [r \in Requests |->
               IF at[r] \in {"entered", "queued", "working", "leaving"}
               THEN target[r] ELSE NoSession]

ImplementsGracefulDrain == Graceful!Spec
=============================================================================
