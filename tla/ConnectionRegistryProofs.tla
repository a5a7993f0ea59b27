---------------------- MODULE ConnectionRegistryProofs ----------------------
(***************************************************************************)
(* Proofs about ConnectionRegistry, for all connections, Agents, Clusters   *)
(* and subscribers, and every limit.                                        *)
(***************************************************************************)
EXTENDS ConnectionRegistry, TLAPS

-----------------------------------------------------------------------------
(* Typing.                                                                  *)

\* A session is a positive number, and has an Agent in a Cluster.
LEMMA SessionFacts ==
    /\ NoSession \notin Sessions
    /\ \A s \in Sessions : AgentOf[s] \in Agents /\ ClusterOf[AgentOf[s]] \in Clusters
BY RegistryAssumption DEF Sessions, NoSession

LEMMA ReasonsFacts ==
    /\ "connection_closed" \in Reasons /\ "connection_replaced" \in Reasons
    /\ "server_shutdown" \in Reasons
    /\ ServeReasons \subseteq Reasons /\ RevocationReasons \subseteq Reasons
    /\ {"agent_revoked", "credential_revoked", "scope_suspended"} \subseteq Reasons
BY DEF Reasons, ServeReasons, RevocationReasons

\* Closing a connection keeps its variables typed.
LEMMA CloseForType ==
    ASSUME CRTypeOK, NEW s \in Sessions, NEW why \in Reasons, CloseFor(s, why)
    PROVE  /\ reason' \in [Sessions -> Reasons] /\ cause' \in [Sessions -> Reasons]
           /\ open' \subseteq Sessions
BY DEF CRTypeOK, CloseFor, SetReason

\* So does publishing an event.
LEMMA PublishType ==
    ASSUME CRTypeOK, NEW a \in Agents, Publish(a)
    PROVE  /\ channel' \in [Subscribers -> Seq(Agents)]
           /\ missed' \in [Subscribers -> SUBSET Agents]
           /\ UNCHANGED <<reading, view>>
<1>1. \A q \in Seq(Agents) : Append(q, a) \in Seq(Agents)
  OBVIOUS
<1>2. channel' \in [Subscribers -> Seq(Agents)]
  BY <1>1 DEF CRTypeOK, Publish
<1>3. missed' \in [Subscribers -> SUBSET Agents]
  BY DEF CRTypeOK, Publish
<1> QED
  BY <1>2, <1>3 DEF Publish

\* And remembering why an Agent has gone.
LEMMA RememberType ==
    ASSUME CRTypeOK, NEW a \in Agents, NEW why \in Reasons, NEW connected,
           RememberDisconnect(a, why, connected)
    PROVE  /\ remembered' \in [Agents -> Reasons \cup {"unknown"}]
           /\ order' \in Seq(Agents)
<1> DEFINE appended == IF remembered[a] = "unknown" THEN Append(order, a) ELSE order
           excess == IF Len(appended) > MaxRemembered
                     THEN Len(appended) - MaxRemembered ELSE 0
<1>1. appended \in Seq(Agents)
  BY DEF CRTypeOK
<1> HIDE DEF appended
<1>2. Len(appended) \in Nat /\ excess \in Nat
  BY <1>1, RegistryAssumption
<1>3. SubSeq(appended, excess + 1, Len(appended)) \in Seq(Agents)
  <2>1. \A i \in excess + 1 .. Len(appended) : appended[i] \in Agents
    BY <1>1, <1>2
  <2> QED
    BY <1>1, <1>2, <2>1
<1>4. order' = SubSeq(appended, excess + 1, Len(appended))
  BY DEF RememberDisconnect, appended
<1>5. remembered' \in [Agents -> Reasons \cup {"unknown"}]
  BY DEF CRTypeOK, RememberDisconnect
<1> QED
  BY <1>3, <1>4, <1>5

LEMMA TypeInit == CRInit => CRTypeOK
<1> SUFFICES ASSUME CRInit PROVE CRTypeOK
  OBVIOUS
<1>1. Nothing \in [targets : SUBSET Sessions, why : Reasons]
  BY ReasonsFacts DEF Nothing
<1>2. 0 \in 0 .. MaxRevocations
  BY RegistryAssumption
<1>3. <<>> \in Seq(Agents)
  OBVIOUS
<1> QED
  BY <1>1, <1>2, <1>3, ReasonsFacts DEF CRInit, CRTypeOK, Handling

\* Every step keeps the variables typed.
LEMMA TypeStep == CRTypeOK /\ [CRNext]_crVars => CRTypeOK'
<1> SUFFICES ASSUME CRTypeOK, [CRNext]_crVars PROVE CRTypeOK'
  OBVIOUS
<1> USE DEF crVars, sessionVars, registryVars, revocationVars, runVars, eventVars
<1>1. ASSUME NEW s \in Sessions,
             \/ Accept(s) \/ RejectAtCapacity(s) \/ Activate(s) \/ HandshakeFails(s)
             \/ AgentLeaves(s)
      PROVE  CRTypeOK'
  BY <1>1 DEF CRTypeOK, Handling, Accept, RejectAtCapacity, Activate, HandshakeFails,
     AgentLeaves
<1>2. ASSUME NEW s \in Sessions, Register(s) PROVE CRTypeOK'
  <2>1. AgentOf[s] \in Agents /\ ClusterOf[AgentOf[s]] \in Clusters
    BY SessionFacts
  <2>2. /\ channel' \in [Subscribers -> Seq(Agents)]
        /\ missed' \in [Subscribers -> SUBSET Agents]
        /\ UNCHANGED <<reading, view>>
    BY <1>2, <2>1, PublishType DEF Register
  <2>3. replaced' \subseteq Sessions
    BY <1>2, <2>1 DEF CRTypeOK, Register
  <2> QED
    BY <1>2, <2>1, <2>2, <2>3 DEF CRTypeOK, Handling, Register
<1>3. ASSUME NEW s \in Sessions, ServeEnds(s) PROVE CRTypeOK'
  <2>1. /\ reason' \in [Sessions -> Reasons] /\ cause' \in [Sessions -> Reasons]
        /\ open' \subseteq Sessions
    <3>1. CASE \E why \in ServeReasons : CloseFor(s, why)
      BY <3>1, CloseForType, ReasonsFacts
    <3>2. CASE UNCHANGED <<open, reason, cause>>
      BY <3>2 DEF CRTypeOK
    <3> QED
      BY <1>3, <3>1, <3>2 DEF ServeEnds
  <2> QED
    BY <1>3, <2>1 DEF CRTypeOK, Handling, ServeEnds
<1>4. ASSUME NEW s \in Sessions, Unregister(s) PROVE CRTypeOK'
  <2> DEFINE a == AgentOf[s]
  <2>1. a \in Agents /\ ClusterOf[a] \in Clusters /\ reason[s] \in Reasons
    BY SessionFacts DEF CRTypeOK
  <2>2. /\ connections' \in [Agents -> Sessions \cup {NoSession}]
        /\ byCluster' \in [Clusters -> Sessions \cup {NoSession}]
    BY <1>4 DEF CRTypeOK, Unregister
  <2>3. /\ remembered' \in [Agents -> Reasons \cup {"unknown"}]
        /\ order' \in Seq(Agents)
        /\ channel' \in [Subscribers -> Seq(Agents)]
        /\ missed' \in [Subscribers -> SUBSET Agents]
        /\ UNCHANGED <<reading, view>>
    <3>1. CASE connections[a] = s
      BY <1>4, <2>1, <3>1, RememberType, PublishType DEF Unregister
    <3>2. CASE connections[a] # s
      BY <1>4, <3>2 DEF Unregister, CRTypeOK
    <3> QED
      BY <3>1, <3>2
  <2>4. reason' \in [Sessions -> Reasons] /\ cause' \in [Sessions -> Reasons]
    BY <1>4, ReasonsFacts DEF Unregister, CRTypeOK
  <2>5. handler' \in [Sessions -> Handling] /\ UNCHANGED <<open, replaced, revocationVars, runVars>>
    BY <1>4 DEF Unregister, CRTypeOK, Handling
  <2> QED
    BY <2>2, <2>3, <2>4, <2>5 DEF CRTypeOK
<1>5. ASSUME NEW s \in Sessions, CloseReplaced(s) \/ CloseAtShutdown(s) PROVE CRTypeOK'
  <2>1. /\ reason' \in [Sessions -> Reasons] /\ cause' \in [Sessions -> Reasons]
        /\ open' \subseteq Sessions
    BY <1>5, CloseForType, ReasonsFacts DEF CloseReplaced, CloseAtShutdown
  <2> QED
    BY <1>5, <2>1 DEF CRTypeOK, CloseReplaced, CloseAtShutdown
<1>6. ASSUME NEW s \in Sessions, CloseRevoked(s) PROVE CRTypeOK'
  <2>1. revoking.why \in Reasons /\ revoking.targets \in SUBSET Sessions
    BY DEF CRTypeOK
  <2>2. /\ reason' \in [Sessions -> Reasons] /\ cause' \in [Sessions -> Reasons]
        /\ open' \subseteq Sessions
    BY <1>6, <2>1, CloseForType DEF CloseRevoked
  <2>3. revoking' \in [targets : SUBSET Sessions, why : Reasons]
    BY <1>6, ReasonsFacts DEF CloseRevoked, Nothing, CRTypeOK
  <2> QED
    BY <1>6, <2>2, <2>3 DEF CRTypeOK, CloseRevoked
<1>7. ASSUME NEW targets \in SUBSET Sessions, NEW why \in Reasons,
             HandleRevocation(targets, why), revoked' \subseteq Agents
      PROVE  CRTypeOK'
  <2>1. revocations' \in 0 .. MaxRevocations
    BY <1>7, RegistryAssumption DEF HandleRevocation, CRTypeOK
  <2>2. revoking' \in [targets : SUBSET Sessions, why : Reasons]
    BY <1>7 DEF HandleRevocation
  <2> QED
    BY <1>7, <2>1, <2>2 DEF HandleRevocation, CRTypeOK
<1>8. ASSUME NEW s \in Sessions, RevokeCredential(s) PROVE CRTypeOK'
  BY <1>7, <1>8, ReasonsFacts DEF RevokeCredential, CRTypeOK, Registered
<1>9. ASSUME NEW a \in Agents, AgentRevoked(a) PROVE CRTypeOK'
  BY <1>7, <1>9, ReasonsFacts DEF AgentRevoked, CRTypeOK, Registered
<1>10. ASSUME NEW c \in Clusters, SuspendCluster(c) PROVE CRTypeOK'
  BY <1>7, <1>10, ReasonsFacts DEF SuspendCluster, CRTypeOK, Registered
<1>11. ASSUME NEW a \in Agents, StatusChange(a) PROVE CRTypeOK'
  BY <1>11, PublishType DEF StatusChange, CRTypeOK
<1>12. CASE Shutdown \/ Stopped
  BY <1>12 DEF Shutdown, Stopped, CRTypeOK, Registered
<1>13. ASSUME NEW u \in Subscribers, ReceiveEvent(u) PROVE CRTypeOK'
  <2>1. channel[u] \in Seq(Agents) /\ channel[u] # <<>>
    BY <1>13 DEF CRTypeOK, ReceiveEvent
  <2>2. Head(channel[u]) \in Agents /\ Tail(channel[u]) \in Seq(Agents)
    BY <2>1
  <2> QED
    BY <1>13, <2>2 DEF CRTypeOK, ReceiveEvent
<1>14. ASSUME NEW u \in Subscribers, ReadStatus(u) PROVE CRTypeOK'
  <2>1. reading[u] \in Agents
    BY <1>14 DEF CRTypeOK, ReadStatus
  <2>2. view' \in [Subscribers -> SUBSET Agents]
    BY <1>14, <2>1 DEF CRTypeOK, ReadStatus
  <2> QED
    BY <1>14, <2>2 DEF CRTypeOK, ReadStatus
<1>15. CASE UNCHANGED crVars
  BY <1>15 DEF CRTypeOK
<1> QED
  BY <1>1, <1>2, <1>3, <1>4, <1>5, <1>6, <1>8, <1>9, <1>10, <1>11, <1>12, <1>13,
     <1>14, <1>15 DEF CRNext, HandlerStep, Closing

\* The Manager of pkg/server/agentconn: sessions, maps, events and what is remembered
\* keep their types.
THEOREM RegistryTypeCorrect == CRSpec => []CRTypeOK
BY TypeInit, TypeStep, PTL DEF CRSpec

-----------------------------------------------------------------------------
(* The routes: RoutesAreRegistered is inductive with the types.             *)

\* The sentence of RoutesAreRegistered about each map, for a reader of the proof.
AgentRoutes ==
    \A a \in Agents : connections[a] # NoSession =>
      /\ AgentOf[connections[a]] = a
      /\ handler[connections[a]] \in {"serving", "returning"}

ClusterRoutes ==
    \A c \in Clusters : byCluster[c] # NoSession =>
      ClusterOf[AgentOf[byCluster[c]]] = c /\ byCluster[c] \in Registered

ServedAreFound ==
    \A s \in Sessions :
      handler[s] = "serving" /\ s \in open => s \in Registered \cup replaced

\* A step that leaves the maps alone, starts no serving, ends none outside the maps and
\* closes what it takes from those replaced, keeps the routes.
LEMMA RoutesKept ==
    ASSUME CRTypeOK, CRTypeOK', RoutesAreRegistered,
           UNCHANGED <<connections, byCluster>>,
           \A s \in Sessions : handler[s] \in {"serving", "returning"}
                                 => handler'[s] \in {"serving", "returning"},
           \A s \in Sessions : handler'[s] = "serving" => handler[s] = "serving",
           \A s \in Sessions : handler'[s] = "serving" /\ s \in open' => s \in open,
           \A s \in replaced : s \in replaced' \/ s \notin open'
    PROVE  RoutesAreRegistered'
<1>1. Registered' = Registered
  BY DEF Registered
<1>2. AgentRoutes'
  BY DEF AgentRoutes, RoutesAreRegistered, CRTypeOK
<1>3. ClusterRoutes'
  BY <1>1 DEF ClusterRoutes, RoutesAreRegistered
<1>4. ServedAreFound'
  BY <1>1 DEF ServedAreFound, RoutesAreRegistered
<1> QED
  BY <1>2, <1>3, <1>4 DEF AgentRoutes, ClusterRoutes, ServedAreFound, RoutesAreRegistered

\* A new session takes both maps over, and the one it takes them from is replaced.
LEMMA RegisterRoutes ==
    ASSUME CRTypeOK, CRTypeOK', RoutesAreRegistered, NEW s \in Sessions, Register(s)
    PROVE  RoutesAreRegistered'
<1> DEFINE a == AgentOf[s]
<1>1. a \in Agents /\ ClusterOf[a] \in Clusters /\ s # NoSession
  BY SessionFacts
<1>2. /\ connections' = [connections EXCEPT ![a] = s]
      /\ byCluster' = [byCluster EXCEPT ![ClusterOf[a]] = s]
      /\ handler' = [handler EXCEPT ![s] = "serving"]
      /\ replaced' = replaced \cup ({connections[a]} \ {NoSession})
      /\ handler[s] = "activated" /\ open' = open
  BY DEF Register
<1>3. \A t \in Sessions : t # s => handler'[t] = handler[t]
  BY <1>2 DEF CRTypeOK
<1>4. handler'[s] = "serving" /\ connections'[a] = s /\ s \in Registered'
  BY <1>1, <1>2 DEF CRTypeOK, Registered
<1>5. \A t \in Registered : AgentOf[t] # a => t \in Registered'
  BY <1>2, SessionFacts DEF CRTypeOK, Registered
<1>6. AgentRoutes'
  <2> SUFFICES ASSUME NEW b \in Agents, connections'[b] # NoSession
               PROVE  /\ AgentOf[connections'[b]] = b
                      /\ handler'[connections'[b]] \in {"serving", "returning"}
    BY DEF AgentRoutes
  <2>1. CASE b = a
    BY <2>1, <1>4
  <2>2. CASE b # a
    <3>1. connections'[b] = connections[b]
      BY <1>2, <2>2 DEF CRTypeOK
    <3>2. connections[b] \in Sessions
      BY <3>1 DEF CRTypeOK
    <3>3. /\ AgentOf[connections[b]] = b
          /\ handler[connections[b]] \in {"serving", "returning"}
      BY <3>1 DEF RoutesAreRegistered
    <3> QED
      BY <3>1, <3>2, <3>3, <1>2, <1>3
  <2> QED
    BY <2>1, <2>2
<1>7. ClusterRoutes'
  <2> SUFFICES ASSUME NEW c \in Clusters, byCluster'[c] # NoSession
               PROVE  ClusterOf[AgentOf[byCluster'[c]]] = c /\ byCluster'[c] \in Registered'
    BY DEF ClusterRoutes
  <2>1. CASE c = ClusterOf[a]
    BY <2>1, <1>1, <1>2, <1>4 DEF CRTypeOK
  <2>2. CASE c # ClusterOf[a]
    <3>1. byCluster'[c] = byCluster[c]
      BY <1>2, <2>2 DEF CRTypeOK
    <3>2. ClusterOf[AgentOf[byCluster[c]]] = c /\ byCluster[c] \in Registered
      BY <3>1 DEF RoutesAreRegistered
    <3> QED
      BY <3>1, <3>2, <2>2, <1>5
  <2> QED
    BY <2>1, <2>2
<1>8. ServedAreFound'
  <2> SUFFICES ASSUME NEW t \in Sessions, handler'[t] = "serving", t \in open'
               PROVE  t \in Registered' \/ t \in replaced'
    BY DEF ServedAreFound
  <2>1. CASE t = s
    BY <2>1, <1>4
  <2>2. CASE t # s
    <3>1. t \in Registered \/ t \in replaced
      BY <2>2, <1>2, <1>3 DEF RoutesAreRegistered
    <3>2. CASE t \in Registered /\ AgentOf[t] = a
      BY <3>2, <1>2, SessionFacts DEF Registered
    <3> QED
      BY <3>1, <3>2, <1>2, <1>5
  <2> QED
    BY <2>1, <2>2
<1> QED
  BY <1>6, <1>7, <1>8 DEF AgentRoutes, ClusterRoutes, ServedAreFound, RoutesAreRegistered

\* An old session takes itself out of the maps, and nobody else.
LEMMA UnregisterRoutes ==
    ASSUME CRTypeOK, CRTypeOK', RoutesAreRegistered, NEW s \in Sessions, Unregister(s)
    PROVE  RoutesAreRegistered'
<1> DEFINE a == AgentOf[s]
           c == ClusterOf[a]
<1>1. a \in Agents /\ c \in Clusters /\ s # NoSession
  BY SessionFacts
<1>2. /\ handler' = [handler EXCEPT ![s] = "done"]
      /\ handler[s] = "returning" /\ UNCHANGED <<open, replaced>>
  BY DEF Unregister
<1>3. \A t \in Sessions : t # s => handler'[t] = handler[t]
  BY <1>2 DEF CRTypeOK
<1>4. handler'[s] = "done"
  BY <1>2 DEF CRTypeOK
<1>5. connections' = IF connections[a] = s THEN [connections EXCEPT ![a] = NoSession]
                     ELSE connections
  BY DEF Unregister
<1>6. byCluster' = IF connections[a] = s /\ byCluster[c] = s
                   THEN [byCluster EXCEPT ![c] = NoSession] ELSE byCluster
  BY DEF Unregister
<1>7. \A b \in Agents : connections'[b] # NoSession
                          => connections'[b] = connections[b] /\ connections[b] # s
  <2> SUFFICES ASSUME NEW b \in Agents, connections'[b] # NoSession
               PROVE  connections'[b] = connections[b] /\ connections[b] # s
    OBVIOUS
  <2>1. connections[b] = s => b = a
    BY <1>1 DEF RoutesAreRegistered
  <2> QED
    BY <2>1, <1>1, <1>5 DEF CRTypeOK
<1>8. \A t \in Registered : t # s => t \in Registered'
  <2> SUFFICES ASSUME NEW t \in Registered, t # s PROVE t \in Registered'
    OBVIOUS
  <2>1. t \in Sessions /\ connections[AgentOf[t]] = t /\ AgentOf[t] \in Agents
    BY SessionFacts DEF Registered
  <2>2. connections'[AgentOf[t]] = t
    BY <2>1, <1>1, <1>5 DEF CRTypeOK
  <2> QED
    BY <2>1, <2>2 DEF Registered
<1>9. AgentRoutes'
  <2> SUFFICES ASSUME NEW b \in Agents, connections'[b] # NoSession
               PROVE  /\ AgentOf[connections'[b]] = b
                      /\ handler'[connections'[b]] \in {"serving", "returning"}
    BY DEF AgentRoutes
  <2>1. connections'[b] = connections[b] /\ connections[b] # s
    BY <1>7
  <2>2. connections[b] \in Sessions
    BY <2>1 DEF CRTypeOK
  <2>3. /\ AgentOf[connections[b]] = b
        /\ handler[connections[b]] \in {"serving", "returning"}
    BY <2>1 DEF RoutesAreRegistered
  <2> QED
    BY <2>1, <2>2, <2>3, <1>3
<1>10. ClusterRoutes'
  <2> SUFFICES ASSUME NEW d \in Clusters, byCluster'[d] # NoSession
               PROVE  ClusterOf[AgentOf[byCluster'[d]]] = d /\ byCluster'[d] \in Registered'
    BY DEF ClusterRoutes
  <2>1. byCluster'[d] = byCluster[d]
    BY <1>1, <1>6 DEF CRTypeOK
  <2>2. ClusterOf[AgentOf[byCluster[d]]] = d /\ byCluster[d] \in Registered
    BY <2>1 DEF RoutesAreRegistered
  <2>3. byCluster[d] # s
    <3> SUFFICES ASSUME byCluster[d] = s PROVE FALSE
      OBVIOUS
    <3>1. d = c /\ connections[a] = s
      BY <2>2 DEF Registered
    <3>2. byCluster'[c] = NoSession
      BY <3>1, <1>1, <1>6 DEF CRTypeOK
    <3> QED
      BY <3>1, <3>2
  <2> QED
    BY <2>1, <2>2, <2>3, <1>8
<1>11. ServedAreFound'
  BY <1>2, <1>3, <1>4, <1>8 DEF ServedAreFound, RoutesAreRegistered
<1> QED
  BY <1>9, <1>10, <1>11 DEF AgentRoutes, ClusterRoutes, ServedAreFound, RoutesAreRegistered

LEMMA RoutesInit == CRInit => RoutesAreRegistered
BY DEF CRInit, RoutesAreRegistered, Registered

\* Every step keeps the routes.
LEMMA RoutesStep ==
    CRTypeOK /\ CRTypeOK' /\ RoutesAreRegistered /\ [CRNext]_crVars => RoutesAreRegistered'
<1> SUFFICES ASSUME CRTypeOK, CRTypeOK', RoutesAreRegistered, [CRNext]_crVars
             PROVE  RoutesAreRegistered'
  OBVIOUS
<1> USE DEF crVars, sessionVars, registryVars, revocationVars, runVars, eventVars
<1>1. ASSUME NEW s \in Sessions, Accept(s) PROVE RoutesAreRegistered'
  BY <1>1, RoutesKept DEF Accept, CRTypeOK
<1>2. ASSUME NEW s \in Sessions, RejectAtCapacity(s) \/ Activate(s)
      PROVE  RoutesAreRegistered'
  BY <1>2, RoutesKept DEF RejectAtCapacity, Activate, CRTypeOK
<1>3. ASSUME NEW s \in Sessions, HandshakeFails(s) PROVE RoutesAreRegistered'
  BY <1>3, RoutesKept DEF HandshakeFails, CRTypeOK
<1>4. ASSUME NEW s \in Sessions, ServeEnds(s) PROVE RoutesAreRegistered'
  <2>1. /\ handler[s] = "serving" /\ handler' = [handler EXCEPT ![s] = "returning"]
        /\ UNCHANGED <<connections, byCluster, replaced>> /\ open' \subseteq open
    BY <1>4 DEF ServeEnds, CloseFor
  <2> QED
    BY <2>1, RoutesKept DEF CRTypeOK
<1>5. ASSUME NEW s \in Sessions,
             AgentLeaves(s) \/ CloseReplaced(s) \/ CloseRevoked(s) \/ CloseAtShutdown(s)
      PROVE  RoutesAreRegistered'
  <2>1. /\ UNCHANGED <<handler, connections, byCluster>> /\ open' = open \ {s}
        /\ replaced \ {s} \subseteq replaced'
    BY <1>5 DEF AgentLeaves, CloseReplaced, CloseRevoked, CloseAtShutdown, CloseFor
  <2> QED
    BY <2>1, RoutesKept
<1>6. CASE UNCHANGED <<handler, open, connections, byCluster, replaced>>
  BY <1>6, RoutesKept
<1>7. ASSUME NEW s \in Sessions, RevokeCredential(s) PROVE RoutesAreRegistered'
  BY <1>6, <1>7 DEF RevokeCredential, HandleRevocation
<1>8. ASSUME NEW a \in Agents, AgentRevoked(a) \/ StatusChange(a)
      PROVE  RoutesAreRegistered'
  BY <1>6, <1>8 DEF AgentRevoked, StatusChange, HandleRevocation
<1>9. ASSUME NEW c \in Clusters, SuspendCluster(c) PROVE RoutesAreRegistered'
  BY <1>6, <1>9 DEF SuspendCluster, HandleRevocation
<1>10. CASE Shutdown \/ Stopped
  BY <1>6, <1>10 DEF Shutdown, Stopped
<1>11. ASSUME NEW u \in Subscribers, ReceiveEvent(u) \/ ReadStatus(u)
       PROVE  RoutesAreRegistered'
  BY <1>6, <1>11 DEF ReceiveEvent, ReadStatus
<1>12. CASE UNCHANGED crVars
  BY <1>6, <1>12
<1> QED
  BY <1>1, <1>2, <1>3, <1>4, <1>5, <1>7, <1>8, <1>9, <1>10, <1>11, <1>12,
     RegisterRoutes, UnregisterRoutes DEF CRNext, HandlerStep, Closing

\* register and unregister: a session found through connections or connectionsByCluster
\* is the Agent's or the Cluster's own, and has its handler, whatever order handlers run
\* in; and one that is served is found there or is about to be closed for a newer one.
THEOREM RoutesCorrect == CRSpec => []RoutesAreRegistered
<1>1. CRInit => CRTypeOK /\ RoutesAreRegistered
  BY TypeInit, RoutesInit
<1>2. CRTypeOK /\ RoutesAreRegistered /\ [CRNext]_crVars => (CRTypeOK /\ RoutesAreRegistered)'
  BY TypeStep, RoutesStep
<1> QED
  BY <1>1, <1>2, PTL DEF CRSpec

-----------------------------------------------------------------------------
(* The reason of a disconnect.                                              *)

\* The connection of a handler that has not begun, or has left serveControl, is closed:
\* so what Unregister and a late CloseFor do to the reason comes after its cause.
ClosedWhenOver ==
    \A s \in Sessions : handler[s] \in {"new", "returning", "done"} => s \notin open

\* With this, ReasonNotWeaker is inductive.
ReasonInv == ReasonNotWeaker /\ ClosedWhenOver

\* Priorities are numbers; connection_closed is the weakest of all reasons.
LEMMA PriorityFacts ==
    \A why \in Reasons : Priority(why) \in Nat /\ Priority("connection_closed") <= Priority(why)
BY DEF Priority, Reasons, ServeReasons, RevocationReasons

\* A close sets the reason and, if it is the first, the cause, so that the reason is at
\* least as strong; and it leaves the connection closed.
LEMMA CloseForReason ==
    ASSUME CRTypeOK, CRTypeOK', ReasonInv, NEW s \in Sessions, NEW why \in Reasons,
           CloseFor(s, why)
    PROVE  ReasonNotWeaker' /\ open' = open \ {s}
<1>1. \A t \in Sessions : t # s => reason'[t] = reason[t] /\ cause'[t] = cause[t]
  BY DEF CloseFor, SetReason, CRTypeOK
<1>2. /\ Priority(reason[s]) \in Nat /\ Priority(cause[s]) \in Nat /\ Priority(why) \in Nat
      /\ Priority(reason[s]) >= Priority(cause[s])
  BY PriorityFacts DEF CRTypeOK, ReasonInv, ReasonNotWeaker
<1>3. Priority(reason'[s]) >= Priority(cause'[s])
  <2>1. CASE Priority(why) < Priority(reason[s]) \/ handler[s] = "done"
    <3>1. reason'[s] = reason[s]
      BY <2>1 DEF CloseFor, SetReason
    <3>2. cause'[s] = cause[s] \/ (cause'[s] = why /\ s \in open)
      BY DEF CloseFor, CRTypeOK
    <3>3. s \in open => Priority(why) < Priority(reason[s])
      BY <2>1 DEF ReasonInv, ClosedWhenOver
    <3> QED
      BY <3>1, <3>2, <3>3, <1>2
  <2>2. CASE ~(Priority(why) < Priority(reason[s]) \/ handler[s] = "done")
    <3>1. reason'[s] = why
      BY <2>2 DEF CloseFor, SetReason, CRTypeOK
    <3>2. cause'[s] = cause[s] \/ cause'[s] = why
      BY DEF CloseFor, CRTypeOK
    <3> QED
      BY <3>1, <3>2, <2>2, <1>2
  <2> QED
    BY <2>1, <2>2
<1> QED
  BY <1>1, <1>3 DEF ReasonNotWeaker, ReasonInv, CloseFor

LEMMA ReasonInit == CRInit => ReasonInv
<1> SUFFICES ASSUME CRInit PROVE ReasonInv
  OBVIOUS
<1>1. ClosedWhenOver
  BY DEF CRInit, ClosedWhenOver
<1>2. ReasonNotWeaker
  BY PriorityFacts, ReasonsFacts DEF CRInit, ReasonNotWeaker
<1> QED
  BY <1>1, <1>2 DEF ReasonInv

\* Every step keeps the reasons.
LEMMA ReasonStep == CRTypeOK /\ CRTypeOK' /\ ReasonInv /\ [CRNext]_crVars => ReasonInv'
<1> SUFFICES ASSUME CRTypeOK, CRTypeOK', ReasonInv, [CRNext]_crVars PROVE ReasonInv'
  OBVIOUS
<1> USE DEF crVars, sessionVars, registryVars, revocationVars, runVars, eventVars
<1>1. ASSUME UNCHANGED <<reason, cause>>, ClosedWhenOver' PROVE ReasonInv'
  BY <1>1 DEF ReasonInv, ReasonNotWeaker
<1>2. ASSUME NEW s \in Sessions,
             \/ Accept(s) \/ RejectAtCapacity(s) \/ Activate(s) \/ HandshakeFails(s)
             \/ Register(s) \/ AgentLeaves(s)
      PROVE  ReasonInv'
  <2>1. UNCHANGED <<reason, cause>>
    BY <1>2 DEF Accept, RejectAtCapacity, Activate, HandshakeFails, Register, AgentLeaves
  <2>2. ClosedWhenOver'
    BY <1>2 DEF ReasonInv, ClosedWhenOver, CRTypeOK, Accept, RejectAtCapacity, Activate,
       HandshakeFails, Register, AgentLeaves
  <2> QED
    BY <1>1, <2>1, <2>2
<1>3. ASSUME NEW s \in Sessions, ServeEnds(s) PROVE ReasonInv'
  <2>1. ReasonNotWeaker' /\ s \notin open' /\ open' \subseteq open
    <3>1. ASSUME NEW why \in ServeReasons, CloseFor(s, why)
          PROVE  ReasonNotWeaker' /\ s \notin open' /\ open' \subseteq open
      BY <3>1, CloseForReason, ReasonsFacts
    <3>2. CASE s \notin open /\ UNCHANGED <<open, reason, cause>>
      BY <3>2 DEF ReasonInv, ReasonNotWeaker
    <3> QED
      BY <1>3, <3>1, <3>2 DEF ServeEnds
  <2>2. ClosedWhenOver'
    BY <1>3, <2>1 DEF ReasonInv, ClosedWhenOver, ServeEnds, CRTypeOK
  <2> QED
    BY <2>1, <2>2 DEF ReasonInv
<1>4. ASSUME NEW s \in Sessions, Unregister(s) PROVE ReasonInv'
  <2>1. /\ handler' = [handler EXCEPT ![s] = "done"] /\ handler[s] = "returning"
        /\ reason' = [reason EXCEPT ![s] = "connection_closed"]
        /\ cause' = [cause EXCEPT ![s] = "connection_closed"]
        /\ open' = open
    BY <1>4 DEF Unregister
  <2>2. ClosedWhenOver'
    BY <2>1 DEF ReasonInv, ClosedWhenOver, CRTypeOK
  <2>3. ReasonNotWeaker'
    <3> SUFFICES ASSUME NEW t \in Sessions PROVE Priority(reason'[t]) >= Priority(cause'[t])
      BY DEF ReasonNotWeaker
    <3>1. CASE t = s
      BY <3>1, <2>1, PriorityFacts, ReasonsFacts DEF CRTypeOK
    <3>2. CASE t # s
      BY <3>2, <2>1 DEF ReasonInv, ReasonNotWeaker, CRTypeOK
    <3> QED
      BY <3>1, <3>2
  <2> QED
    BY <2>2, <2>3 DEF ReasonInv
<1>5. ASSUME NEW s \in Sessions, NEW why \in Reasons, CloseFor(s, why), handler' = handler
      PROVE  ReasonInv'
  <2>1. ReasonNotWeaker' /\ open' = open \ {s}
    BY <1>5, CloseForReason
  <2> QED
    BY <1>5, <2>1 DEF ReasonInv, ClosedWhenOver
<1>6. ASSUME NEW s \in Sessions, CloseReplaced(s) \/ CloseRevoked(s) \/ CloseAtShutdown(s)
      PROVE  ReasonInv'
  <2>1. revoking.why \in Reasons
    BY DEF CRTypeOK
  <2> QED
    BY <1>5, <1>6, <2>1, ReasonsFacts DEF CloseReplaced, CloseRevoked, CloseAtShutdown
<1>7. CASE UNCHANGED sessionVars
  BY <1>7 DEF ReasonInv, ReasonNotWeaker, ClosedWhenOver
<1>8. ASSUME NEW s \in Sessions, RevokeCredential(s) PROVE ReasonInv'
  BY <1>7, <1>8 DEF RevokeCredential, HandleRevocation
<1>9. ASSUME NEW a \in Agents, AgentRevoked(a) \/ StatusChange(a) PROVE ReasonInv'
  BY <1>7, <1>9 DEF AgentRevoked, StatusChange, HandleRevocation
<1>10. ASSUME NEW c \in Clusters, SuspendCluster(c) PROVE ReasonInv'
  BY <1>7, <1>10 DEF SuspendCluster, HandleRevocation
<1>11. CASE Shutdown \/ Stopped
  BY <1>7, <1>11 DEF Shutdown, Stopped
<1>12. ASSUME NEW u \in Subscribers, ReceiveEvent(u) \/ ReadStatus(u) PROVE ReasonInv'
  BY <1>7, <1>12 DEF ReceiveEvent, ReadStatus
<1>13. CASE UNCHANGED crVars
  BY <1>7, <1>13
<1> QED
  BY <1>2, <1>3, <1>4, <1>6, <1>8, <1>9, <1>10, <1>11, <1>12, <1>13
     DEF CRNext, HandlerStep, Closing

\* setDisconnectReason: whoever closes a connection, and in whatever order others set a
\* reason before or after it, the reason shown is at least as strong as that of the close.
THEOREM ReasonIsKept == CRSpec => []ReasonNotWeaker
<1>1. CRInit => CRTypeOK /\ ReasonInv
  BY TypeInit, ReasonInit
<1>2. CRTypeOK /\ ReasonInv /\ [CRNext]_crVars => (CRTypeOK /\ ReasonInv)'
  BY TypeStep, ReasonStep
<1>3. ReasonInv => ReasonNotWeaker
  BY DEF ReasonInv
<1> QED
  BY <1>1, <1>2, <1>3, PTL DEF CRSpec

-----------------------------------------------------------------------------
(* Console subscribers: EventsConverge is inductive with the types.         *)

\* Subscriber u will not hear of Agent a any more: no event of it is in the channel, being
\* read or lost.
Settled(u, a) ==
    /\ a \notin missed[u] /\ reading[u] # a
    /\ \A i \in 1..Len(channel[u]) : channel[u][i] # a

\* An event for Agent b leaves no subscriber settled about b, and settles nobody.
LEMMA PublishSettles ==
    ASSUME CRTypeOK, NEW b \in Agents, Publish(b)
    PROVE  \A u \in Subscribers, a \in Agents :
             Settled(u, a)' => a # b /\ Settled(u, a)
<1> SUFFICES ASSUME NEW u \in Subscribers, NEW a \in Agents, Settled(u, a)'
             PROVE  a # b /\ Settled(u, a)
  OBVIOUS
<1>1. channel[u] \in Seq(Agents)
  BY DEF CRTypeOK
<1>2. reading'[u] = reading[u]
  BY DEF Publish
<1>3. a \notin missed'[u] /\ reading'[u] # a /\ \A i \in 1..Len(channel'[u]) : channel'[u][i] # a
  BY DEF Settled
<1>4. CASE Len(channel[u]) < ChannelSize
  <2>1. channel'[u] = Append(channel[u], b) /\ missed'[u] = missed[u] \ {b}
    BY <1>4 DEF Publish
  <2>2. /\ Len(channel'[u]) = Len(channel[u]) + 1
        /\ channel'[u][Len(channel[u]) + 1] = b
        /\ \A i \in 1..Len(channel[u]) : channel'[u][i] = channel[u][i]
    BY <1>1, <2>1
  <2>3. Len(channel[u]) \in Nat
    BY <1>1
  <2>4. a # b
    BY <1>3, <2>2, <2>3
  <2> QED
    BY <1>2, <1>3, <2>1, <2>2, <2>3, <2>4 DEF Settled
<1>5. CASE ~(Len(channel[u]) < ChannelSize)
  <2>1. channel'[u] = channel[u] /\ missed'[u] = missed[u] \cup {b}
    BY <1>5 DEF Publish
  <2> QED
    BY <1>2, <1>3, <2>1 DEF Settled
<1> QED
  BY <1>4, <1>5

LEMMA EventsInit == CRInit => EventsConverge
BY DEF CRInit, EventsConverge

\* A step that changes the registry for Agent b at most, and publishes it, keeps what
\* subscribers show.
LEMMA PublishedChange ==
    ASSUME CRTypeOK, EventsConverge, NEW b \in Agents, Publish(b),
           \A a \in Agents : a # b => connections'[a] = connections[a]
    PROVE  EventsConverge'
<1> SUFFICES ASSUME NEW u \in Subscribers, NEW a \in Agents, Settled(u, a)'
             PROVE  a \in view'[u] <=> connections'[a] # NoSession
  BY DEF EventsConverge, Settled
<1>1. a # b /\ Settled(u, a)
  BY PublishSettles
<1>2. a \in view[u] <=> connections[a] # NoSession
  BY <1>1 DEF EventsConverge, Settled
<1> QED
  BY <1>1, <1>2 DEF Publish

\* Receiving an event begins the reading of a status.
LEMMA ReceiveConverges ==
    ASSUME CRTypeOK, EventsConverge, NEW v \in Subscribers, ReceiveEvent(v)
    PROVE  EventsConverge'
<1> SUFFICES ASSUME NEW u \in Subscribers, NEW a \in Agents, Settled(u, a)'
             PROVE  a \in view'[u] <=> connections'[a] # NoSession
  BY DEF EventsConverge, Settled
<1>1. Settled(u, a)
  <2>1. missed' = missed /\ a \notin missed'[u] /\ reading'[u] # a
    BY DEF Settled, ReceiveEvent, registryVars
  <2>2. \A i \in 1..Len(channel'[u]) : channel'[u][i] # a
    BY DEF Settled
  <2>3. CASE u = v
    <3>1. /\ channel[u] \in Seq(Agents) /\ channel[u] # <<>> /\ reading[u] = NoAgent
          /\ channel'[u] = Tail(channel[u]) /\ reading'[u] = Head(channel[u])
      BY <2>3 DEF CRTypeOK, ReceiveEvent
    <3>2. channel[u][1] # a
      BY <2>1, <3>1
    <3>3. \A i \in 1..Len(channel[u]) : i = 1 \/ channel[u][i] # a
      <4> SUFFICES ASSUME NEW i \in 1..Len(channel[u]), i # 1 PROVE channel[u][i] # a
        OBVIOUS
      <4>1. i - 1 \in 1..Len(channel'[u]) /\ channel'[u][i - 1] = channel[u][i]
        BY <3>1
      <4> QED
        BY <2>2, <4>1
    <3>4. reading[u] # a
      BY <3>1, NoAgentAssumption
    <3> QED
      BY <2>1, <3>2, <3>3, <3>4 DEF Settled
  <2>4. CASE u # v
    BY <2>1, <2>2, <2>4 DEF Settled, ReceiveEvent, CRTypeOK
  <2> QED
    BY <2>3, <2>4
<1>2. a \in view[u] <=> connections[a] # NoSession
  BY <1>1 DEF EventsConverge, Settled
<1> QED
  BY <1>2 DEF ReceiveEvent, registryVars

\* Reading it shows the Agent as the registry has it now, not as the event found it.
LEMMA ReadConverges ==
    ASSUME CRTypeOK, EventsConverge, NEW v \in Subscribers, ReadStatus(v)
    PROVE  EventsConverge'
<1> SUFFICES ASSUME NEW u \in Subscribers, NEW a \in Agents, Settled(u, a)'
             PROVE  a \in view'[u] <=> connections'[a] # NoSession
  BY DEF EventsConverge, Settled
<1>1. connections' = connections /\ channel' = channel /\ missed' = missed
  BY DEF ReadStatus, registryVars
<1>2. CASE u = v /\ reading[u] = a
  BY <1>1, <1>2 DEF ReadStatus, CRTypeOK
<1>3. CASE ~(u = v /\ reading[u] = a)
  <2>1. Settled(u, a)
    BY <1>1, <1>3 DEF Settled, ReadStatus, CRTypeOK
  <2>2. a \in view[u] <=> connections[a] # NoSession
    BY <2>1 DEF EventsConverge, Settled
  <2>3. a \in view'[u] <=> a \in view[u]
    BY <1>3 DEF ReadStatus, CRTypeOK
  <2> QED
    BY <1>1, <2>2, <2>3
<1> QED
  BY <1>2, <1>3

\* Every step keeps what settled subscribers show.
LEMMA EventsStep == CRTypeOK /\ EventsConverge /\ [CRNext]_crVars => EventsConverge'
<1> SUFFICES ASSUME CRTypeOK, EventsConverge, [CRNext]_crVars PROVE EventsConverge'
  OBVIOUS
<1> USE DEF crVars, registryVars, eventVars
<1>1. CASE UNCHANGED <<connections, eventVars>>
  BY <1>1 DEF EventsConverge
<1>2. ASSUME NEW s \in Sessions,
             \/ Accept(s) \/ RejectAtCapacity(s) \/ Activate(s) \/ HandshakeFails(s)
             \/ ServeEnds(s) \/ AgentLeaves(s)
      PROVE  EventsConverge'
  BY <1>1, <1>2 DEF Accept, RejectAtCapacity, Activate, HandshakeFails, ServeEnds, AgentLeaves
<1>3. ASSUME NEW s \in Sessions, CloseReplaced(s) \/ CloseRevoked(s) \/ CloseAtShutdown(s)
      PROVE  EventsConverge'
  BY <1>1, <1>3 DEF CloseReplaced, CloseRevoked, CloseAtShutdown
<1>4. ASSUME NEW s \in Sessions, Register(s) PROVE EventsConverge'
  <2>1. AgentOf[s] \in Agents /\ Publish(AgentOf[s])
    BY <1>4, SessionFacts DEF Register
  <2>2. \A a \in Agents : a # AgentOf[s] => connections'[a] = connections[a]
    BY <1>4 DEF Register, CRTypeOK
  <2> QED
    BY <2>1, <2>2, PublishedChange
<1>5. ASSUME NEW s \in Sessions, Unregister(s) PROVE EventsConverge'
  <2>1. CASE connections[AgentOf[s]] = s
    <3>1. AgentOf[s] \in Agents /\ Publish(AgentOf[s])
      BY <1>5, <2>1, SessionFacts DEF Unregister
    <3>2. \A a \in Agents : a # AgentOf[s] => connections'[a] = connections[a]
      BY <1>5, <2>1 DEF Unregister, CRTypeOK
    <3> QED
      BY <3>1, <3>2, PublishedChange
  <2>2. CASE connections[AgentOf[s]] # s
    BY <1>1, <1>5, <2>2 DEF Unregister
  <2> QED
    BY <2>1, <2>2
<1>6. ASSUME NEW a \in Agents, StatusChange(a) PROVE EventsConverge'
  BY <1>6, PublishedChange DEF StatusChange
<1>7. ASSUME NEW s \in Sessions, RevokeCredential(s) PROVE EventsConverge'
  BY <1>1, <1>7 DEF RevokeCredential, HandleRevocation
<1>8. ASSUME NEW a \in Agents, AgentRevoked(a) PROVE EventsConverge'
  BY <1>1, <1>8 DEF AgentRevoked, HandleRevocation
<1>9. ASSUME NEW c \in Clusters, SuspendCluster(c) PROVE EventsConverge'
  BY <1>1, <1>9 DEF SuspendCluster, HandleRevocation
<1>10. CASE Shutdown \/ Stopped
  BY <1>1, <1>10 DEF Shutdown, Stopped
<1>11. CASE UNCHANGED crVars
  BY <1>1, <1>11
<1> QED
  BY <1>2, <1>3, <1>4, <1>5, <1>6, <1>7, <1>8, <1>9, <1>10, <1>11, ReceiveConverges,
     ReadConverges DEF CRNext, HandlerStep, Closing

\* publishIdentityLocked and the Console's event handler: a subscriber that has handled
\* its events, and lost none of the last ones, shows what the registry says, although it
\* reads the status some time after it received the event.
THEOREM EventsCorrect == CRSpec => []EventsConverge
<1>1. CRInit => CRTypeOK /\ EventsConverge
  BY TypeInit, EventsInit
<1>2. CRTypeOK /\ EventsConverge /\ [CRNext]_crVars => (CRTypeOK /\ EventsConverge)'
  BY TypeStep, EventsStep
<1> QED
  BY <1>1, <1>2, PTL DEF CRSpec
=============================================================================
