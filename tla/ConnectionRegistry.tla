------------------------- MODULE ConnectionRegistry -------------------------
(***************************************************************************)
(* The Server's registry of Agent connections (Manager of                   *)
(* pkg/server/agentconn/manager.go): one handler per QUIC connection, the   *)
(* maps from Agents and Clusters to sessions, the remembered reasons of     *)
(* past disconnects, the event channel of a Console subscriber, revocation  *)
(* events and shutdown.                                                     *)
(*                                                                          *)
(* handleRevocation and closeAll collect sessions under the manager's mutex *)
(* and close them one by one after letting it go; so they are a step that   *)
(* collects and a step per session.  When a replaced session is closed is   *)
(* the business of SessionDrain; here it may be closed at any time.         *)
(*                                                                          *)
(* A session whose handler has returned is garbage, and what is written to  *)
(* it then is not kept.                                                     *)
(*                                                                          *)
(* Bounds: MaxSessions connections, numbered in the order they are dialled, *)
(* at most MaxRevocations revocation events, and fixed subscribers.         *)
(***************************************************************************)
EXTENDS Naturals, FiniteSets, Sequences

CONSTANTS
    MaxSessions, Agents, Clusters,
    AgentOf,         \* the Agent that makes each session
    ClusterOf,       \* the Cluster of each Agent
    MaxConcurrentAgents,  \* max_concurrent_agents: handlers at a time
    MaxRemembered,   \* max_remembered_disconnects
    Subscribers,     \* Console event streams
    ChannelSize,     \* events a subscriber can lag behind
    MaxRevocations

ASSUME RegistryAssumption ==
    /\ MaxSessions \in Nat
    /\ AgentOf \in [1..MaxSessions -> Agents]
    /\ ClusterOf \in [Agents -> Clusters]
    /\ MaxConcurrentAgents \in Nat /\ MaxRemembered \in Nat \ {0}
    /\ ChannelSize \in Nat /\ MaxRevocations \in Nat

Sessions == 1..MaxSessions
NoSession == 0

VARIABLES
    handler,      \* where handleConnection is
    open,         \* sessions whose QUIC connection is open
    reason,       \* session.disconnectReason
    cause,        \* history: the reason given by whoever closed it first
    connections,  \* Agent to session
    byCluster,    \* connectionsByCluster
    replaced,     \* sessions waiting to be closed because of a newer one
    remembered,   \* lastDisconnected: the reason, or "unknown"
    order,        \* disconnectOrder
    revoked,      \* Agents revoked in the database
    revoking,     \* what handleRevocation has still to close, and why
    revocations,  \* revocation events so far
    lifecycle,    \* of Run
    doomed,       \* what closeAll has still to close
    channel,      \* events a subscriber has not received
    reading,      \* the Agent whose status a subscriber is reading
    view,         \* Agents a subscriber has read as online
    missed        \* history: Agents whose last event was dropped for it

sessionVars == <<handler, open, reason, cause>>
registryVars == <<connections, byCluster, replaced, remembered, order>>
revocationVars == <<revoked, revoking, revocations>>
runVars == <<lifecycle, doomed>>
eventVars == <<channel, reading, view, missed>>
crVars == <<sessionVars, registryVars, revocationVars, runVars, eventVars>>

Handling == {"new", "handshake", "activated", "serving", "returning", "done"}

\* disconnectReasonPriority.
Priority(why) ==
    CASE why = "agent_revoked" -> 4
      [] why \in {"credential_revoked", "credential_rejected",
                  "scope_suspended", "certificate_expired"} -> 3
      [] why \in {"connection_replaced", "server_shutdown", "client_goodbye"} -> 2
      [] OTHER -> 1

\* How serveControl may end a session.
\* (one reason of each priority).
ServeReasons == {"heartbeat_timeout", "client_goodbye", "credential_rejected"}
RevocationReasons == {"agent_revoked", "credential_revoked", "scope_suspended"}
Reasons == {"connection_closed", "connection_replaced", "server_shutdown"}
             \cup ServeReasons \cup RevocationReasons

NoAgent == "none"
ASSUME NoAgentAssumption == NoAgent \notin Agents

Nothing == [targets |-> {}, why |-> "connection_closed"]
Handlers == {s \in Sessions : handler[s] \notin {"new", "done"}}
Registered == {s \in Sessions : connections[AgentOf[s]] = s}

CRInit ==
    /\ handler = [s \in Sessions |-> "new"]
    /\ open = {}
    /\ reason = [s \in Sessions |-> "connection_closed"]
    /\ cause = [s \in Sessions |-> "connection_closed"]
    /\ connections = [a \in Agents |-> NoSession]
    /\ byCluster = [c \in Clusters |-> NoSession]
    /\ replaced = {}
    /\ remembered = [a \in Agents |-> "unknown"] /\ order = <<>>
    /\ revoked = {} /\ revoking = Nothing /\ revocations = 0
    /\ lifecycle = "running" /\ doomed = {}
    /\ channel = [u \in Subscribers |-> <<>>]
    /\ reading = [u \in Subscribers |-> NoAgent]
    /\ view = [u \in Subscribers |-> {}] /\ missed = [u \in Subscribers |-> {}]

-----------------------------------------------------------------------------
(* Events.                                                                  *)

\* publishIdentityLocked: a full channel loses the event.
Publish(a) ==
    /\ channel' = [u \in Subscribers |->
                     IF Len(channel[u]) < ChannelSize
                     THEN Append(channel[u], a) ELSE channel[u]]
    /\ missed' = [u \in Subscribers |->
                     IF Len(channel[u]) < ChannelSize
                     THEN missed[u] \ {a} ELSE missed[u] \cup {a}]
    /\ UNCHANGED <<reading, view>>

\* PublishAgentStatusChange, after an administrator changed the Agent.
StatusChange(a) ==
    /\ Publish(a)
    /\ UNCHANGED <<sessionVars, registryVars, revocationVars, runVars>>

\* The Console's event handler receives an event and reads the status anew.
ReceiveEvent(u) ==
    /\ reading[u] = NoAgent /\ channel[u] # <<>>
    /\ reading' = [reading EXCEPT ![u] = Head(channel[u])]
    /\ channel' = [channel EXCEPT ![u] = Tail(@)]
    /\ UNCHANGED <<view, missed, sessionVars, registryVars, revocationVars,
                   runVars>>

ReadStatus(u) ==
    LET a == reading[u] IN
    /\ a # NoAgent
    /\ view' = [view EXCEPT ![u] = IF connections[a] # NoSession
                                   THEN @ \cup {a} ELSE @ \ {a}]
    /\ reading' = [reading EXCEPT ![u] = NoAgent]
    /\ UNCHANGED <<channel, missed, sessionVars, registryVars, revocationVars,
                   runVars>>

-----------------------------------------------------------------------------
(* Closing.                                                                 *)

\* Faulty: the last reason wins.
SetReasonAlways(s, why) ==
    reason' = IF handler[s] = "done" THEN reason ELSE [reason EXCEPT ![s] = why]

\* setDisconnectReason: a weaker reason does not replace a stronger one.
SetReason(s, why) ==
    reason' = IF \/ Priority(why) < Priority(reason[s]) \/ handler[s] = "done"
              THEN reason ELSE [reason EXCEPT ![s] = why]

\* The reason is set before the connection is closed; closing twice has no
\* effect.
CloseFor(s, why) ==
    /\ SetReason(s, why)
    /\ open' = open \ {s}
    /\ cause' = IF s \in open THEN [cause EXCEPT ![s] = why] ELSE cause

\* The Agent closes the connection or disappears.
AgentLeaves(s) ==
    /\ s \in open
    /\ open' = open \ {s}
    /\ UNCHANGED <<handler, reason, cause, registryVars, revocationVars,
                   runVars, eventVars>>

\* The drain of a replaced session ends.
CloseReplaced(s) ==
    /\ s \in replaced
    /\ CloseFor(s, "connection_replaced")
    /\ replaced' = replaced \ {s}
    /\ UNCHANGED <<handler, connections, byCluster, remembered, order,
                   revocationVars, runVars, eventVars>>

-----------------------------------------------------------------------------
(* handleConnection.                                                        *)

\* A connection takes one of the admissions, or is rejected.
Accept(s) ==
    /\ lifecycle = "running" /\ handler[s] = "new"
    /\ \A earlier \in 1..(s - 1) : handler[earlier] # "new"
    /\ Cardinality(Handlers) < MaxConcurrentAgents
    /\ handler' = [handler EXCEPT ![s] = "handshake"]
    /\ open' = open \cup {s}
    /\ UNCHANGED <<reason, cause, registryVars, revocationVars, runVars,
                   eventVars>>

RejectAtCapacity(s) ==
    /\ lifecycle = "running" /\ handler[s] = "new"
    /\ \A earlier \in 1..(s - 1) : handler[earlier] # "new"
    /\ Cardinality(Handlers) >= MaxConcurrentAgents
    /\ handler' = [handler EXCEPT ![s] = "done"]
    /\ UNCHANGED <<open, reason, cause, registryVars, revocationVars, runVars,
                   eventVars>>

\* Activate succeeds for an Agent that is not revoked; a Cluster has at most
\* one such Agent, so its former Agents are revoked by then.
Activate(s) ==
    /\ handler[s] = "handshake" /\ lifecycle = "running"
    /\ AgentOf[s] \notin revoked
    /\ \A t \in Sessions :
         /\ ClusterOf[AgentOf[t]] = ClusterOf[AgentOf[s]]
         /\ handler[t] \in {"activated", "serving", "returning"}
         => AgentOf[t] = AgentOf[s] \/ AgentOf[t] \in revoked
    /\ handler' = [handler EXCEPT ![s] = "activated"]
    /\ UNCHANGED <<open, reason, cause, registryVars, revocationVars, runVars,
                   eventVars>>

\* Faulty: no deadline; only the Agent's leaving ends a handshake.
HandshakeFailsOnClose(s) ==
    /\ handler[s] = "handshake" /\ s \notin open
    /\ handler' = [handler EXCEPT ![s] = "done"]
    /\ UNCHANGED <<open, reason, cause, registryVars, revocationVars, runVars,
                   eventVars>>

\* A missing or bad hello, or any error of Activate.
HandshakeFails(s) ==
    /\ handler[s] = "handshake"
    /\ handler' = [handler EXCEPT ![s] = "done"]
    /\ open' = open \ {s}
    /\ UNCHANGED <<reason, cause, registryVars, revocationVars, runVars,
                   eventVars>>

Register(s) ==
    LET a == AgentOf[s] IN
    /\ handler[s] = "activated"
    /\ handler' = [handler EXCEPT ![s] = "serving"]
    /\ connections' = [connections EXCEPT ![a] = s]
    /\ byCluster' = [byCluster EXCEPT ![ClusterOf[a]] = s]
    /\ replaced' = replaced \cup ({connections[a]} \ {NoSession})
    /\ Publish(a)
    /\ UNCHANGED <<open, reason, cause, remembered, order, revocationVars,
                   runVars>>

\* serveControl returns: on a frame it does not accept, on a refused heartbeat
\* or a failed acknowledgement, or because it cannot read any more.  The
\* connection may have been closed while it was handling the last frame.
ServeEnds(s) ==
    /\ handler[s] = "serving"
    /\ \/ \E why \in ServeReasons : CloseFor(s, why)
       \/ s \notin open /\ UNCHANGED <<open, reason, cause>>
    /\ handler' = [handler EXCEPT ![s] = "returning"]
    /\ UNCHANGED <<registryVars, revocationVars, runVars, eventVars>>

\* rememberDisconnectLocked; connected is the map after the deletion.
RememberDisconnect(a, why, connected) ==
    LET appended == IF remembered[a] = "unknown" THEN Append(order, a) ELSE order
        excess == IF Len(appended) > MaxRemembered
                  THEN Len(appended) - MaxRemembered ELSE 0
        evicted == {appended[i] : i \in 1..excess}
    IN
    /\ order' = SubSeq(appended, excess + 1, Len(appended))
    /\ remembered' = [b \in Agents |->
                        IF b \in evicted /\ connected[b] = NoSession
                        THEN "unknown"
                        ELSE IF b = a THEN why ELSE remembered[b]]

\* Faulty: leaves the session in connectionsByCluster.
UnregisterAgentOnly(s) ==
    LET a == AgentOf[s] IN
    /\ handler[s] = "returning"
    /\ handler' = [handler EXCEPT ![s] = "done"]
    /\ IF connections[a] = s
       THEN /\ connections' = [connections EXCEPT ![a] = NoSession]
            /\ RememberDisconnect(a, reason[s], connections')
            /\ Publish(a)
       ELSE UNCHANGED <<connections, remembered, order, eventVars>>
    /\ reason' = [reason EXCEPT ![s] = "connection_closed"]
    /\ cause' = [cause EXCEPT ![s] = "connection_closed"]
    /\ UNCHANGED <<open, byCluster, replaced, revocationVars, runVars>>

\* Faulty: does not publish the disconnect.
UnregisterQuietly(s) ==
    LET a == AgentOf[s]
        c == ClusterOf[a]
    IN
    /\ handler[s] = "returning"
    /\ handler' = [handler EXCEPT ![s] = "done"]
    /\ IF connections[a] = s
       THEN /\ connections' = [connections EXCEPT ![a] = NoSession]
            /\ byCluster' = IF byCluster[c] = s
                            THEN [byCluster EXCEPT ![c] = NoSession] ELSE byCluster
            /\ RememberDisconnect(a, reason[s], connections')
       ELSE UNCHANGED <<connections, byCluster, remembered, order>>
    /\ reason' = [reason EXCEPT ![s] = "connection_closed"]
    /\ cause' = [cause EXCEPT ![s] = "connection_closed"]
    /\ UNCHANGED <<open, replaced, revocationVars, runVars, eventVars>>

\* The deferred unregister: nothing if a newer session took over.
Unregister(s) ==
    LET a == AgentOf[s]
        c == ClusterOf[a]
    IN
    /\ handler[s] = "returning"
    /\ handler' = [handler EXCEPT ![s] = "done"]
    /\ IF connections[a] = s
       THEN /\ connections' = [connections EXCEPT ![a] = NoSession]
            /\ byCluster' = IF byCluster[c] = s
                            THEN [byCluster EXCEPT ![c] = NoSession] ELSE byCluster
            /\ RememberDisconnect(a, reason[s], connections')
            /\ Publish(a)
       ELSE UNCHANGED <<connections, byCluster, remembered, order, eventVars>>
    /\ reason' = [reason EXCEPT ![s] = "connection_closed"]
    /\ cause' = [cause EXCEPT ![s] = "connection_closed"]
    /\ UNCHANGED <<open, replaced, revocationVars, runVars>>

-----------------------------------------------------------------------------
(* Revocation events and shutdown.                                          *)

\* handleRevocation collects the registered sessions that match; the watch
\* calls it for one event at a time.
HandleRevocation(targets, why) ==
    /\ lifecycle = "running" /\ revocations < MaxRevocations
    /\ revoking.targets = {}
    /\ revoking' = [targets |-> targets, why |-> why]
    /\ revocations' = revocations + 1
    /\ UNCHANGED <<sessionVars, registryVars, runVars, eventVars>>

AgentRevoked(a) ==
    /\ a \notin revoked
    /\ revoked' = revoked \cup {a}
    /\ HandleRevocation({s \in Registered : AgentOf[s] = a}, "agent_revoked")

\* A superseded credential: the session that presented it.
RevokeCredential(s) ==
    /\ handler[s] # "new"
    /\ HandleRevocation({s} \cap Registered, "credential_revoked")
    /\ UNCHANGED revoked

SuspendCluster(c) ==
    /\ HandleRevocation({s \in Registered : ClusterOf[AgentOf[s]] = c},
                        "scope_suspended")
    /\ UNCHANGED revoked

CloseRevoked(s) ==
    /\ s \in revoking.targets
    /\ CloseFor(s, revoking.why)
    /\ revoking' = IF revoking.targets = {s} THEN Nothing
                   ELSE [revoking EXCEPT !.targets = @ \ {s}]
    /\ UNCHANGED <<handler, registryVars, revoked, revocations, runVars,
                   eventVars>>

\* Run's context is cancelled; closeAll collects the registered sessions.
Shutdown ==
    /\ lifecycle = "running"
    /\ lifecycle' = "closing" /\ doomed' = Registered
    /\ UNCHANGED <<sessionVars, registryVars, revocationVars, eventVars>>

CloseAtShutdown(s) ==
    /\ s \in doomed
    /\ CloseFor(s, "server_shutdown")
    /\ doomed' = doomed \ {s}
    /\ UNCHANGED <<handler, lifecycle, registryVars, revocationVars, eventVars>>

\* Run returns when the handlers and the revocation watcher have.
Stopped ==
    /\ lifecycle = "closing"
    /\ doomed = {} /\ Handlers = {} /\ revoking.targets = {}
    /\ lifecycle' = "stopped"
    /\ UNCHANGED <<doomed, sessionVars, registryVars, revocationVars, eventVars>>

-----------------------------------------------------------------------------
HandlerStep(s) ==
    \/ Accept(s) \/ RejectAtCapacity(s) \/ Activate(s) \/ HandshakeFails(s)
    \/ Register(s) \/ ServeEnds(s) \/ Unregister(s)

Closing(s) == CloseReplaced(s) \/ CloseRevoked(s) \/ CloseAtShutdown(s)

CRNext ==
    \/ \E s \in Sessions :
         HandlerStep(s) \/ Closing(s) \/ AgentLeaves(s) \/ RevokeCredential(s)
    \/ \E a \in Agents : AgentRevoked(a) \/ StatusChange(a)
    \/ \E c \in Clusters : SuspendCluster(c)
    \/ Shutdown \/ Stopped
    \/ \E u \in Subscribers : ReceiveEvent(u) \/ ReadStatus(u)

CRSpec == CRInit /\ [][CRNext]_crVars

\* A handler ends on its own only when its connection is closed, or when the
\* Server is shutting down, where the next persisted heartbeat fails.
HandlerMustStep(s) ==
    \/ HandshakeFails(s) \/ Register(s) \/ Unregister(s)
    \/ ServeEnds(s) /\ (s \notin open \/ lifecycle # "running")

CRFairness ==
    /\ \A s \in Sessions : WF_crVars(HandlerMustStep(s)) /\ WF_crVars(Closing(s))
    /\ WF_crVars(Stopped)

CRFairSpec == CRSpec /\ CRFairness
-----------------------------------------------------------------------------
(* Properties.                                                              *)

\* Every variable stays in its range.
CRTypeOK ==
    /\ handler \in [Sessions -> Handling]
    /\ open \subseteq Sessions
    /\ reason \in [Sessions -> Reasons]
    /\ cause \in [Sessions -> Reasons]
    /\ connections \in [Agents -> Sessions \cup {NoSession}]
    /\ byCluster \in [Clusters -> Sessions \cup {NoSession}]
    /\ replaced \subseteq Sessions
    /\ remembered \in [Agents -> Reasons \cup {"unknown"}]
    /\ order \in Seq(Agents)
    /\ revoked \subseteq Agents
    /\ revoking \in [targets: SUBSET Sessions, why: Reasons]
    /\ revocations \in 0..MaxRevocations
    /\ lifecycle \in {"running", "closing", "stopped"}
    /\ doomed \subseteq Sessions
    /\ channel \in [Subscribers -> Seq(Agents)]
    /\ reading \in [Subscribers -> Agents \cup {NoAgent}]
    /\ view \in [Subscribers -> SUBSET Agents]
    /\ missed \in [Subscribers -> SUBSET Agents]

\* A session found through the maps still has its handler, and the two maps
\* never disagree about it, whatever order sessions come and go in; and a session
\* that is being served is in them or is being closed for a newer one.
RoutesAreRegistered ==
    /\ \A a \in Agents : connections[a] # NoSession =>
         /\ AgentOf[connections[a]] = a
         /\ handler[connections[a]] \in {"serving", "returning"}
    /\ \A c \in Clusters : byCluster[c] # NoSession =>
         ClusterOf[AgentOf[byCluster[c]]] = c /\ byCluster[c] \in Registered
    /\ \A s \in Sessions :
         handler[s] = "serving" /\ s \in open => s \in Registered \cup replaced

\* The reason shown for a disconnect is never weaker than the one the
\* connection was closed for, although several parties set it in any order.
ReasonNotWeaker ==
    \A s \in Sessions : Priority(reason[s]) >= Priority(cause[s])

\* A subscriber that has handled all its events, and lost none of the last
\* ones, shows what the registry says.
EventsConverge ==
    \A u \in Subscribers, a \in Agents :
      /\ a \notin missed[u] /\ reading[u] # a
      /\ \A i \in 1..Len(channel[u]) : channel[u][i] # a
      => (a \in view[u] <=> connections[a] # NoSession)

\* Shutdown waits for every handler, and every handler ends: those closeAll
\* did not see too.
ShutdownCompletes == lifecycle = "closing" ~> lifecycle = "stopped"

\* At most MaxRemembered disconnects are remembered, beside connected Agents.
MemoryIsBounded ==
    Cardinality({a \in Agents : /\ remembered[a] # "unknown"
                                /\ connections[a] = NoSession}) <= MaxRemembered

\* While an Agent that was not revoked is connected, the requests for its
\* Cluster find a session.
ConnectedClusterIsRouted ==
    \A a \in Agents \ revoked :
      connections[a] # NoSession => byCluster[ClusterOf[a]] # NoSession
=============================================================================
