----------------------------- MODULE MCSessions -----------------------------
(***************************************************************************)
(* What goes through the Server, in one run: the drain of a replaced       *)
(* session, with its requests (SessionDrain); the handlers, revocations    *)
(* and the shutdown of the registry (ConnectionRegistry); the access of a  *)
(* browser to a Pod (PodAccess); one of the port forwards that carry it    *)
(* (PodPortForward); and a turn of the assistant, with two branches        *)
(* (AITurns).  The initial state chooses which of them moves, and the      *)
(* others rest.                                                            *)
(***************************************************************************)
EXTENDS SessionDrain, PodAccess, PodPortForward, AITurns, TLC

CONSTANTS u1, u2, p1, k1, k2, s1

VARIABLES
    focus,
    \* ConnectionRegistry
    registryHandler, registryOpen, reason, cause, connections, byCluster, replaced,
    remembered, order, revoked, revoking, revocations, running, doomed, channel,
    reading, view, missed

handlersVars == <<registryHandler, registryOpen, reason, cause, connections, byCluster,
                  replaced, remembered, order, revoked, revoking, revocations, running,
                  doomed, channel, reading, view, missed>>
sessionsVars == <<focus, vars, handlersVars, paVars, pfVars, aiVars>>

\* Two users and a Pod; the second request takes the place of the first.
PodRequests == k1 :> [user |-> u1, pod |-> p1, replace |-> FALSE]
            @@ k2 :> [user |-> u2, pod |-> p1, replace |-> TRUE]

\* One turn, with two branches of a step each.
OneTurn == s1 :> 1
StepsOfBranches == [main |-> 1, b1 |-> 1, b2 |-> 1]

\* Two connections of one Agent, without subscribers.
Registry == INSTANCE ConnectionRegistry WITH
    MaxSessions <- 2, Agents <- {"a"}, Clusters <- {"c"}, AgentOf <- <<"a", "a">>,
    ClusterOf <- [a |-> "c"], MaxConcurrentAgents <- 2, MaxRemembered <- 1,
    Subscribers <- {}, ChannelSize <- 0, MaxRevocations <- 1,
    handler <- registryHandler, open <- registryOpen, lifecycle <- running

SessionsInit ==
    /\ focus \in {"drain", "registry", "access", "portforward", "turns"}
    /\ Init /\ Registry!CRInit /\ PAInit /\ PFInit /\ AIInit

DrainMoves ==
    /\ focus = "drain" /\ Next
    /\ UNCHANGED <<focus, handlersVars, paVars, pfVars, aiVars>>

RegistryMoves ==
    /\ focus = "registry" /\ Registry!CRNext
    /\ UNCHANGED <<focus, vars, paVars, pfVars, aiVars>>

AccessMoves ==
    /\ focus = "access" /\ PANext
    /\ UNCHANGED <<focus, vars, handlersVars, pfVars, aiVars>>

PortForwardMoves ==
    /\ focus = "portforward" /\ PFNext
    /\ UNCHANGED <<focus, vars, handlersVars, paVars, aiVars>>

TurnsMove ==
    /\ focus = "turns" /\ AINext
    /\ UNCHANGED <<focus, vars, handlersVars, paVars, pfVars>>

SessionsNext ==
    \/ DrainMoves \/ RegistryMoves \/ AccessMoves \/ PortForwardMoves \/ TurnsMove

\* The fairness of each of them, while it moves.  The Pod of the port forward goes on
\* reading what it is sent.
SessionsFairness ==
    /\ \A s \in Sessions :
         /\ WF_vars(focus = "drain" /\ Handle(s))
         /\ WF_vars(focus = "drain" /\ Drain(s))
    /\ \A r \in Requests : WF_vars(focus = "drain" /\ FinishLast(r))
    /\ \A s \in Registry!Sessions :
         /\ WF_handlersVars(focus = "registry" /\ Registry!HandlerMustStep(s))
         /\ WF_handlersVars(focus = "registry" /\ Registry!Closing(s))
    /\ WF_handlersVars(focus = "registry" /\ Registry!Stopped)
    /\ \A t \in PATickets :
         /\ WF_paVars(focus = "access" /\ (MonitorEnds(t) \/ MonitorRevokes(t)))
         /\ WF_paVars(focus = "access" /\ t \in sessionDone /\ Disconnects(t))
    /\ WF_pfVars(focus = "portforward" /\ RelaySteps)
    /\ WF_pfVars(focus = "portforward" /\ InputSteps)
    /\ WF_pfVars(focus = "portforward" /\ AgentSteps)
    /\ WF_pfVars(focus = "portforward" /\ ReceiveSteps)
    /\ WF_pfVars(focus = "portforward" /\ SendSteps)
    /\ WF_pfVars(focus = "portforward" /\ DeadlinePasses)
    /\ WF_pfVars(focus = "portforward" /\ PodReads)
    /\ \A r \in TurnRequests : WF_aiVars(focus = "turns" /\ RequestStep(r))
    /\ \A l \in Lanes : WF_aiVars(focus = "turns" /\ LaneStep(l))
    /\ WF_aiVars(focus = "turns" /\ ServerStarts)

SessionsSpec == SessionsInit /\ [][SessionsNext]_sessionsVars /\ SessionsFairness

-----------------------------------------------------------------------------

\* Every variable of the first four stays in its range; the slots, tables, remembered
\* endings and counted bytes within their limits.
SessionsTypeOK == TypeOK /\ Registry!CRTypeOK /\ PATypeOK /\ PFTypeOK

\* After a shutdown every handler ends, also one that registers after closeAll has
\* collected the sessions.
ShutdownCompletes == Registry!ShutdownCompletes

\* By its deadline a forward has left both sides, and its slots with it, even when the
\* client and the caller do nothing (the deferred calls of DoPodPortForward and
\* servePodPortForward); while it is PodPortForward that moves.
ForwardsEnd == focus = "portforward" => ForwardEnds
=============================================================================
