-------------------------- MODULE MCAgentProgress --------------------------
(***************************************************************************)
(* What the Agent process brings about in the end, in one run: an identity *)
(* for its token (Enrollment), a connection with the identity it rotates   *)
(* (CredentialRotation), a Cluster without the leftovers of a terminal     *)
(* (TerminalSession), and metrics that reach the Server                    *)
(* (MetricsForwarding).  The initial state chooses which of them moves,    *)
(* and the others rest.                                                    *)
(***************************************************************************)
EXTENDS CredentialRotation, TerminalSession, MetricsForwarding

CONSTANTS MaxEnrollments, MaxAgents, Installs, Calls, Names, MaxEnrollmentFaults,
          NoCall, NoName

VARIABLES
    focus,
    \* Enrollment
    enrollmentParent, clusters, enrollment, attempt, agents, issuing, call, secret,
    token, process, enrollmentFaults

enrollmentVars == <<enrollmentParent, clusters, enrollment, attempt, agents, issuing,
                    call, secret, token, process, enrollmentFaults>>
progressVars == <<focus, vars, enrollmentVars, tsVars, mfVars>>

Registration == INSTANCE Enrollment WITH
    MaxFaults <- MaxEnrollmentFaults,
    parent <- enrollmentParent, faults <- enrollmentFaults

ProgressInit ==
    /\ focus \in {"enrollment", "rotation", "terminal", "forwarding"}
    /\ Registration!Init /\ Init /\ TSInit /\ MFInit

EnrollmentMoves ==
    /\ focus = "enrollment" /\ Registration!Next
    /\ UNCHANGED <<focus, vars, tsVars, mfVars>>

RotationMoves ==
    focus = "rotation" /\ Next /\ UNCHANGED <<focus, enrollmentVars, tsVars, mfVars>>

TerminalMoves ==
    focus = "terminal" /\ TSNext /\ UNCHANGED <<focus, vars, enrollmentVars, mfVars>>

ForwardingMoves ==
    focus = "forwarding" /\ MFNext /\ UNCHANGED <<focus, vars, enrollmentVars, tsVars>>

ProgressNext == EnrollmentMoves \/ RotationMoves \/ TerminalMoves \/ ForwardingMoves

\* The fairness of each of them, while it moves.
ProgressFairness ==
    /\ \A i \in Installs :
         WF_enrollmentVars(focus = "enrollment" /\ Registration!AgentStep(i))
    /\ \A k \in Calls :
         WF_enrollmentVars(focus = "enrollment" /\ Registration!ServerStep(k))
    /\ WF_enrollmentVars(focus = "enrollment" /\ Registration!Issuing)
    /\ WF_vars(focus = "rotation" /\ AgentStep)
    /\ \A c \in Conns : WF_vars(focus = "rotation" /\ ServerStep(c))
    /\ \A w \in Workers : WF_tsVars(focus = "terminal" /\ WorkerStep(w))
    /\ WF_tsVars(focus = "terminal" /\ JanitorFinds)
    /\ \A r \in Forwards :
         /\ WF_mfVars(focus = "forwarding" /\ Arrive(r))
         /\ WF_mfVars(focus = "forwarding" /\ Works(r))
    /\ \A s \in IngestStreams : WF_mfVars(focus = "forwarding" /\ Serves(s))
    /\ SF_mfVars(focus = "forwarding" /\ ~(attached /\ linkUp) /\ Reconnects)

ProgressSpec == ProgressInit /\ [][ProgressNext]_progressVars /\ ProgressFairness

\* An installation whose attempt has succeeded gets its identity in the end, even
\* if the answers were lost and the token has lapsed, was revoked or is
\* suspended meanwhile -- unless its Enrollment Secret is replaced or the
\* Cluster deleted (Enrollment).
RegistrationReachesAgent == Registration!RegistrationReachesAgent

\* An Agent left alone in an active scope is connected, again and again; while it
\* is CredentialRotation that moves.
AgentReconnects == focus = "rotation" => HealthyAgentReconnects

\* Metrics go on being acknowledged, whatever session was lost or dropped before;
\* while it is MetricsForwarding that moves.
MetricsKeepFlowing == focus = "forwarding" => ForwardingRecovers
=============================================================================
