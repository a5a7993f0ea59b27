------------------------------ MODULE MCAgents ------------------------------
(***************************************************************************)
(* How Agents come to the Server, in one run: their connections in the     *)
(* registry (ConnectionRegistry, with its events or without), and the tokens and *)
(* identities they are given before (Enrollment).  The initial state       *)
(* chooses which of them moves, and the others rest.                       *)
(***************************************************************************)
EXTENDS Enrollment, MCConnectionRegistry

VARIABLE focus

agentsVars == <<focus, crVars, vars>>

\* The registry with a subscriber that has no room for an event.
Lagging == INSTANCE ConnectionRegistry WITH ChannelSize <- 0

AgentsInit ==
    /\ focus \in {"registry", "events", "enrollment"}
    /\ Init /\ CRInit

\* The bounds on its state space: the subscriber has lost an event of every Agent before
\* the first connection (StatusChange), so that it remembers nothing else, and what
\* follows a revocation is explored before the third connection.
RegistryMoves ==
    /\ focus = "registry" /\ Lagging!CRNext
    /\ handler[1] # "new" \/ handler'[1] # "new" => missed = [u \in Subscribers |-> Agents]
    /\ revocations > 0 => handler[MaxSessions] = "new"
    /\ UNCHANGED <<focus, vars>>

\* Two connections of one Agent, whose events the subscriber receives with room for one.
EventsMove ==
    /\ focus = "events" /\ CRNext
    /\ handler'[MaxSessions] = "new" /\ revocations' = 0
    /\ UNCHANGED <<focus, vars>>

EnrollmentMoves == focus = "enrollment" /\ Next /\ UNCHANGED <<focus, crVars>>

\* The registry may stop; enrollment may not.
RegistryRests == focus # "enrollment" /\ UNCHANGED agentsVars

AgentsNext == RegistryMoves \/ EventsMove \/ EnrollmentMoves \/ RegistryRests

AgentsSpec == AgentsInit /\ [][AgentsNext]_agentsVars

Symmetry == Permutations(Installs) \cup Permutations(Calls) \cup Permutations(Names)
=============================================================================
