---------------------------- MODULE OneTimeGrant ----------------------------
(***************************************************************************)
(* What enrollment promises (docs/architecture/                             *)
(* agent-enrollment-and-connection.md, section 4): an enrollment token is   *)
(* good for one Agent identity, made for the installation that asked for    *)
(* it, unless it was revoked first; an installation only ever takes on an   *)
(* identity made for it, and keeps it.                                      *)
(***************************************************************************)
CONSTANTS Tokens, Installs, Agents, NoAgent

VARIABLES
    issued,   \* identities: the Agent, the token spent on it, and for whom
    void,     \* tokens that can no longer be spent, and never were
    identity  \* the Agent each installation is, or NoAgent

grantVars == <<issued, void, identity>>

Spent == {r.token : r \in issued}

Init == issued = {} /\ void = {} /\ identity = [i \in Installs |-> NoAgent]

Issue(t, i) ==
    /\ t \notin Spent \cup void
    /\ \E agent \in Agents \ {r.agent : r \in issued} :
         issued' = issued \cup {[token |-> t, agent |-> agent, holder |-> i]}
    /\ UNCHANGED <<void, identity>>

\* Several at once: an update of a Cluster withdraws the lapsed tokens of its old and of
\* its new name.
Void(gone) ==
    /\ gone \cap (Spent \cup void) = {}
    /\ void' = void \cup gone
    /\ UNCHANGED <<issued, identity>>

Adopt(i) ==
    /\ identity[i] = NoAgent
    /\ \E r \in issued : r.holder = i /\ identity' = [identity EXCEPT ![i] = r.agent]
    /\ UNCHANGED <<issued, void>>

Next ==
    \/ \E t \in Tokens, i \in Installs : Issue(t, i)
    \/ \E gone \in SUBSET Tokens : Void(gone)
    \/ \E i \in Installs : Adopt(i)

Spec == Init /\ [][Next]_grantVars
=============================================================================
