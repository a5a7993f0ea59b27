----------------------------- MODULE Enrollment -----------------------------
(***************************************************************************)
(* How an Agent gets its first identity: administrators issue one-time      *)
(* enrollment tokens for a new or an existing Cluster                       *)
(* (pkg/server/store: enrollment.go, enrollment_management.go,              *)
(* resource_lifecycle.go), an installation of the Agent spends one          *)
(* (pkg/server/enrollment, store/agent_enrollment.go) with as many retries  *)
(* as it takes, and keeps the result in its identity Secret (pkg/agent).    *)
(*                                                                          *)
(* An installation is one identity Secret.  Its private key, CSR and        *)
(* idempotency key are made together and stored before the first request,   *)
(* so all three are the installation itself; a key that arrives with        *)
(* another CSR does not occur.                                              *)
(*                                                                          *)
(* Begin, Complete and the administrators' transactions lock what they test *)
(* and are one step each.  CreateEnrollment is two: its INSERT tests names  *)
(* in the statement's snapshot and may then wait for a Complete to commit.  *)
(* The advisory locks it takes keep other creations and UpdateCluster out.  *)
(* The time of a call is taken when it arrives, so Complete does not test   *)
(* the expiry again.                                                        *)
(*                                                                          *)
(* Bounds: MaxEnrollments tokens, MaxAgents Agents, Calls requests at a     *)
(* time, MaxFaults crashes, timeouts and failed calls.                      *)
(***************************************************************************)
EXTENDS Naturals, FiniteSets, Sequences

CONSTANTS MaxEnrollments, MaxAgents, Installs, Calls, Names, MaxFaults,
          NoCall, NoName

ASSUME EnrollmentAssumption ==
    /\ MaxEnrollments \in Nat \ {0} /\ MaxAgents \in Nat /\ MaxFaults \in Nat
    /\ NoCall \notin Calls /\ NoName \notin Names

Enrollments == 1..MaxEnrollments
None == 0

VARIABLES
    parent,      \* "active" iff the Project and the Tenant are both active
    clusters,    \* the rows of clusters, in the order they were made
    enrollment,  \* the rows of enrollments
    attempt,     \* enrollment_attempts, by enrollment and idempotency key
    agents,      \* the rows of agents, in the order they were made
    issuing,     \* the CreateEnrollment under way
    call,        \* the Server's handling of each Enroll request
    secret,      \* the identity Secret of each installation
    token,       \* the token in its Enrollment Secret
    process,     \* its Agent process
    faults

dbVars == <<parent, clusters, enrollment, attempt, agents>>
agentVars == <<secret, token, process>>
vars == <<dbVars, issuing, call, agentVars, faults>>

\* cluster is None for a Cluster that the token's Agent will create.
Enrollment == [state: {"none", "open", "consumed", "revoked", "deleted"},
               lapsed: BOOLEAN, cluster: Nat, name: Names \cup {NoName}]
Attempt == [status: {"none", "pending", "succeeded"}, agent: 0..MaxAgents]
Agent == [cluster: Nat, holder: Installs, token: Enrollments,
          status: {"pending", "revoked", "deleted"}]
Cluster == [name: Names, status: {"pending", "suspended", "deleted"}]
Phases == {"down", "ready", "waiting", "granted", "running"}

NoAttempt == [status |-> "none", agent |-> None]
NotIssuing == [step |-> "idle", cluster |-> None, name |-> NoName,
               released |-> {}]
IdleCall == [state |-> "idle", install |-> NoCall, token |-> None]
Down == [phase |-> "down", token |-> None, call |-> NoCall, agent |-> None]

ClusterIds == 1..Len(clusters)
AgentIds == 1..Len(agents)
LiveAgents(c) == {a \in AgentIds : agents[a].cluster = c /\ agents[a].status = "pending"}
NameTaken(n) == \E c \in ClusterIds : clusters[c].name = n /\ clusters[c].status # "deleted"
Open(e) == enrollment[e].state = "open"

Init ==
    /\ parent = "active" /\ clusters = <<>> /\ agents = <<>>
    /\ enrollment = [e \in Enrollments |->
         [state |-> "none", lapsed |-> FALSE, cluster |-> None, name |-> NoName]]
    /\ attempt = [e \in Enrollments |-> [i \in Installs |-> NoAttempt]]
    /\ issuing = NotIssuing
    /\ call = [k \in Calls |-> IdleCall]
    /\ secret = [i \in Installs |-> [state |-> "none", agent |-> None]]
    /\ token = [i \in Installs |-> None]
    /\ process = [i \in Installs |-> Down]
    /\ faults = 0

Fault == faults < MaxFaults /\ faults' = faults + 1

-----------------------------------------------------------------------------
(* The Agent process.                                                       *)

\* Run: a stored identity is used as it is; otherwise the pending one is
\* created or read back before the token is.
AgentStart(i) ==
    /\ process[i].phase = "down" /\ token[i] # None
    /\ IF secret[i].state = "complete"
       THEN /\ process' = [process EXCEPT ![i] =
                             [Down EXCEPT !.phase = "running",
                                          !.agent = secret[i].agent]]
            /\ UNCHANGED secret
       ELSE /\ process' = [process EXCEPT ![i] =
                             [Down EXCEPT !.phase = "ready", !.token = token[i]]]
            /\ secret' = [secret EXCEPT ![i].state = "pending"]
    /\ UNCHANGED <<dbVars, issuing, call, token, faults>>

AgentCalls(i) ==
    /\ process[i].phase = "ready"
    /\ \E k \in Calls :
         /\ call[k].state = "idle"
         /\ call' = [call EXCEPT ![k] = [state |-> "sent", install |-> i,
                                          token |-> process[i].token]]
         /\ process' = [process EXCEPT ![i].phase = "waiting", ![i].call = k]
    /\ UNCHANGED <<dbVars, issuing, secret, token, faults>>

\* A timeout or a broken connection: the request may still be handled.
AgentGivesUp(i) ==
    /\ process[i].phase = "waiting" /\ Fault
    /\ process' = [process EXCEPT ![i].phase = "ready", ![i].call = NoCall]
    /\ UNCHANGED <<dbVars, issuing, call, secret, token>>

AgentCrash(i) ==
    /\ process[i].phase # "down" /\ Fault
    /\ process' = [process EXCEPT ![i] = Down]
    /\ UNCHANGED <<dbVars, issuing, call, secret, token>>

StoreIdentity(i) ==
    secret' = [secret EXCEPT ![i] = [state |-> "complete",
                                     agent |-> process[i].agent]]

\* Complete: the pending state is replaced by the identity.
AgentStores(i) ==
    /\ process[i].phase = "granted" /\ secret[i].state = "pending"
    /\ StoreIdentity(i)
    /\ process' = [process EXCEPT ![i].phase = "running"]
    /\ UNCHANGED <<dbVars, issuing, call, token, faults>>

\* It fails, and the process exits; the update may have been applied.
AgentFailsToStore(i) ==
    /\ process[i].phase = "granted" /\ Fault
    /\ StoreIdentity(i) \/ UNCHANGED secret
    /\ process' = [process EXCEPT ![i] = Down]
    /\ UNCHANGED <<dbVars, issuing, call, token>>

-----------------------------------------------------------------------------
(* The Server's Enroll.                                                     *)

\* CreateEnrollment has locked the rows of the lapsed tokens it will revoke.
Unlocked(e) == e \notin issuing.released

\* isUsable, but for the expiry.
Usable(e) ==
    /\ Open(e) /\ parent = "active"
    /\ enrollment[e].cluster # None => clusters[enrollment[e].cluster].status # "suspended"

\* The answer reaches the process if it is still waiting for it.  A refusal is
\* permanent: the process exits.  A failure (a 5xx) is retried.
Answer(k, answer, agent) ==
    LET i == call[k].install IN
    /\ call' = [call EXCEPT ![k] = IdleCall]
    /\ process' = IF process[i].call # k THEN process
                  ELSE IF answer = "granted"
                  THEN [process EXCEPT ![i].phase = "granted",
                                       ![i].call = NoCall, ![i].agent = agent]
                  ELSE IF answer = "refused"
                  THEN [process EXCEPT ![i] = Down]
                  ELSE [process EXCEPT ![i].phase = "ready", ![i].call = NoCall]

\* Faulty: a token that was spent is refused even to its owner.
ReplayWhileUsable(k) ==
    LET e == call[k].token
        past == attempt[e][call[k].install]
    IN
    /\ call[k].state \in {"sent", "begun"} /\ Unlocked(e)
    /\ past.status = "succeeded" /\ Usable(e)
    /\ Answer(k, "granted", past.agent)
    /\ UNCHANGED <<dbVars, issuing, secret, token, faults>>

\* BeginAgentEnrollment, for a request that has something to replay.
Replay(k) ==
    LET e == call[k].token
        past == attempt[e][call[k].install]
    IN
    /\ call[k].state \in {"sent", "begun"} /\ Unlocked(e)
    /\ past.status = "succeeded"
    /\ Answer(k, "granted", past.agent)
    /\ UNCHANGED <<dbVars, issuing, secret, token, faults>>

Refuse(k) ==
    LET e == call[k].token IN
    /\ call[k].state # "idle" /\ Unlocked(e)
    /\ attempt[e][call[k].install].status # "succeeded"
    /\ \/ call[k].state = "sent" /\ ~(Usable(e) /\ ~enrollment[e].lapsed)
       \/ call[k].state = "begun" /\ ~Usable(e)
    /\ Answer(k, "refused", None)
    /\ UNCHANGED <<dbVars, issuing, secret, token, faults>>

Begin(k) ==
    LET e == call[k].token
        i == call[k].install
    IN
    /\ call[k].state = "sent" /\ Unlocked(e)
    /\ attempt[e][i].status # "succeeded"
    /\ Usable(e) /\ ~enrollment[e].lapsed
    /\ attempt' = [attempt EXCEPT ![e][i].status = "pending"]
    /\ call' = [call EXCEPT ![k].state = "begun"]
    /\ UNCHANGED <<parent, clusters, enrollment, agents, issuing, agentVars,
                   faults>>

\* Faulty: does not write enrollments.cluster_id.
EnrollAgentDetached(e, i) ==
    LET c == IF enrollment[e].cluster = None THEN Len(clusters) + 1
             ELSE enrollment[e].cluster
    IN
    /\ clusters' = IF enrollment[e].cluster = None
                   THEN Append(clusters, [name |-> enrollment[e].name,
                                          status |-> "pending"])
                   ELSE clusters
    /\ agents' = Append(agents, [cluster |-> c, holder |-> i, token |-> e,
                                 status |-> "pending"])
    /\ enrollment' = [enrollment EXCEPT ![e].state = "consumed"]
    /\ attempt' = [attempt EXCEPT ![e][i] = [status |-> "succeeded",
                                             agent |-> Len(agents) + 1]]
    /\ UNCHANGED parent

\* CompleteAgentEnrollment's inserts and updates.
EnrollAgent(e, i) ==
    LET c == IF enrollment[e].cluster = None THEN Len(clusters) + 1
             ELSE enrollment[e].cluster
    IN
    /\ clusters' = IF enrollment[e].cluster = None
                   THEN Append(clusters, [name |-> enrollment[e].name,
                                          status |-> "pending"])
                   ELSE clusters
    /\ agents' = Append(agents, [cluster |-> c, holder |-> i, token |-> e,
                                 status |-> "pending"])
    /\ enrollment' = [enrollment EXCEPT ![e].state = "consumed", ![e].cluster = c]
    /\ attempt' = [attempt EXCEPT ![e][i] = [status |-> "succeeded",
                                             agent |-> Len(agents) + 1]]
    /\ UNCHANGED parent

\* What makes the inserts fail: clusters_project_name_unique_idx and
\* agents_active_cluster_unique.
NameConflict(e) == enrollment[e].cluster = None /\ NameTaken(enrollment[e].name)
AgentConflict(e) == enrollment[e].cluster # None /\ LiveAgents(enrollment[e].cluster) # {}

\* Faulty: relies on what Begin has tested.
CompletableAsBegun(k) ==
    LET e == call[k].token IN
    /\ call[k].state = "begun" /\ Unlocked(e)
    /\ attempt[e][call[k].install].status # "succeeded"
    /\ enrollment[e].cluster # None => LiveAgents(enrollment[e].cluster) = {}
    /\ Len(agents) < MaxAgents

Completable(k) ==
    LET e == call[k].token IN
    /\ call[k].state = "begun" /\ Unlocked(e)
    /\ attempt[e][call[k].install].status # "succeeded"
    /\ Usable(e) /\ Len(agents) < MaxAgents

Complete(k) ==
    LET e == call[k].token
        i == call[k].install
    IN
    /\ Completable(k)
    /\ IF NameConflict(e) \/ AgentConflict(e)
       THEN /\ Answer(k, IF NameConflict(e) THEN "refused" ELSE "failed", None)
            /\ UNCHANGED dbVars
       ELSE /\ EnrollAgent(e, i)
            /\ Answer(k, "granted", Len(agents) + 1)
    /\ UNCHANGED <<issuing, secret, token, faults>>

\* The database fails, or only the answer to the commit is lost.
CallFails(k) ==
    LET e == call[k].token IN
    /\ call[k].state \in {"sent", "begun"} /\ Fault
    /\ \/ UNCHANGED dbVars
       \/ /\ Completable(k) /\ ~NameConflict(e) /\ ~AgentConflict(e)
          /\ EnrollAgent(e, call[k].install)
    /\ Answer(k, "failed", None)
    /\ UNCHANGED <<issuing, secret, token>>

-----------------------------------------------------------------------------
(* Administrators.                                                          *)

\* A request to create the next token: for a new Cluster called n, or for
\* Cluster c, whose name is read before the transaction begins.
RequestEnrollment(c, n) ==
    /\ issuing.step = "idle" /\ enrollment[MaxEnrollments].state = "none"
    /\ c # None => /\ clusters[c].status \notin {"suspended", "deleted"}
                   /\ n = clusters[c].name
    /\ issuing' = [NotIssuing EXCEPT !.step = "requested", !.cluster = c, !.name = n]
    /\ UNCHANGED <<dbVars, call, agentVars, faults>>

\* CreateEnrollment up to the snapshot of its INSERT: the name's lapsed tokens
\* are locked, to be revoked, and the tests are made.
Creatable(c, n, released) ==
    /\ parent = "active"
    /\ c = None => ~NameTaken(n)
    /\ c # None =>
         /\ clusters[c].status \notin {"suspended", "deleted"}
         /\ LiveAgents(c) = {}
         /\ \A e \in Enrollments \ released :
              Open(e) /\ enrollment[e].cluster = c => enrollment[e].lapsed

CheckEnrollment ==
    LET released == {e \in Enrollments :
          Open(e) /\ enrollment[e].lapsed /\ enrollment[e].name = issuing.name}
    IN
    /\ issuing.step = "requested"
    /\ issuing' = IF Creatable(issuing.cluster, issuing.name, released)
                  THEN [issuing EXCEPT !.step = "checked", !.released = released]
                  ELSE NotIssuing
    /\ UNCHANGED <<dbVars, call, agentVars, faults>>

\* The INSERT and the commit.  enrollments_project_cluster_name_unique_idx and
\* the foreign key to clusters are tested against what is committed by now.
CreateEnrollment ==
    LET e == CHOOSE e \in Enrollments :
               /\ enrollment[e].state = "none"
               /\ \A earlier \in 1..(e - 1) : enrollment[earlier].state # "none"
        claimed == \E other \in Enrollments \ issuing.released :
                     Open(other) /\ enrollment[other].name = issuing.name
        dangling == issuing.cluster # None /\ clusters[issuing.cluster].status = "deleted"
    IN
    /\ issuing.step = "checked"
    /\ enrollment' =
         IF claimed \/ dangling THEN enrollment
         ELSE [o \in Enrollments |->
                 IF o = e THEN [state |-> "open", lapsed |-> FALSE,
                                cluster |-> issuing.cluster, name |-> issuing.name]
                 ELSE IF o \in issuing.released
                 THEN [enrollment[o] EXCEPT !.state = "revoked"] ELSE enrollment[o]]
    /\ issuing' = NotIssuing
    /\ UNCHANGED <<parent, clusters, attempt, agents, call, agentVars, faults>>

RevokeEnrollment(e) ==
    /\ Open(e) /\ Unlocked(e)
    /\ enrollment' = [enrollment EXCEPT ![e].state = "revoked"]
    /\ UNCHANGED <<parent, clusters, attempt, agents, issuing, call, agentVars,
                   faults>>

Lapse(e) ==
    /\ Open(e) /\ ~enrollment[e].lapsed
    /\ enrollment' = [enrollment EXCEPT ![e].lapsed = TRUE]
    /\ UNCHANGED <<parent, clusters, attempt, agents, issuing, call, agentVars,
                   faults>>

\* Faulty: a resumed Cluster is active again.
UpdateClusterResumes(c, n, suspend) ==
    /\ parent = "active" /\ clusters[c].status # "deleted"
    /\ n # clusters[c].name => ~NameTaken(n)
    /\ clusters' = [clusters EXCEPT ![c] =
         [name |-> n, status |-> IF suspend THEN "suspended" ELSE "active"]]
    /\ UNCHANGED <<parent, enrollment, attempt, agents, issuing, call, agentVars,
                   faults>>

\* Rename, suspend or resume; the tokens of the Cluster follow its name.
UpdateCluster(c, n, suspend) ==
    LET renamed == {e \in Enrollments : Open(e) /\ enrollment[e].cluster = c}
        released == {e \in Enrollments :
          /\ Open(e) /\ enrollment[e].lapsed
          /\ enrollment[e].name = n \/ e \in renamed}
        others == {e \in Enrollments \ released :
          Open(e) /\ enrollment[e].name = n /\ enrollment[e].cluster # c}
    IN
    /\ parent = "active" /\ clusters[c].status # "deleted"
    /\ issuing.step = "checked" => n # issuing.name /\ c # issuing.cluster
    /\ \A e \in released : Unlocked(e)
    /\ others = {}
    /\ n # clusters[c].name => ~NameTaken(n)
    /\ clusters' = [clusters EXCEPT ![c] =
         [name |-> n, status |-> IF suspend THEN "suspended" ELSE "pending"]]
    /\ enrollment' = [e \in Enrollments |->
         IF e \in released THEN [enrollment[e] EXCEPT !.state = "revoked"]
         ELSE IF e \in renamed THEN [enrollment[e] EXCEPT !.name = n]
         ELSE enrollment[e]]
    /\ UNCHANGED <<parent, attempt, agents, issuing, call, agentVars, faults>>

\* UpdateProject and UpdateTenant.
UpdateParent ==
    /\ parent' = IF parent = "active" THEN "suspended" ELSE "active"
    /\ UNCHANGED <<clusters, enrollment, attempt, agents, issuing, call,
                   agentVars, faults>>

\* deleteClusterTree, which removes the tokens and attempts of the Cluster too.
DeleteCluster(c) ==
    LET gone == {e \in Enrollments : enrollment[e].cluster = c} IN
    /\ clusters[c].status # "deleted"
    /\ \A e \in gone : Unlocked(e)
    /\ clusters' = [clusters EXCEPT ![c].status = "deleted"]
    /\ enrollment' = [e \in Enrollments |->
         IF e \in gone THEN [enrollment[e] EXCEPT !.state = "deleted"] ELSE enrollment[e]]
    /\ attempt' = [e \in Enrollments |->
         IF e \in gone THEN [i \in Installs |-> NoAttempt] ELSE attempt[e]]
    /\ agents' = [a \in AgentIds |->
         IF agents[a].cluster = c THEN [agents[a] EXCEPT !.status = "deleted"] ELSE agents[a]]
    /\ UNCHANGED <<parent, issuing, call, agentVars, faults>>

\* AgentManagementStore.Revoke of the Cluster's live Agent.
RevokeAgent(a) ==
    /\ agents[a].status = "pending"
    /\ agents' = [agents EXCEPT ![a].status = "revoked"]
    /\ UNCHANGED <<parent, clusters, enrollment, attempt, issuing, call,
                   agentVars, faults>>

\* An operator applies the manifest of a token; the same one may be applied in
\* several places, and a later one over an earlier one.
Install(i, e) ==
    /\ enrollment[e].state # "none" /\ token[i] < e
    /\ token' = [token EXCEPT ![i] = e]
    /\ UNCHANGED <<dbVars, issuing, call, secret, process, faults>>

-----------------------------------------------------------------------------
AgentStep(i) == AgentStart(i) \/ AgentCalls(i) \/ AgentStores(i)
ServerStep(k) == Replay(k) \/ Refuse(k) \/ Begin(k) \/ Complete(k)
Issuing == CheckEnrollment \/ CreateEnrollment

Next ==
    \/ \E i \in Installs :
         AgentStep(i) \/ AgentGivesUp(i) \/ AgentCrash(i) \/ AgentFailsToStore(i)
    \/ \E k \in Calls : ServerStep(k) \/ CallFails(k)
    \/ \E c \in {None} \cup ClusterIds, n \in Names : RequestEnrollment(c, n)
    \/ Issuing
    \/ \E e \in Enrollments : RevokeEnrollment(e) \/ Lapse(e)
    \/ \E c \in ClusterIds, n \in Names, suspend \in BOOLEAN :
         UpdateCluster(c, n, suspend)
    \/ UpdateParent
    \/ \E c \in ClusterIds : DeleteCluster(c)
    \/ \E a \in AgentIds : RevokeAgent(a)
    \/ \E i \in Installs, e \in Enrollments : Install(i, e)

Spec == Init /\ [][Next]_vars

\* Processes are restarted and run on, requests are handled, transactions end.
\* Calls bounds the requests only here: a process that keeps asking gets in.
Fairness ==
    /\ \A i \in Installs : WF_vars(AgentStep(i)) /\ SF_vars(AgentCalls(i))
    /\ \A k \in Calls : WF_vars(ServerStep(k))
    /\ WF_vars(Issuing)

FairSpec == Spec /\ Fairness
-----------------------------------------------------------------------------
(* Properties.                                                              *)

\* Every variable stays in its range.
TypeOK ==
    /\ parent \in {"active", "suspended"}
    /\ clusters \in Seq(Cluster)
    /\ enrollment \in [Enrollments -> Enrollment]
    /\ attempt \in [Enrollments -> [Installs -> Attempt]]
    /\ agents \in Seq(Agent)
    /\ issuing \in [step: {"idle", "requested", "checked"}, cluster: Nat,
                    name: Names \cup {NoName}, released: SUBSET Enrollments]
    /\ call \in [Calls -> [state: {"idle", "sent", "begun"},
                            install: Installs \cup {NoCall},
                            token: 0..MaxEnrollments]]
    /\ secret \in [Installs -> [state: {"none", "pending", "complete"},
                               agent: 0..MaxAgents]]
    /\ token \in [Installs -> 0..MaxEnrollments]
    /\ process \in [Installs -> [phase: Phases, token: 0..MaxEnrollments,
                                call: Calls \cup {NoCall}, agent: 0..MaxAgents]]
    /\ faults \in 0..MaxFaults

\* The four tables agree about every token that was spent, whatever calls
\* overlapped, failed half way or were repeated: exactly one installation's
\* attempt has succeeded, and the Agent it remembers is the one registered for
\* that installation, with that token, in the Cluster of the token.
RowsAgree ==
    \A e \in Enrollments :
      LET winners == {i \in Installs : attempt[e][i].status = "succeeded"} IN
      /\ enrollment[e].state = "consumed" <=> winners # {}
      /\ \A i, j \in winners : i = j
      /\ \A i \in winners :
           LET a == attempt[e][i].agent IN
           /\ a \in AgentIds
           /\ agents[a].holder = i /\ agents[a].token = e
           /\ agents[a].cluster = enrollment[e].cluster

\* The implementation of OneTimeGrant.  Rows of agents are only marked when
\* they are deleted here, so every identity ever made is still in agents.
Grant == INSTANCE OneTimeGrant WITH
    Tokens <- Enrollments,
    Agents <- 1..MaxAgents,
    NoAgent <- None,
    issued <- {[token |-> agents[a].token, agent |-> a, holder |-> agents[a].holder] :
                 a \in AgentIds},
    void <- {e \in Enrollments :
               /\ enrollment[e].state \in {"revoked", "deleted"}
               /\ \A a \in AgentIds : agents[a].token # e},
    identity <- [i \in Installs |-> secret[i].agent]

ImplementsOneTimeGrant == Grant!Spec

\* An installation whose attempt has succeeded gets its identity in the end,
\* even if the answers were lost and the token has lapsed, was revoked or is
\* suspended meanwhile -- unless its Enrollment Secret is replaced or the
\* Cluster deleted.
Won(i) == token[i] # None /\ attempt[token[i]][i].status = "succeeded"
RegistrationReachesAgent ==
    \A i \in Installs : <>[]Won(i) => <>(process[i].phase = "running")
=============================================================================
