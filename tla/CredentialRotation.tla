------------------------- MODULE CredentialRotation -------------------------
(***************************************************************************)
(* The life of one Agent's client credential: the rows of                   *)
(* agents/agent_credentials/clusters (pkg/server/store), the handshake and  *)
(* control loop of pkg/server/agentconn, and the Agent process that dials,  *)
(* renews its certificate and stores it in a Kubernetes Secret (pkg/agent). *)
(*                                                                          *)
(* A credential is identified with the CSR it answers: the unique index     *)
(* agent_credentials_agent_csr_unique makes the two one-to-one, and a       *)
(* replayed CSR gets the stored certificate back.  Credential 1 is the one  *)
(* enrollment issued; they are numbered in the order their CSRs are made,   *)
(* which is also the order in which they expire (one fixed lifetime).       *)
(*                                                                          *)
(* PostgreSQL runs every statement here at READ COMMITTED.  Activate is one *)
(* statement, but its guard is a CTE read from the statement's snapshot and *)
(* not re-evaluated after a row lock was waited for, so it is two steps:    *)
(* ActivateSnapshot reads, ActivateCommit writes.  The other statements     *)
(* lock what they test and are one step each.                               *)
(*                                                                          *)
(* Bounds: MaxCredentials renewals, the connections of Conns at a time, and *)
(* MaxFaults crashes, losses and failed calls in a behaviour.               *)
(***************************************************************************)
EXTENDS Naturals, FiniteSets

CONSTANTS
    MaxCredentials,  \* credentials (and CSRs) that can ever exist
    Conns,           \* QUIC connections the Server handles at a time
    NoConn,          \* no connection
    MaxFaults,       \* crashes, lost connections and failed calls
    StoreMayFail     \* may a database call of the Server fail?

ASSUME CredentialAssumption == MaxCredentials \in Nat \ {0}
ASSUME ConnAssumption == NoConn \notin Conns
ASSUME FaultAssumption == MaxFaults \in Nat /\ StoreMayFail \in BOOLEAN

Creds == 1..MaxCredentials

VARIABLES
    cred,        \* agent_credentials: "none", "valid" (revoked_at null), "revoked"
    expired,     \* certificates 1..expired are past their expires_at
    lifecycle,   \* agents.lifecycle_status
    active,      \* agents.active_credential_serial, 0 when null
    cluster,     \* clusters.status
    parent,      \* "active" iff the Project and the Tenant are both active
    secretCert,  \* the certificate in the identity Secret
    secretCsr,   \* the renewal CSR in the identity Secret, 0 when absent
    minted,      \* CSRs generated so far
    phase,       \* where the Agent process is in runConnectionLoop
    held,        \* the certificate the Agent process works with
    sent,        \* the CSR the Agent process asked the Server to sign, or 0
    link,        \* the connection the Agent process is using
    conn,        \* the Server's side of each connection
    current,     \* manager.connections[agent]
    notices,     \* revocations NOTIFYed and not yet handled
    watching,    \* the revocation watch is LISTENing
    faults,      \* faults so far
    mishaps,     \* history: faults the identity's safety depends on
    revokedOnce  \* history: an administrator has revoked the Agent

dbVars == <<cred, expired, lifecycle, active, cluster, parent>>
secretVars == <<secretCert, secretCsr, minted>>
agentVars == <<phase, held, sent, link>>
serverVars == <<conn, current, notices, watching>>
historyVars == <<faults, mishaps, revokedOnce>>
vars == <<dbVars, secretVars, agentVars, serverVars, historyVars>>

Phases == {"down", "dial", "hello", "online", "renewing", "saving", "stopped"}
ConnStates == {"idle", "hello", "activating", "activated", "serving", "closed"}
Replies == {"none", "hello", "renewed", "retry", "permanent"}
Connection ==
    [state: ConnStates, cert: Creds, seen: SUBSET Creds,
     request: 0..MaxCredentials, reply: Replies]
Notice == [kind: {"credential", "agent", "scope"}, cert: 0..MaxCredentials]

Idle == [state |-> "idle", cert |-> 1, seen |-> {}, request |-> 0,
         reply |-> "none"]

-----------------------------------------------------------------------------
(* What the store's statements test.                                        *)

Fresh(k) == k > expired

CredentialUsable(k) == lifecycle # "revoked" /\ cred[k] = "valid" /\ Fresh(k)

\* The valid_agent CTE of Activate.
Activatable(k) ==
    CredentialUsable(k) /\ cluster # "suspended" /\ parent = "active"

\* The WHERE clauses of RecordHeartbeat and RenewCredential.
Serviceable(k) ==
    /\ CredentialUsable(k)
    /\ lifecycle = "active" /\ cluster = "active" /\ parent = "active"

\* classifyAgentConnectionRejection, and the close code each answer turns into.  It
\* reads in a statement of its own; that nothing changes before it does is assumed.
Rejection(k) ==
    IF CredentialUsable(k) /\ (cluster = "suspended" \/ parent = "suspended")
    THEN "retry" ELSE "permanent"

CredentialNotices(S) == [kind: {"credential"}, cert: S]

\* pg_notify reaches whoever is LISTENing when the transaction commits.
Notify(ns) == notices' = IF watching THEN notices \cup ns ELSE notices

Fault == faults < MaxFaults /\ faults' = faults + 1

-----------------------------------------------------------------------------
(* Connections.                                                             *)

\* The connection is closed with an answer that reaches the Agent if it is
\* still there, and its handler returns (which unregisters the session).
Close(c, answer) ==
    /\ conn' = [conn EXCEPT ![c] =
                  IF link = c
                  THEN [Idle EXCEPT !.state = "closed", !.cert = conn[c].cert,
                                    !.reply = answer]
                  ELSE Idle]
    /\ current' = IF current = c THEN NoConn ELSE current

\* The Agent process lets go of its connection.
Leave ==
    /\ link' = NoConn
    /\ conn' = IF link # NoConn /\ conn[link].state = "closed"
               THEN [conn EXCEPT ![link] = Idle] ELSE conn

Init ==
    /\ cred = [k \in Creds |-> IF k = 1 THEN "valid" ELSE "none"]
    /\ expired = 0
    /\ lifecycle = "pending" /\ active = 0
    /\ cluster = "pending" /\ parent = "active"
    /\ secretCert = 1 /\ secretCsr = 0 /\ minted = 1
    /\ phase = "down" /\ held = 1 /\ sent = 0 /\ link = NoConn
    /\ conn = [c \in Conns |-> Idle]
    /\ current = NoConn
    /\ notices = {} /\ watching = TRUE
    /\ faults = 0 /\ mishaps = {} /\ revokedOnce = FALSE

-----------------------------------------------------------------------------
(* The Agent process (pkg/agent).                                           *)

\* Run loads the identity from the Secret; an expired certificate is refused
\* by parseIdentitySecret and the process exits again.
AgentStart ==
    /\ phase \in {"down", "stopped"}
    /\ Fresh(secretCert)
    /\ phase' = "dial" /\ held' = secretCert /\ sent' = 0
    /\ UNCHANGED <<link, dbVars, secretVars, serverVars, historyVars>>

\* The mTLS handshake succeeds only with an unexpired certificate; dialling
\* ends with ClientHello written.
AgentDial(c) ==
    /\ phase = "dial"
    /\ Fresh(held)
    /\ conn[c].state = "idle"
    /\ conn' = [conn EXCEPT ![c] =
                  [Idle EXCEPT !.state = "hello", !.cert = held]]
    /\ phase' = "hello" /\ link' = c
    /\ UNCHANGED <<held, sent, current, notices, watching, dbVars, secretVars,
                   historyVars>>

AgentConnected ==
    /\ phase = "hello" /\ conn[link].reply = "hello"
    /\ phase' = "online"
    /\ conn' = [conn EXCEPT ![link].reply = "none"]
    /\ UNCHANGED <<held, sent, link, current, notices, watching, dbVars,
                   secretVars, historyVars>>

\* GoAway or close code: reconnect, or exit when the answer is permanent.  It
\* is not looked at while CompleteRenewal runs.
AgentClosed ==
    /\ link # NoConn /\ conn[link].state = "closed" /\ phase # "saving"
    /\ phase' = IF conn[link].reply = "permanent" THEN "stopped" ELSE "dial"
    /\ sent' = 0
    /\ Leave
    /\ UNCHANGED <<held, current, notices, watching, dbVars, secretVars,
                   historyVars>>

\* Any transport error or timeout ends runConnection and is retried.
AgentLosesConnection ==
    /\ phase \in {"hello", "online", "renewing"}
    /\ Fault
    /\ phase' = "dial" /\ sent' = 0
    /\ Leave
    /\ UNCHANGED <<held, current, notices, watching, dbVars, secretVars,
                   mishaps, revokedOnce>>

AgentCrash ==
    /\ phase \notin {"down", "stopped"}
    /\ Fault
    /\ phase' = "down" /\ sent' = 0
    /\ Leave
    /\ UNCHANGED <<held, current, notices, watching, dbVars, secretVars,
                   mishaps, revokedOnce>>

\* renewAgentCertificate up to the request: LoadOrCreateRenewalCSR reuses a
\* stored CSR and refuses to run against a Secret it does not recognise.
AgentRequestsRenewal ==
    /\ phase = "online" /\ secretCert = held
    /\ \E k \in Creds :
         /\ k = (IF secretCsr # 0 THEN secretCsr ELSE minted + 1)
         /\ secretCsr' = k
         /\ minted' = IF secretCsr # 0 THEN minted ELSE minted + 1
         /\ sent' = k
         /\ conn' = [conn EXCEPT ![link].request =
                       IF conn[link].state = "serving" THEN k ELSE @]
    /\ phase' = "renewing"
    /\ UNCHANGED <<secretCert, held, link, current, notices, watching, dbVars,
                   historyVars>>

AgentCannotRenew ==
    /\ phase = "online" /\ secretCert # held
    /\ phase' = "dial" /\ sent' = 0
    /\ Leave
    /\ UNCHANGED <<held, current, notices, watching, dbVars, secretVars,
                   historyVars>>

AgentReceivesCertificate ==
    /\ phase = "renewing" /\ conn[link].reply = "renewed"
    /\ phase' = "saving"
    /\ UNCHANGED <<held, sent, link, serverVars, dbVars, secretVars,
                   historyVars>>

\* CompleteRenewal's update of the Secret.
StoreCertificate == secretCert' = sent /\ secretCsr' = 0
CanStoreCertificate ==
    secretCert = held /\ secretCsr = sent /\ Fresh(sent)

\* CompleteRenewal succeeded: reconnect with the new identity.
AgentSaves ==
    /\ phase = "saving" /\ CanStoreCertificate
    /\ StoreCertificate
    /\ held' = sent /\ sent' = 0 /\ phase' = "dial"
    /\ Leave
    /\ UNCHANGED <<minted, current, notices, watching, dbVars, historyVars>>

\* CompleteRenewal returned an error: the process reconnects with the identity
\* it has.  The update may have been applied although its answer was lost.
AgentFailsToSave ==
    /\ phase = "saving"
    /\ \/ /\ ~CanStoreCertificate
          /\ UNCHANGED <<secretVars, historyVars>>
       \/ /\ Fault
          /\ UNCHANGED <<secretVars, mishaps, revokedOnce>>
       \/ /\ Fault /\ CanStoreCertificate
          /\ StoreCertificate
          /\ mishaps' = mishaps \cup {"lost save"}
          /\ UNCHANGED <<minted, revokedOnce>>
    /\ phase' = "dial" /\ sent' = 0
    /\ Leave
    /\ UNCHANGED <<held, current, notices, watching, dbVars>>

-----------------------------------------------------------------------------
(* The Server (pkg/server/agentconn over pkg/server/store).                 *)

\* Faulty: a Cluster no Agent has activated yet is not accepted.
ActivateOnlyActive(c) ==
    /\ conn[c].state = "hello"
    /\ Activatable(conn[c].cert) /\ cluster = "active"
    /\ conn' = [conn EXCEPT ![c].state = "activating",
                            ![c].seen = {k \in Creds : cred[k] = "valid"}]
    /\ UNCHANGED <<current, notices, watching, dbVars, secretVars, agentVars,
                   historyVars>>

\* Activate's statement takes its snapshot and finds the Agent valid.
ActivateSnapshot(c) ==
    /\ conn[c].state = "hello"
    /\ Activatable(conn[c].cert)
    /\ conn' = [conn EXCEPT ![c].state = "activating",
                            ![c].seen = {k \in Creds : cred[k] = "valid"}]
    /\ UNCHANGED <<current, notices, watching, dbVars, secretVars, agentVars,
                   historyVars>>

ActivateRefused(c) ==
    /\ conn[c].state = "hello"
    /\ ~Activatable(conn[c].cert)
    /\ Close(c, Rejection(conn[c].cert))
    /\ UNCHANGED <<notices, watching, dbVars, secretVars, agentVars,
                   historyVars>>

\* Faulty: the presented credential is not excepted.
SupersededAll(c) == {k \in conn[c].seen : cred[k] = "valid"}

\* Faulty: the older credentials are left alone.
SupersededNone(c) == {k \in conn[c].seen : FALSE}

\* The other credentials the statement revokes: those its snapshot saw and
\* that are still un-revoked when their rows are locked.
Superseded(c) ==
    {k \in conn[c].seen : k # conn[c].cert /\ cred[k] = "valid"}

\* Faulty: forgets agents.active_credential_serial.
ActivateKeepsSerial(c) ==
    /\ cred' = [k \in Creds |-> IF k \in Superseded(c) THEN "revoked"
                                ELSE cred[k]]
    /\ lifecycle' = "active"
    /\ active' = IF active = 0 THEN conn[c].cert ELSE active
    /\ cluster' = IF cluster = "suspended" THEN cluster ELSE "active"
    /\ mishaps' = IF link # c THEN mishaps \cup {"stale handshake"} ELSE mishaps
    /\ Notify(CredentialNotices(Superseded(c)))
    /\ UNCHANGED <<expired, parent>>

\* Activate's writes: revoked_credentials, updated_agent and the Cluster.
Activate(c) ==
    /\ cred' = [k \in Creds |-> IF k \in Superseded(c) THEN "revoked"
                                ELSE cred[k]]
    /\ lifecycle' = "active" /\ active' = conn[c].cert
    /\ cluster' = IF cluster = "suspended" THEN cluster ELSE "active"
    /\ mishaps' = IF link # c THEN mishaps \cup {"stale handshake"} ELSE mishaps
    /\ Notify(CredentialNotices(Superseded(c)))
    /\ UNCHANGED <<expired, parent>>

\* The Cluster row is re-checked under its lock: suspended meanwhile, the
\* statement reports no row and the connection is refused, for the suspension
\* unless the certificate has been revoked or has expired meanwhile.
ActivateCommit(c) ==
    /\ conn[c].state = "activating"
    /\ Activate(c)
    /\ IF cluster = "suspended"
       THEN Close(c, IF cred[conn[c].cert] = "valid" /\ Fresh(conn[c].cert)
                     THEN "retry" ELSE "permanent")
       ELSE /\ conn' = [conn EXCEPT ![c].state = "activated",
                                      ![c].seen = {}]
            /\ UNCHANGED current
    /\ UNCHANGED <<faults, revokedOnce, watching, secretVars, agentVars>>

\* Any error of the call, a timeout included, is answered with the
\* authentication close code; the statement may have committed.
ActivateFails(c) ==
    /\ StoreMayFail
    /\ conn[c].state \in {"hello", "activating"}
    /\ Fault
    /\ \/ /\ conn[c].state = "activating"
          /\ Activate(c)
       \/ UNCHANGED <<dbVars, notices, mishaps>>
    /\ Close(c, "permanent")
    /\ UNCHANGED <<revokedOnce, watching, secretVars, agentVars>>

\* register, then ServerHello.  The session it replaces is no longer current.
Register(c) ==
    /\ conn[c].state = "activated"
    /\ conn' = [conn EXCEPT ![c].state = "serving", ![c].reply = "hello"]
    /\ current' = c
    /\ UNCHANGED <<notices, watching, dbVars, secretVars, agentVars,
                   historyVars>>

\* serveControl's read fails: the Agent is gone (or the session was replaced).
SessionEnds(c) ==
    /\ conn[c].state = "serving" /\ link # c
    /\ Close(c, "retry")
    /\ UNCHANGED <<notices, watching, dbVars, secretVars, agentVars,
                   historyVars>>

\* Faulty: heartbeats test the scope only.
HeartbeatRefusedByScope(c) ==
    /\ conn[c].state = "serving"
    /\ cluster # "active" \/ parent # "active"
    /\ Close(c, Rejection(conn[c].cert))
    /\ UNCHANGED <<notices, watching, dbVars, secretVars, agentVars,
                   historyVars>>

\* A persisted heartbeat finds the identity or its scope unusable.  Heartbeats
\* sent before the Agent left may still be read.
HeartbeatRefused(c) ==
    /\ conn[c].state = "serving"
    /\ ~Serviceable(conn[c].cert)
    /\ Close(c, Rejection(conn[c].cert))
    /\ UNCHANGED <<notices, watching, dbVars, secretVars, agentVars,
                   historyVars>>

\* RenewCredential of a CSR, first issue and replay.
Renew(c) ==
    /\ conn[c].state = "serving" /\ conn[c].request # 0
    /\ Serviceable(conn[c].cert)
    /\ LET k == conn[c].request IN
         /\ \/ cred[k] = "none" /\ cred' = [cred EXCEPT ![k] = "valid"]
            \/ cred[k] = "valid" /\ Fresh(k) /\ UNCHANGED cred
    /\ conn' = [conn EXCEPT ![c].request = 0, ![c].reply = "renewed"]
    /\ UNCHANGED <<expired, lifecycle, active, cluster, parent, current,
                   notices, watching, secretVars, agentVars, historyVars>>

RenewRefused(c) ==
    /\ conn[c].state = "serving" /\ conn[c].request # 0
    /\ LET k == conn[c].request IN
         \/ /\ ~Serviceable(conn[c].cert)
            /\ Close(c, Rejection(conn[c].cert))
         \/ /\ Serviceable(conn[c].cert)
            /\ cred[k] = "revoked" \/ (cred[k] = "valid" /\ ~Fresh(k))
            /\ Close(c, "permanent")
    /\ UNCHANGED <<notices, watching, dbVars, secretVars, agentVars,
                   historyVars>>

\* A failed renewal call closes with the internal-error code.
RenewFails(c) ==
    /\ StoreMayFail
    /\ conn[c].state = "serving" /\ conn[c].request # 0
    /\ Fault
    /\ \/ UNCHANGED cred
       \/ /\ Serviceable(conn[c].cert) /\ cred[conn[c].request] = "none"
          /\ cred' = [cred EXCEPT ![conn[c].request] = "valid"]
    /\ Close(c, "retry")
    /\ UNCHANGED <<expired, lifecycle, active, cluster, parent, notices,
                   watching, secretVars, agentVars, mishaps, revokedOnce>>

-----------------------------------------------------------------------------
(* Revocation notices.                                                      *)

Matches(n, c) == n.kind = "credential" => conn[c].cert = n.cert

\* handleRevocation looks only at the registered session.
DeliverNotice(n) ==
    /\ watching /\ n \in notices
    /\ notices' = notices \ {n}
    /\ IF current # NoConn /\ Matches(n, current)
       THEN Close(current, IF n.kind = "scope" THEN "retry" ELSE "permanent")
       ELSE UNCHANGED <<conn, current>>
    /\ UNCHANGED <<watching, dbVars, secretVars, agentVars, historyVars>>

\* The LISTENing connection drops; what is queued for it is lost.
WatchDrops ==
    /\ watching /\ Fault
    /\ watching' = FALSE /\ notices' = {}
    /\ UNCHANGED <<conn, current, dbVars, secretVars, agentVars, mishaps,
                   revokedOnce>>

WatchResumes ==
    /\ ~watching
    /\ watching' = TRUE
    /\ UNCHANGED <<conn, current, notices, dbVars, secretVars, agentVars,
                   historyVars>>

\* A restarted Server has no session and LISTENs before it accepts.
ServerRestarts ==
    /\ Fault
    /\ conn' = [c \in Conns |->
                  IF link = c
                  THEN [Idle EXCEPT !.state = "closed", !.cert = conn[c].cert,
                                    !.reply = "retry"]
                  ELSE Idle]
    /\ current' = NoConn
    /\ notices' = {} /\ watching' = TRUE
    /\ UNCHANGED <<dbVars, secretVars, agentVars, mishaps, revokedOnce>>

-----------------------------------------------------------------------------
(* Administrators and time.                                                 *)

\* Faulty: writes a status that agents_lifecycle_status does not know.
RevokeAgentAsSuspended ==
    /\ lifecycle # "revoked"
    /\ lifecycle' = "suspended"
    /\ revokedOnce' = TRUE
    /\ UNCHANGED <<cred, expired, active, cluster, parent, serverVars,
                   secretVars, agentVars, faults, mishaps>>

\* Faulty: revokes only the credential in use, not the one being rotated in.
RevokeActiveCredential ==
    /\ lifecycle # "revoked"
    /\ lifecycle' = "revoked"
    /\ cred' = [k \in Creds |-> IF k = active THEN "revoked" ELSE cred[k]]
    /\ revokedOnce' = TRUE
    /\ Notify(CredentialNotices({active}) \cup [kind: {"agent"}, cert: {0}])
    /\ UNCHANGED <<expired, active, cluster, parent, conn, current, watching,
                   secretVars, agentVars, faults, mishaps>>

\* AgentManagementStore.Revoke: the Agent and all its credentials.
RevokeAgent ==
    LET valid == {k \in Creds : cred[k] = "valid"} IN
    /\ lifecycle # "revoked"
    /\ lifecycle' = "revoked"
    /\ cred' = [k \in Creds |-> IF k \in valid THEN "revoked" ELSE cred[k]]
    /\ revokedOnce' = TRUE
    /\ Notify(CredentialNotices(valid) \cup [kind: {"agent"}, cert: {0}])
    /\ UNCHANGED <<expired, active, cluster, parent, conn, current, watching,
                   secretVars, agentVars, faults, mishaps>>

\* UpdateCluster: a resumed Cluster is pending until an Agent activates it.
UpdateCluster ==
    /\ parent = "active"
    /\ \/ /\ cluster # "suspended" /\ cluster' = "suspended"
          /\ Notify([kind: {"scope"}, cert: {0}])
       \/ /\ cluster = "suspended" /\ cluster' = "pending"
          /\ UNCHANGED notices
    /\ UNCHANGED <<cred, expired, lifecycle, active, parent, conn, current,
                   watching, secretVars, agentVars, historyVars>>

\* UpdateProject and UpdateTenant.
UpdateParent ==
    /\ \/ /\ parent = "active" /\ parent' = "suspended"
          /\ Notify([kind: {"scope"}, cert: {0}])
       \/ /\ parent = "suspended" /\ parent' = "active"
          /\ UNCHANGED notices
    /\ UNCHANGED <<cred, expired, lifecycle, active, cluster, conn, current,
                   watching, secretVars, agentVars, historyVars>>

\* The oldest unexpired certificate passes its NotAfter.
Expire ==
    /\ expired < MaxCredentials /\ cred[expired + 1] # "none"
    /\ expired' = expired + 1
    /\ UNCHANGED <<cred, lifecycle, active, cluster, parent, secretVars,
                   agentVars, serverVars, historyVars>>

-----------------------------------------------------------------------------
AgentStep ==
    \/ AgentStart
    \/ \E c \in Conns : AgentDial(c)
    \/ AgentConnected
    \/ AgentClosed
    \/ AgentReceivesCertificate
    \/ AgentSaves
    \/ AgentFailsToSave

AgentNext ==
    \/ AgentStep
    \/ AgentLosesConnection
    \/ AgentCrash
    \/ AgentRequestsRenewal
    \/ AgentCannotRenew

ServerStep(c) ==
    \/ ActivateSnapshot(c)
    \/ ActivateRefused(c)
    \/ ActivateCommit(c)
    \/ Register(c)
    \/ SessionEnds(c)
    \/ HeartbeatRefused(c)
    \/ Renew(c)
    \/ RenewRefused(c)

ServerNext ==
    \/ \E c \in Conns : ServerStep(c)
    \/ \E c \in Conns : ActivateFails(c) \/ RenewFails(c)
    \/ \E n \in notices : DeliverNotice(n)
    \/ WatchDrops
    \/ WatchResumes
    \/ ServerRestarts

Environment ==
    \/ RevokeAgent
    \/ UpdateCluster
    \/ UpdateParent
    \/ Expire

Next == AgentNext \/ ServerNext \/ Environment

Spec == Init /\ [][Next]_vars

\* The Agent process and each connection's handler keep running, and the
\* Server reads heartbeats or times out; nothing else is promised.
Fairness ==
    /\ WF_vars(AgentStep)
    /\ \A c \in Conns : WF_vars(ServerStep(c))

FairSpec == Spec /\ Fairness
-----------------------------------------------------------------------------
(* Properties.                                                              *)

\* Every variable stays in its range.
TypeOK ==
    /\ cred \in [Creds -> {"none", "valid", "revoked"}]
    /\ expired \in 0..MaxCredentials
    /\ lifecycle \in {"pending", "active", "revoked"}
    /\ active \in 0..MaxCredentials
    /\ cluster \in {"pending", "active", "suspended"}
    /\ parent \in {"active", "suspended"}
    /\ secretCert \in Creds
    /\ secretCsr \in 0..MaxCredentials
    /\ minted \in Creds
    /\ phase \in Phases
    /\ held \in Creds
    /\ sent \in 0..MaxCredentials
    /\ link \in Conns \cup {NoConn}
    /\ conn \in [Conns -> Connection]
    /\ current \in Conns \cup {NoConn}
    /\ notices \subseteq Notice
    /\ watching \in BOOLEAN
    /\ faults \in 0..MaxFaults
    /\ mishaps \subseteq {"stale handshake", "lost save"}
    /\ revokedOnce \in BOOLEAN

\* Once an administrator has revoked the Agent, none of its credentials is
\* un-revoked, and no renewal in flight ever adds one (Revoke against
\* RenewCredential and Activate).
RevokedAgentHasNoCredential ==
    revokedOnce => \A k \in Creds : cred[k] # "valid"

\* Rotation never takes away the credential in the Agent's Secret: unless an
\* administrator revoked it, the stored certificate is un-revoked whatever
\* crashes, lost answers, renewals and reconnections happened -- except after
\* the two mishaps recorded in mishaps, where Activate ran for a certificate
\* older than the stored one.
KeepsUsableIdentity ==
    mishaps = {} /\ ~revokedOnce => cred[secretCert] = "valid"

\* At most two credentials are un-revoked at a time: the one in use and the
\* one that is replacing it.
AtMostTwoLive ==
    Cardinality({k \in Creds : cred[k] = "valid"}) <= 2

\* agents.active_credential_serial, which the Console reports as the current
\* credential, points at an un-revoked one (barring the same mishaps: two
\* Activate statements that overlap revoke each other's credential).
ActiveSerialIsLive ==
    mishaps = {} /\ ~revokedOnce /\ active # 0 => cred[active] = "valid"

\* Why KeepsUsableIdentity and ActiveSerialIsLive hold: the Agent process works
\* with the stored certificate, its connection presented it, and a certificate
\* on its way to the Secret answers the CSR the process is waiting for.
ProcessMatchesConnection ==
    /\ link = NoConn <=> phase \in {"down", "dial", "stopped"}
    /\ \A c \in Conns :
         conn[c].reply \in {"hello", "renewed"} => conn[c].state = "serving"
    /\ link # NoConn =>
         /\ conn[link].cert = held
         /\ phase \in {"online", "renewing", "saving"} =>
              conn[link].state \in {"serving", "closed"}
         /\ phase \in {"hello", "online"} =>
              conn[link].request = 0 /\ conn[link].reply # "renewed"
         /\ phase = "renewing" => conn[link].request \in {0, sent}
         /\ phase \in {"renewing", "saving"} => sent # 0

ProcessMatchesSecret ==
    mishaps = {} /\ phase \notin {"down", "stopped"} => held = secretCert

AnswerIsLive ==
    /\ mishaps = {} /\ ~revokedOnce
    /\ phase = "saving" \/ (phase = "renewing" /\ conn[link].reply = "renewed")
    => cred[sent] = "valid"

RotationInv ==
    /\ ProcessMatchesConnection
    /\ ProcessMatchesSecret
    /\ AnswerIsLive
    /\ KeepsUsableIdentity
    /\ ActiveSerialIsLive

\* The Server is done with a revoked Agent: from some point on no session of
\* it is registered, even if notices were lost and a handshake was under way.
RevokedAgentIsDisconnected == <>revokedOnce => <>[](current = NoConn)

\* An Agent whose stored credential stays good, in an active scope and with no
\* dead CSR in its Secret, keeps coming back online.
Healthy ==
    /\ Activatable(secretCert)
    /\ held = secretCert \/ phase \in {"down", "stopped"}
    /\ secretCsr # 0 => cred[secretCsr] # "revoked" /\ Fresh(secretCsr)
HealthyAgentReconnects == <>[]Healthy => []<>(phase \notin {"down", "dial", "hello", "stopped"})

\* A CSR that the Server has answered can be answered again: as long as the
\* Agent keeps it in its Secret, the credential issued for it is not revoked.
RenewalCanBeReplayed ==
    secretCsr # 0 /\ ~revokedOnce => cred[secretCsr] # "revoked"

\* An Agent gives up for good only when reconnecting with its identity could
\* never succeed: its credential is revoked or expired, or it was revoked.
StopsOnlyWhenUnusable ==
    [][phase # "stopped" /\ phase' = "stopped" =>
         ~CredentialUsable(held)]_vars

\* An Agent that was revoked stays revoked.
RevocationIsFinal == revokedOnce => lifecycle = "revoked"
=============================================================================
