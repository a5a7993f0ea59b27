---------------------- MODULE CredentialRotationProofs ----------------------
(***************************************************************************)
(* Proofs about CredentialRotation, for every number of credentials,        *)
(* connections and faults.                                                  *)
(***************************************************************************)
EXTENDS CredentialRotation, FiniteSetTheorems, TLAPS

-----------------------------------------------------------------------------
(* Typing.                                                                  *)

\* An idle connection is a connection.
LEMMA IdleType == Idle \in Connection
BY CredentialAssumption DEF Idle, Connection, ConnStates, Replies, Creds

\* Closing a connection leaves the connections well typed.
LEMMA CloseType ==
    ASSUME NEW c \in Conns, NEW answer \in Replies, TypeOK, Close(c, answer)
    PROVE  /\ conn' \in [Conns -> Connection]
           /\ current' \in Conns \cup {NoConn}
<1>1. conn[c].cert \in Creds
  BY DEF TypeOK, Connection
<1>2. [Idle EXCEPT !.state = "closed", !.cert = conn[c].cert,
                   !.reply = answer] \in Connection
  BY <1>1, IdleType DEF Connection, ConnStates
<1> QED
  BY <1>2, IdleType DEF Close, TypeOK

\* So does an Agent that lets go of its connection.
LEMMA LeaveType ==
    ASSUME TypeOK, Leave
    PROVE  /\ conn' \in [Conns -> Connection]
           /\ link' = NoConn
BY IdleType DEF Leave, TypeOK

\* What the rejection classifier answers is a reply.
LEMMA RejectionType == \A k : Rejection(k) \in Replies
BY DEF Rejection, Replies

\* What is NOTIFYed are notices.
LEMMA NotifyType ==
    ASSUME NEW ns \in SUBSET Notice, TypeOK, Notify(ns)
    PROVE  notices' \subseteq Notice
BY DEF Notify, TypeOK

\* Activate's writes are well typed.
LEMMA ActivateType ==
    ASSUME NEW c \in Conns, TypeOK, Activate(c)
    PROVE  /\ cred' \in [Creds -> {"none", "valid", "revoked"}]
           /\ lifecycle' = "active" /\ active' \in Creds
           /\ cluster' \in {"pending", "active", "suspended"}
           /\ mishaps' \subseteq {"stale handshake", "lost save"}
           /\ notices' \subseteq Notice
           /\ UNCHANGED <<expired, parent>>
<1>1. conn[c] \in Connection
  BY DEF TypeOK
<1>2. Superseded(c) \subseteq Creds
  BY <1>1 DEF Superseded, Connection
<1>3. CredentialNotices(Superseded(c)) \subseteq Notice
  BY <1>2, CredentialAssumption DEF CredentialNotices, Notice, Creds
<1>4. notices' \subseteq Notice
  BY <1>3, NotifyType DEF Activate
<1> QED
  BY <1>1, <1>4 DEF Activate, TypeOK, Connection

\* A CSR number is a credential's number or 0.
LEMMA CredsRange ==
    /\ 0 \in 0..MaxCredentials /\ 1 \in Creds
    /\ Creds \subseteq 0..MaxCredentials
BY CredentialAssumption DEF Creds

LEMMA TypeInit == Init => TypeOK
<1> SUFFICES ASSUME Init PROVE TypeOK
  OBVIOUS
<1>1. cred \in [Creds -> {"none", "valid", "revoked"}]
  BY DEF Init
<1>2. conn \in [Conns -> Connection]
  BY IdleType DEF Init
<1>3. faults \in 0..MaxFaults
  BY FaultAssumption DEF Init
<1> QED
  BY <1>1, <1>2, <1>3, CredsRange DEF Init, TypeOK, Phases

\* The faults counted stay within their bound.
LEMMA FaultType == ASSUME TypeOK, Fault PROVE faults' \in 0..MaxFaults
<1>1. faults \in 0..MaxFaults
  BY DEF TypeOK
<1> QED
  BY <1>1, FaultAssumption DEF Fault

\* A certificate that can be stored answers a CSR.
LEMMA SavedCsrType == ASSUME TypeOK, CanStoreCertificate PROVE sent \in Creds
<1>1. sent \in 0..MaxCredentials /\ expired \in 0..MaxCredentials
  BY DEF TypeOK
<1> QED
  BY <1>1, CredentialAssumption DEF CanStoreCertificate, Fresh, Creds

\* Suspending a scope NOTIFYs a well-typed notice.
LEMMA ScopeNoticeType ==
    ASSUME TypeOK, Notify([kind: {"scope"}, cert: {0}])
    PROVE  notices' \subseteq Notice
<1>1. [kind: {"scope"}, cert: {0}] \subseteq Notice
  BY CredsRange DEF Notice
<1> QED
  BY <1>1, NotifyType

\* Every step keeps the variables typed.
LEMMA TypeStep == TypeOK /\ [Next]_vars => TypeOK'
<1> SUFFICES ASSUME TypeOK, [Next]_vars PROVE TypeOK'
  OBVIOUS
<1> USE DEF vars, dbVars, secretVars, agentVars, serverVars, historyVars
<1>1. CASE AgentStart
  BY <1>1, CredsRange DEF AgentStart, TypeOK, Phases
<1>2. ASSUME NEW c \in Conns, AgentDial(c) PROVE TypeOK'
  <2>1. [Idle EXCEPT !.state = "hello", !.cert = held] \in Connection
    <3>1. held \in Creds
      BY DEF TypeOK
    <3> QED
      BY <3>1, IdleType DEF Connection, ConnStates
  <2> QED
    BY <1>2, <2>1 DEF AgentDial, TypeOK, Phases
<1>3. CASE AgentConnected
  <2>1. conn' \in [Conns -> Connection]
    <3>1. conn \in [Conns -> Connection]
      BY DEF TypeOK
    <3>2. link \in Conns => [conn[link] EXCEPT !.reply = "none"] \in Connection
      BY <3>1 DEF Connection, Replies
    <3>3. conn' = [conn EXCEPT ![link] = [conn[link] EXCEPT !.reply = "none"]]
      BY <1>3 DEF AgentConnected
    <3> QED
      BY <3>1, <3>2, <3>3
  <2> QED
    BY <1>3, <2>1 DEF AgentConnected, TypeOK, Phases
<1>4. CASE AgentClosed
  BY <1>4, LeaveType, CredsRange DEF AgentClosed, TypeOK, Phases
<1>5. CASE AgentLosesConnection
  BY <1>5, LeaveType, FaultType, CredsRange DEF AgentLosesConnection, TypeOK, Phases
<1>6. CASE AgentCrash
  BY <1>6, LeaveType, FaultType, CredsRange DEF AgentCrash, TypeOK, Phases
<1>7. CASE AgentRequestsRenewal
  <2>1. PICK k \in Creds :
          /\ k = (IF secretCsr # 0 THEN secretCsr ELSE minted + 1)
          /\ secretCsr' = k
          /\ minted' = IF secretCsr # 0 THEN minted ELSE minted + 1
          /\ sent' = k
          /\ conn' = [conn EXCEPT ![link].request =
                        IF conn[link].state = "serving" THEN k ELSE @]
    BY <1>7 DEF AgentRequestsRenewal
  <2>2. minted' \in Creds /\ secretCsr' \in 0..MaxCredentials
        /\ sent' \in 0..MaxCredentials
    BY <2>1, CredsRange DEF TypeOK
  <2>3. conn' \in [Conns -> Connection]
    <3>1. link \in Conns => conn[link] \in Connection
      BY DEF TypeOK
    <3>2. link \in Conns =>
            [conn[link] EXCEPT
               !.request = IF conn[link].state = "serving" THEN k ELSE @]
              \in Connection
      BY <3>1, CredsRange DEF Connection
    <3> QED
      BY <2>1, <3>2 DEF TypeOK
  <2> QED
    BY <1>7, <2>2, <2>3 DEF AgentRequestsRenewal, TypeOK, Phases
<1>8. CASE AgentCannotRenew
  BY <1>8, LeaveType, CredsRange DEF AgentCannotRenew, TypeOK, Phases
<1>9. CASE AgentReceivesCertificate
  BY <1>9 DEF AgentReceivesCertificate, TypeOK, Phases
<1>10. CASE AgentSaves
  <2>1. sent \in Creds
    BY <1>10, SavedCsrType DEF AgentSaves
  <2> QED
    BY <1>10, <2>1, LeaveType, CredsRange
       DEF AgentSaves, StoreCertificate, TypeOK, Phases
<1>11. CASE AgentFailsToSave
  <2>1. /\ secretCert' \in Creds /\ secretCsr' \in 0..MaxCredentials
        /\ minted' \in Creds
        /\ mishaps' \subseteq {"stale handshake", "lost save"}
        /\ revokedOnce' \in BOOLEAN
    BY <1>11, SavedCsrType, CredsRange
       DEF AgentFailsToSave, StoreCertificate, TypeOK
  <2>2. faults' \in 0..MaxFaults
    BY <1>11, FaultType DEF AgentFailsToSave, TypeOK
  <2>3. conn' \in [Conns -> Connection] /\ link' = NoConn
    BY <1>11, LeaveType DEF AgentFailsToSave
  <2> QED
    BY <1>11, <2>1, <2>2, <2>3, CredsRange
       DEF AgentFailsToSave, TypeOK, Phases
<1>12. ASSUME NEW c \in Conns, ActivateSnapshot(c) PROVE TypeOK'
  <2>1. {k \in Creds : cred[k] = "valid"} \in SUBSET Creds
    OBVIOUS
  <2>2. conn' \in [Conns -> Connection]
    <3>1. conn \in [Conns -> Connection] /\ conn[c] \in Connection
      BY DEF TypeOK
    <3>2. [conn[c] EXCEPT !.state = "activating",
                          !.seen = {k \in Creds : cred[k] = "valid"}]
            \in Connection
      BY <3>1, <2>1 DEF Connection, ConnStates
    <3>3. conn' = [conn EXCEPT ![c] =
                     [conn[c] EXCEPT !.state = "activating",
                                     !.seen = {k \in Creds : cred[k] = "valid"}]]
      BY <1>12, <3>1 DEF ActivateSnapshot
    <3> QED
      BY <3>1, <3>2, <3>3
  <2> QED
    BY <1>12, <2>2 DEF ActivateSnapshot, TypeOK
<1>13. ASSUME NEW c \in Conns, ActivateRefused(c) PROVE TypeOK'
  BY <1>13, CloseType, RejectionType DEF ActivateRefused, TypeOK
<1>14. ASSUME NEW c \in Conns, ActivateCommit(c) PROVE TypeOK'
  <2>1. /\ conn' \in [Conns -> Connection]
        /\ current' \in Conns \cup {NoConn}
    <3>1. CASE cluster = "suspended"
      BY <1>14, <3>1, CloseType DEF ActivateCommit, Replies
    <3>2. CASE cluster # "suspended"
      <4>1. conn[c] \in Connection
        BY DEF TypeOK
      <4>2. [conn[c] EXCEPT !.state = "activated", !.seen = {}] \in Connection
        BY <4>1 DEF Connection, ConnStates
      <4> QED
        BY <1>14, <3>2, <4>2 DEF ActivateCommit, TypeOK
    <3> QED
      BY <3>1, <3>2
  <2> QED
    BY <1>14, <2>1, ActivateType, CredsRange DEF ActivateCommit, TypeOK
<1>15. ASSUME NEW c \in Conns, ActivateFails(c) PROVE TypeOK'
  <2>1. /\ conn' \in [Conns -> Connection]
        /\ current' \in Conns \cup {NoConn}
        /\ faults' \in 0..MaxFaults
    BY <1>15, CloseType, FaultType DEF ActivateFails, Replies
  <2>2. CASE Activate(c)
    BY <1>15, <2>1, <2>2, ActivateType, CredsRange DEF ActivateFails, TypeOK
  <2>3. CASE UNCHANGED <<dbVars, notices, mishaps>>
    BY <1>15, <2>1, <2>3 DEF ActivateFails, TypeOK
  <2> QED
    BY <1>15, <2>2, <2>3 DEF ActivateFails
<1>16. ASSUME NEW c \in Conns, Register(c) PROVE TypeOK'
  <2>1. conn' \in [Conns -> Connection]
    <3>1. conn[c] \in Connection
      BY DEF TypeOK
    <3>2. [conn[c] EXCEPT !.state = "serving", !.reply = "hello"] \in Connection
      BY <3>1 DEF Connection, ConnStates, Replies
    <3> QED
      BY <1>16, <3>2 DEF Register, TypeOK
  <2> QED
    BY <1>16, <2>1 DEF Register, TypeOK
<1>17. ASSUME NEW c \in Conns, SessionEnds(c) PROVE TypeOK'
  BY <1>17, CloseType DEF SessionEnds, TypeOK, Replies
<1>18. ASSUME NEW c \in Conns, HeartbeatRefused(c) PROVE TypeOK'
  BY <1>18, CloseType, RejectionType DEF HeartbeatRefused, TypeOK
<1>19. ASSUME NEW c \in Conns, Renew(c) PROVE TypeOK'
  <2>1. conn' \in [Conns -> Connection]
    <3>1. conn[c] \in Connection
      BY DEF TypeOK
    <3>2. [conn[c] EXCEPT !.request = 0, !.reply = "renewed"] \in Connection
      BY <3>1, CredsRange DEF Connection, Replies
    <3> QED
      BY <1>19, <3>2 DEF Renew, TypeOK
  <2>2. cred' \in [Creds -> {"none", "valid", "revoked"}]
    BY <1>19 DEF Renew, TypeOK
  <2> QED
    BY <1>19, <2>1, <2>2 DEF Renew, TypeOK
<1>20. ASSUME NEW c \in Conns, RenewRefused(c) PROVE TypeOK'
  BY <1>20, CloseType, RejectionType DEF RenewRefused, TypeOK, Replies
<1>21. ASSUME NEW c \in Conns, RenewFails(c) PROVE TypeOK'
  <2>1. cred' \in [Creds -> {"none", "valid", "revoked"}]
    BY <1>21 DEF RenewFails, TypeOK
  <2> QED
    BY <1>21, <2>1, CloseType, FaultType DEF RenewFails, TypeOK, Replies
<1>22. ASSUME NEW n \in notices, DeliverNotice(n) PROVE TypeOK'
  <2>1. notices' \subseteq Notice
    BY <1>22 DEF DeliverNotice, TypeOK
  <2>2. /\ conn' \in [Conns -> Connection]
        /\ current' \in Conns \cup {NoConn}
    <3>1. CASE current # NoConn /\ Matches(n, current)
      <4>1. current \in Conns
        BY <3>1 DEF TypeOK
      <4>2. (IF n.kind = "scope" THEN "retry" ELSE "permanent") \in Replies
        BY DEF Replies
      <4> QED
        BY <1>22, <3>1, <4>1, <4>2, CloseType DEF DeliverNotice
    <3>2. CASE ~(current # NoConn /\ Matches(n, current))
      BY <1>22, <3>2 DEF DeliverNotice, TypeOK
    <3> QED
      BY <3>1, <3>2
  <2> QED
    BY <1>22, <2>1, <2>2 DEF DeliverNotice, TypeOK
<1>23. CASE WatchDrops
  BY <1>23, FaultType DEF WatchDrops, TypeOK
<1>24. CASE WatchResumes
  BY <1>24 DEF WatchResumes, TypeOK
<1>25. CASE ServerRestarts
  <2>1. \A c \in Conns :
          [Idle EXCEPT !.state = "closed", !.cert = conn[c].cert,
                       !.reply = "retry"] \in Connection
    BY IdleType DEF TypeOK, Connection, ConnStates, Replies
  <2>2. conn' \in [Conns -> Connection]
    BY <1>25, <2>1, IdleType DEF ServerRestarts
  <2> QED
    BY <1>25, <2>2, FaultType DEF ServerRestarts, TypeOK
<1>26. CASE RevokeAgent
  <2>1. notices' \subseteq Notice
    <3>1. CredentialNotices({k \in Creds : cred[k] = "valid"})
            \cup [kind: {"agent"}, cert: {0}] \subseteq Notice
      BY CredsRange DEF CredentialNotices, Notice
    <3> QED
      BY <1>26, <3>1, NotifyType DEF RevokeAgent
  <2>2. cred' \in [Creds -> {"none", "valid", "revoked"}]
    BY <1>26 DEF RevokeAgent, TypeOK
  <2> QED
    BY <1>26, <2>1, <2>2 DEF RevokeAgent, TypeOK
<1>27. CASE UpdateCluster
  <2>1. notices' \subseteq Notice
    BY <1>27, ScopeNoticeType DEF UpdateCluster, TypeOK
  <2> QED
    BY <1>27, <2>1 DEF UpdateCluster, TypeOK
<1>28. CASE UpdateParent
  <2>1. notices' \subseteq Notice
    BY <1>28, ScopeNoticeType DEF UpdateParent, TypeOK
  <2> QED
    BY <1>28, <2>1 DEF UpdateParent, TypeOK
<1>29. CASE Expire
  <2>1. expired' \in 0..MaxCredentials
    <3>1. expired \in 0..MaxCredentials
      BY DEF TypeOK
    <3> QED
      BY <1>29, <3>1, CredentialAssumption DEF Expire
  <2> QED
    BY <1>29, <2>1 DEF Expire, TypeOK
<1>30. CASE UNCHANGED vars
  BY <1>30 DEF TypeOK
<1> QED
  BY <1>1, <1>2, <1>3, <1>4, <1>5, <1>6, <1>7, <1>8, <1>9, <1>10, <1>11,
     <1>12, <1>13, <1>14, <1>15, <1>16, <1>17, <1>18, <1>19, <1>20, <1>21,
     <1>22, <1>23, <1>24, <1>25, <1>26, <1>27, <1>28, <1>29, <1>30
     DEF Next, AgentNext, AgentStep, ServerNext, ServerStep, Environment

\* Type correctness of the rotation specification.
THEOREM TypeCorrect == Spec => []TypeOK
<1>1. Init => TypeOK
  BY TypeInit
<1>2. TypeOK /\ [Next]_vars => TypeOK'
  BY TypeStep
<1> QED
  BY <1>1, <1>2, PTL DEF Spec

-----------------------------------------------------------------------------
(* A revoked Agent has no credential.                                       *)

\* Activate only ever revokes credentials.
LEMMA ActivateRevokes ==
    ASSUME NEW c \in Conns, TypeOK, Activate(c)
    PROVE  \A k \in Creds : cred'[k] = "valid" => cred[k] = "valid"
BY DEF Activate, TypeOK

LEMMA RevokedStep ==
    TypeOK /\ RevokedAgentHasNoCredential /\ [Next]_vars
      => RevokedAgentHasNoCredential'
<1> SUFFICES ASSUME TypeOK, RevokedAgentHasNoCredential, [Next]_vars
             PROVE  RevokedAgentHasNoCredential'
  OBVIOUS
<1> USE DEF RevokedAgentHasNoCredential, vars, dbVars, secretVars, agentVars,
            serverVars, historyVars
<1>1. CASE AgentNext
  BY <1>1 DEF AgentNext, AgentStep, AgentStart, AgentDial, AgentConnected,
     AgentClosed, AgentReceivesCertificate, AgentSaves, AgentLosesConnection,
     AgentCrash, AgentRequestsRenewal, AgentCannotRenew, AgentFailsToSave
<1>2. ASSUME NEW c \in Conns, ActivateCommit(c) \/ ActivateFails(c)
      PROVE  RevokedAgentHasNoCredential'
  BY <1>2, ActivateRevokes DEF ActivateCommit, ActivateFails
<1>3. ASSUME NEW c \in Conns, Renew(c) \/ RenewFails(c)
      PROVE  RevokedAgentHasNoCredential'
  \* A renewal is served only to a credential that is itself un-revoked.
  <2>1. conn[c].cert \in Creds
    BY DEF TypeOK, Connection
  <2>2. Serviceable(conn[c].cert) => ~revokedOnce
    BY <2>1 DEF Serviceable, CredentialUsable
  <2> QED
    BY <1>3, <2>2 DEF Renew, RenewFails
<1>4. ASSUME NEW c \in Conns,
             \/ ActivateSnapshot(c) \/ ActivateRefused(c) \/ Register(c)
             \/ SessionEnds(c) \/ HeartbeatRefused(c) \/ RenewRefused(c)
      PROVE  RevokedAgentHasNoCredential'
  BY <1>4 DEF ActivateSnapshot, ActivateRefused, Register, SessionEnds,
     HeartbeatRefused, RenewRefused
<1>5. ASSUME NEW n \in notices, DeliverNotice(n)
      PROVE  RevokedAgentHasNoCredential'
  BY <1>5 DEF DeliverNotice
<1>6. CASE WatchDrops \/ WatchResumes \/ ServerRestarts
  BY <1>6 DEF WatchDrops, WatchResumes, ServerRestarts
<1>7. CASE RevokeAgent
  BY <1>7 DEF RevokeAgent
<1>8. CASE UpdateCluster \/ UpdateParent \/ Expire
  BY <1>8 DEF UpdateCluster, UpdateParent, Expire
<1>9. CASE UNCHANGED vars
  BY <1>9
<1> QED
  BY <1>1, <1>2, <1>3, <1>4, <1>5, <1>6, <1>7, <1>8, <1>9
     DEF Next, ServerNext, ServerStep, Environment

\* However revocation, renewals and activations interleave, no un-revoked
\* credential of a revoked Agent survives or appears.
THEOREM RevokedForGood == Spec => []RevokedAgentHasNoCredential
<1>1. Init => RevokedAgentHasNoCredential
  BY DEF Init, RevokedAgentHasNoCredential
<1>2. TypeOK /\ RevokedAgentHasNoCredential /\ [Next]_vars
        => RevokedAgentHasNoCredential'
  BY RevokedStep
<1> QED
  BY <1>1, <1>2, TypeCorrect, PTL DEF Spec

-----------------------------------------------------------------------------
(* The stored identity survives rotation: RotationInv is inductive.         *)

\* Letting go of a connection leaves the process without one.
LEMMA LeaveMatches ==
    ASSUME TypeOK, ProcessMatchesConnection, Leave,
           phase' \in {"down", "dial", "stopped"}
    PROVE  ProcessMatchesConnection'
<1>1. \A c \in Conns : conn'[c] = conn[c] \/ conn'[c] = Idle
  BY DEF Leave, TypeOK
<1>2. link' = NoConn
  BY DEF Leave
<1> QED
  BY <1>1, <1>2 DEF ProcessMatchesConnection, Idle

\* A connection that closes answers neither hello nor a certificate, and
\* remembers the certificate it presented.
LEMMA CloseMatches ==
    ASSUME TypeOK, ProcessMatchesConnection, UNCHANGED agentVars,
           NEW c \in Conns, NEW answer \in {"retry", "permanent"},
           Close(c, answer)
    PROVE  /\ ProcessMatchesConnection'
           /\ \A d \in Conns : conn'[d].reply = "renewed"
                                => conn[d].reply = "renewed"
<1>1. \A d \in Conns \ {c} : conn'[d] = conn[d]
  BY DEF Close, TypeOK
<1>2. /\ conn'[c].reply \notin {"hello", "renewed"}
      /\ conn'[c].request = 0
      /\ link = c => /\ conn'[c].state = "closed"
                     /\ conn'[c].cert = conn[c].cert
  BY DEF Close, TypeOK, Idle
<1>3. ProcessMatchesConnection'
  BY <1>1, <1>2 DEF ProcessMatchesConnection, TypeOK, agentVars
<1> QED
  BY <1>1, <1>2, <1>3

\* The rejection classifier closes with one of two codes.
LEMMA RejectionCloses == \A k : Rejection(k) \in {"retry", "permanent"}
BY DEF Rejection

\* The process and its connection agree after every step.
LEMMA ConnectionStep ==
    TypeOK /\ ProcessMatchesConnection /\ [Next]_vars
      => ProcessMatchesConnection'
<1> SUFFICES ASSUME TypeOK, ProcessMatchesConnection, [Next]_vars
             PROVE  ProcessMatchesConnection'
  OBVIOUS
<1> USE DEF vars, dbVars, secretVars, agentVars, serverVars, historyVars
<1>0. link \in Conns \cup {NoConn}
  BY DEF TypeOK
<1>1. CASE AgentStart
  BY <1>1 DEF AgentStart, ProcessMatchesConnection
<1>2. ASSUME NEW c \in Conns, AgentDial(c) PROVE ProcessMatchesConnection'
  <2>1. \A d \in Conns \ {c} : conn'[d] = conn[d]
    BY <1>2 DEF AgentDial, TypeOK
  <2>2. conn'[c].cert = held /\ conn'[c].request = 0 /\ conn'[c].reply = "none"
    BY <1>2 DEF AgentDial, TypeOK, Idle
  <2> QED
    BY <1>2, <2>1, <2>2, ConnAssumption
       DEF AgentDial, ProcessMatchesConnection
<1>3. CASE AgentConnected
  <2>1. link \in Conns /\ conn[link].state = "serving"
    BY <1>3 DEF AgentConnected, ProcessMatchesConnection, TypeOK
  <2>2. \A d \in Conns \ {link} : conn'[d] = conn[d]
    BY <1>3 DEF AgentConnected, TypeOK
  <2>3. /\ conn'[link].cert = conn[link].cert
        /\ conn'[link].state = conn[link].state
        /\ conn'[link].request = conn[link].request
        /\ conn'[link].reply = "none"
    BY <1>3, <2>1 DEF AgentConnected, TypeOK, Connection
  <2> QED
    BY <1>3, <2>1, <2>2, <2>3 DEF AgentConnected, ProcessMatchesConnection
<1>4. CASE AgentClosed \/ AgentLosesConnection \/ AgentCrash
           \/ AgentCannotRenew \/ AgentSaves \/ AgentFailsToSave
  BY <1>4, LeaveMatches DEF AgentClosed, AgentLosesConnection, AgentCrash,
     AgentCannotRenew, AgentSaves, AgentFailsToSave
<1>5. CASE AgentRequestsRenewal
  <2>1. link \in Conns
    BY <1>5 DEF AgentRequestsRenewal, ProcessMatchesConnection, TypeOK
  <2>0. sent' # 0
    BY <1>5 DEF AgentRequestsRenewal, Creds
  <2>2. \A d \in Conns \ {link} : conn'[d] = conn[d]
    BY <1>5 DEF AgentRequestsRenewal, TypeOK
  <2>3. /\ conn'[link].cert = conn[link].cert
        /\ conn'[link].state = conn[link].state
        /\ conn'[link].request \in {conn[link].request, sent'}
        /\ conn'[link].reply = conn[link].reply
    <3>1. conn[link] \in Connection
      BY <2>1 DEF TypeOK
    <3>2. conn'[link] =
            [conn[link] EXCEPT
               !.request = IF conn[link].state = "serving" THEN sent' ELSE @]
      BY <1>5, <2>1 DEF AgentRequestsRenewal, TypeOK
    <3> QED
      BY <3>1, <3>2 DEF Connection
  <2> QED
    BY <1>5, <2>0, <2>1, <2>2, <2>3
       DEF AgentRequestsRenewal, ProcessMatchesConnection
<1>6. CASE AgentReceivesCertificate
  BY <1>6 DEF AgentReceivesCertificate, ProcessMatchesConnection
<1>7. ASSUME NEW c \in Conns, ActivateSnapshot(c)
      PROVE  ProcessMatchesConnection'
  <2>1. \A d \in Conns \ {c} : conn'[d] = conn[d]
    BY <1>7 DEF ActivateSnapshot, TypeOK
  <2>2. /\ conn'[c].cert = conn[c].cert /\ conn'[c].request = conn[c].request
        /\ conn'[c].reply = conn[c].reply
    BY <1>7 DEF ActivateSnapshot, TypeOK, Connection
  <2>3. conn[c].state = "hello" /\ UNCHANGED <<phase, held, sent, link>>
    BY <1>7 DEF ActivateSnapshot
  <2> QED
    BY <1>0, <2>1, <2>2, <2>3 DEF ProcessMatchesConnection
<1>8. ASSUME NEW c \in Conns, ActivateCommit(c) PROVE ProcessMatchesConnection'
  <2>1. CASE cluster = "suspended"
    BY <1>8, <2>1, CloseMatches DEF ActivateCommit
  <2>2. CASE cluster # "suspended"
    <3>1. \A d \in Conns \ {c} : conn'[d] = conn[d]
      BY <1>8, <2>2 DEF ActivateCommit, TypeOK
    <3>2. /\ conn'[c].cert = conn[c].cert
          /\ conn'[c].request = conn[c].request
          /\ conn'[c].reply = conn[c].reply
      <4>1. conn[c] \in Connection
        BY DEF TypeOK
      <4>2. conn'[c] = [conn[c] EXCEPT !.state = "activated", !.seen = {}]
        BY <1>8, <2>2 DEF ActivateCommit, TypeOK
      <4> QED
        BY <4>1, <4>2 DEF Connection
    <3>3. /\ conn[c].state = "activating"
          /\ UNCHANGED <<phase, held, sent, link>>
      BY <1>8 DEF ActivateCommit
    <3> QED
      BY <1>0, <3>1, <3>2, <3>3 DEF ProcessMatchesConnection
  <2> QED
    BY <2>1, <2>2
<1>9. ASSUME NEW c \in Conns, Register(c) PROVE ProcessMatchesConnection'
  <2>1. \A d \in Conns \ {c} : conn'[d] = conn[d]
    BY <1>9 DEF Register, TypeOK
  <2>2. /\ conn'[c].cert = conn[c].cert /\ conn'[c].request = conn[c].request
        /\ conn'[c].state = "serving" /\ conn'[c].reply = "hello"
    BY <1>9 DEF Register, TypeOK, Connection
  <2>3. conn[c].state = "activated" /\ UNCHANGED <<phase, held, sent, link>>
    BY <1>9 DEF Register
  <2> QED
    BY <1>0, <2>1, <2>2, <2>3 DEF ProcessMatchesConnection
<1>10. ASSUME NEW c \in Conns, Renew(c) PROVE ProcessMatchesConnection'
  <2>1. \A d \in Conns \ {c} : conn'[d] = conn[d]
    BY <1>10 DEF Renew, TypeOK
  <2>2. /\ conn'[c].cert = conn[c].cert /\ conn'[c].state = "serving"
        /\ conn'[c].request = 0 /\ conn'[c].reply = "renewed"
    <3>1. conn \in [Conns -> Connection] /\ conn[c] \in Connection
      BY DEF TypeOK
    <3>2. /\ conn[c].state = "serving"
          /\ conn' = [conn EXCEPT ![c] = [conn[c] EXCEPT !.request = 0,
                                                       !.reply = "renewed"]]
      BY <1>10, <3>1 DEF Renew
    <3> QED
      BY <3>1, <3>2 DEF Connection
  <2>3. conn[c].state = "serving" /\ conn[c].request # 0 /\ UNCHANGED <<phase, held, sent, link>>
    BY <1>10 DEF Renew
  <2> QED
    BY <1>0, <2>1, <2>2, <2>3 DEF ProcessMatchesConnection
<1>11. ASSUME NEW c \in Conns,
              \/ ActivateRefused(c) \/ ActivateFails(c) \/ SessionEnds(c)
              \/ HeartbeatRefused(c) \/ RenewRefused(c) \/ RenewFails(c)
       PROVE  ProcessMatchesConnection'
  BY <1>11, CloseMatches, RejectionCloses
     DEF ActivateRefused, ActivateFails, SessionEnds, HeartbeatRefused,
         RenewRefused, RenewFails
<1>12. ASSUME NEW n \in notices, DeliverNotice(n)
       PROVE  ProcessMatchesConnection'
  <2>1. CASE current # NoConn /\ Matches(n, current)
    <3>1. current \in Conns
      BY <2>1 DEF TypeOK
    <3> QED
      BY <1>12, <2>1, <3>1, CloseMatches DEF DeliverNotice
  <2>2. CASE ~(current # NoConn /\ Matches(n, current))
    BY <1>12, <2>2 DEF DeliverNotice, ProcessMatchesConnection
  <2> QED
    BY <2>1, <2>2
<1>13. CASE ServerRestarts
  <2>1. \A c \in Conns :
          /\ conn'[c].reply \notin {"hello", "renewed"}
          /\ conn'[c].request = 0
          /\ link = c => /\ conn'[c].state = "closed"
                         /\ conn'[c].cert = conn[c].cert
    BY <1>13 DEF ServerRestarts, TypeOK, Idle
  <2> QED
    BY <1>13, <2>1 DEF ServerRestarts, ProcessMatchesConnection, TypeOK
<1>14. CASE \/ WatchDrops \/ WatchResumes \/ RevokeAgent \/ UpdateCluster
            \/ UpdateParent \/ Expire \/ UNCHANGED vars
  BY <1>14 DEF WatchDrops, WatchResumes, RevokeAgent, UpdateCluster,
     UpdateParent, Expire, ProcessMatchesConnection
<1> QED
  BY <1>1, <1>2, <1>3, <1>4, <1>5, <1>6, <1>7, <1>8, <1>9, <1>10, <1>11,
     <1>12, <1>13, <1>14
     DEF Next, AgentNext, AgentStep, ServerNext, ServerStep, Environment

\* The Server and the administrators never touch the process or its Secret,
\* and what has gone wrong is not forgotten.
LEMMA ServerLeavesAgent ==
    ASSUME ServerNext \/ Environment
    PROVE  UNCHANGED <<agentVars, secretVars>> /\ (mishaps' = {} => mishaps = {})
BY DEF ServerNext, ServerStep, Environment, ActivateSnapshot, ActivateRefused,
   ActivateCommit, ActivateFails, Activate, Register, SessionEnds,
   HeartbeatRefused, Renew, RenewRefused, RenewFails, DeliverNotice, WatchDrops,
   WatchResumes, ServerRestarts, RevokeAgent, UpdateCluster, UpdateParent,
   Expire, historyVars

\* The process works with the stored certificate after every step.
LEMMA SecretStep ==
    TypeOK /\ ProcessMatchesConnection /\ ProcessMatchesSecret /\ [Next]_vars
      => ProcessMatchesSecret'
<1> SUFFICES ASSUME TypeOK, ProcessMatchesConnection, ProcessMatchesSecret,
                    [Next]_vars
             PROVE  ProcessMatchesSecret'
  OBVIOUS
<1> USE DEF ProcessMatchesSecret, vars, secretVars, agentVars, historyVars
<1>1. CASE AgentStart \/ \E c \in Conns : AgentDial(c)
  BY <1>1 DEF AgentStart, AgentDial
<1>2. CASE AgentConnected \/ AgentReceivesCertificate \/ AgentRequestsRenewal
           \/ AgentCannotRenew \/ AgentLosesConnection \/ AgentCrash
  BY <1>2 DEF AgentConnected, AgentReceivesCertificate, AgentRequestsRenewal,
     AgentCannotRenew, AgentLosesConnection, AgentCrash
<1>3. CASE AgentClosed
  BY <1>3 DEF AgentClosed, ProcessMatchesConnection
<1>4. CASE AgentSaves
  BY <1>4 DEF AgentSaves, StoreCertificate
<1>5. CASE AgentFailsToSave
  BY <1>5 DEF AgentFailsToSave
<1>6. CASE ServerNext \/ Environment
  BY <1>6, ServerLeavesAgent
<1>7. CASE UNCHANGED vars
  BY <1>7
<1> QED
  BY <1>1, <1>2, <1>3, <1>4, <1>5, <1>6, <1>7 DEF Next, AgentNext, AgentStep

\* A certificate is on its way to the Secret.
Awaited == \/ phase = "saving"
           \/ phase = "renewing" /\ conn[link].reply = "renewed"

LiveInv == AnswerIsLive /\ KeepsUsableIdentity /\ ActiveSerialIsLive

\* The active serial is null or a credential.
LEMMA ActiveType == ASSUME TypeOK PROVE active # 0 => active \in Creds
<1>1. active \in 0..MaxCredentials
  BY DEF TypeOK
<1> QED
  BY <1>1, CredentialAssumption DEF Creds

\* Steps that revoke nothing, point at nothing new and answer nothing.
LEMMA NothingRevoked ==
    ASSUME TypeOK, LiveInv,
           \A k \in Creds : cred[k] = "valid" => cred'[k] = "valid",
           UNCHANGED <<active, secretCert>>,
           mishaps' = {} => mishaps = {},
           revokedOnce => revokedOnce',
           Awaited' => Awaited /\ sent' = sent,
           Awaited => sent \in Creds
    PROVE  LiveInv'
<1>1. secretCert \in Creds
  BY DEF TypeOK
<1>2. active # 0 => active \in Creds
  BY ActiveType
<1> QED
  BY <1>1, <1>2 DEF LiveInv, AnswerIsLive, KeepsUsableIdentity,
     ActiveSerialIsLive, Awaited

\* Activate on the Agent's own connection keeps the stored certificate; on
\* any other it is a recorded mishap.
LEMMA ActivateLive ==
    ASSUME TypeOK, LiveInv, ProcessMatchesConnection, ProcessMatchesSecret,
           NEW c \in Conns, Activate(c),
           conn[c].state \in {"hello", "activating"},
           UNCHANGED <<secretCert, revokedOnce>>,
           Awaited' => Awaited /\ link = link' /\ sent' = sent
    PROVE  LiveInv'
<1>1. CASE link # c
  BY <1>1 DEF Activate, LiveInv, AnswerIsLive, KeepsUsableIdentity,
     ActiveSerialIsLive
<1>2. CASE link = c
  <2>1. link # NoConn
    BY <1>2, ConnAssumption
  <2>2. conn[c].cert = held /\ held \in Creds
    BY <1>2, <2>1 DEF ProcessMatchesConnection, TypeOK
  <2>3. ~Awaited /\ phase \notin {"down", "stopped"}
    BY <1>2, <2>1 DEF ProcessMatchesConnection, Awaited
  <2>4. mishaps' = {} => mishaps = {} /\ held = secretCert
    BY <2>3 DEF Activate, ProcessMatchesSecret
  <2>5. active' = conn[c].cert
    BY DEF Activate
  <2>6. cred'[held] = cred[held]
    BY <2>2 DEF Activate, Superseded
  <2> QED
    BY <2>2, <2>3, <2>4, <2>5, <2>6 DEF LiveInv, AnswerIsLive,
       KeepsUsableIdentity, ActiveSerialIsLive, Awaited
<1> QED
  BY <1>1, <1>2

\* An awaited certificate answers a CSR.
LEMMA AwaitedType ==
    ASSUME TypeOK, ProcessMatchesConnection, Awaited PROVE sent \in Creds
<1>1. sent \in 0..MaxCredentials
  BY DEF TypeOK
<1>2. sent # 0
  BY DEF ProcessMatchesConnection, Awaited
<1> QED
  BY <1>1, <1>2, CredentialAssumption DEF Creds

\* The stored, the awaited and the active credential stay un-revoked.
LEMMA LiveStep ==
    TypeOK /\ RotationInv /\ [Next]_vars => LiveInv'
<1> SUFFICES ASSUME TypeOK, RotationInv, [Next]_vars PROVE LiveInv'
  OBVIOUS
<1>0. LiveInv /\ ProcessMatchesConnection /\ ProcessMatchesSecret
  BY DEF RotationInv, LiveInv
<1> USE DEF vars, dbVars, secretVars, agentVars, serverVars, historyVars
<1>1. CASE AgentSaves
  <2>1. sent \in Creds /\ Awaited
    BY <1>1, SavedCsrType DEF AgentSaves, Awaited
  <2>2. mishaps = {} /\ ~revokedOnce => cred[sent] = "valid"
    BY <1>0, <2>1 DEF LiveInv, AnswerIsLive, Awaited
  <2> QED
    BY <1>0, <1>1, <2>2 DEF AgentSaves, StoreCertificate, LiveInv, AnswerIsLive,
       KeepsUsableIdentity, ActiveSerialIsLive
<1>2. CASE AgentFailsToSave
  <2>1. CASE UNCHANGED secretVars
    <3>1. ~Awaited'
      BY <1>2 DEF AgentFailsToSave, Awaited
    <3>2. /\ UNCHANGED <<cred, active, secretCert, revokedOnce>>
          /\ mishaps' = {} => mishaps = {}
      BY <1>2, <2>1 DEF AgentFailsToSave
    <3> QED
      BY <1>0, <3>1, <3>2, AwaitedType, NothingRevoked
  <2>2. CASE mishaps' # {}
    BY <1>2, <2>2 DEF LiveInv, AnswerIsLive, KeepsUsableIdentity,
       ActiveSerialIsLive
  <2> QED
    BY <1>2, <2>1, <2>2 DEF AgentFailsToSave
<1>3. CASE \/ AgentStart \/ (\E c \in Conns : AgentDial(c))
           \/ AgentConnected \/ AgentClosed \/ AgentLosesConnection
           \/ AgentCrash \/ AgentRequestsRenewal \/ AgentCannotRenew
           \/ AgentReceivesCertificate
  <2>1. Awaited' => Awaited /\ sent' = sent
    <3>1. CASE AgentRequestsRenewal
      \* The connection has not answered a CSR that was not sent.
      <4>1. link \in Conns /\ conn[link].reply # "renewed"
        BY <1>0, <3>1 DEF AgentRequestsRenewal, ProcessMatchesConnection, TypeOK
      <4>2. conn'[link].reply = conn[link].reply
        <5>1. conn[link] \in Connection
          BY <4>1 DEF TypeOK
        <5>2. \E k \in Creds :
                conn'[link] =
                  [conn[link] EXCEPT
                     !.request = IF conn[link].state = "serving" THEN k ELSE @]
          BY <3>1, <4>1 DEF AgentRequestsRenewal, TypeOK
        <5> QED
          BY <5>1, <5>2 DEF Connection
      <4> QED
        BY <3>1, <4>1, <4>2 DEF AgentRequestsRenewal, Awaited
    <3>2. CASE ~AgentRequestsRenewal
      BY <1>3, <3>2 DEF AgentStart, AgentDial, AgentConnected, AgentClosed,
         AgentLosesConnection, AgentCrash, AgentCannotRenew,
         AgentReceivesCertificate, Awaited
    <3> QED
      BY <3>1, <3>2
  <2>2. UNCHANGED <<cred, active, secretCert, mishaps, revokedOnce>>
    BY <1>3 DEF AgentStart, AgentDial, AgentConnected, AgentClosed,
       AgentLosesConnection, AgentCrash, AgentRequestsRenewal, AgentCannotRenew,
       AgentReceivesCertificate
  <2> QED
    BY <1>0, <2>1, <2>2, AwaitedType, NothingRevoked
<1>4. ASSUME NEW c \in Conns,
             \/ ActivateRefused(c) \/ SessionEnds(c) \/ HeartbeatRefused(c)
             \/ RenewRefused(c) \/ RenewFails(c)
             \/ ActivateFails(c) /\ UNCHANGED <<dbVars, notices, mishaps>>
      PROVE  LiveInv'
  <2>1. PICK answer \in {"retry", "permanent"} : Close(c, answer)
    BY <1>4, RejectionCloses DEF ActivateRefused, SessionEnds,
       HeartbeatRefused, RenewRefused, RenewFails, ActivateFails
  <2>2. UNCHANGED <<agentVars, active, secretCert, mishaps, revokedOnce>>
    BY <1>4 DEF ActivateRefused, SessionEnds,
       HeartbeatRefused, RenewRefused, RenewFails, ActivateFails
  <2>3. \A k \in Creds : cred[k] = "valid" => cred'[k] = "valid"
    BY <1>4 DEF ActivateRefused, SessionEnds, TypeOK,
       HeartbeatRefused, RenewRefused, RenewFails, ActivateFails
  <2>4. Awaited' => Awaited
    BY <1>0, <2>1, <2>2, CloseMatches
       DEF Awaited, ProcessMatchesConnection, TypeOK
  <2> QED
    BY <1>0, <2>2, <2>3, <2>4, AwaitedType, NothingRevoked
<1>5. ASSUME NEW c \in Conns, ActivateSnapshot(c) \/ Register(c)
      PROVE  LiveInv'
  <2>1. \A d \in Conns : conn'[d].reply = "renewed" => conn[d].reply = "renewed"
    <3>1. \A d \in Conns \ {c} : conn'[d] = conn[d]
      BY <1>5 DEF ActivateSnapshot, Register, TypeOK
    <3>2. conn'[c].reply \in {conn[c].reply, "hello"}
      <4>1. conn[c] \in Connection
        BY DEF TypeOK
      <4>2. CASE ActivateSnapshot(c)
        BY <4>1, <4>2 DEF ActivateSnapshot, TypeOK, Connection
      <4>3. CASE Register(c)
        BY <4>1, <4>3 DEF Register, TypeOK, Connection
      <4> QED
        BY <1>5, <4>2, <4>3
    <3> QED
      BY <3>1, <3>2
  <2>2. UNCHANGED <<agentVars, cred, active, secretCert, mishaps, revokedOnce>>
    BY <1>5 DEF ActivateSnapshot, Register
  <2>3. Awaited' => Awaited
    BY <1>0, <2>1, <2>2 DEF Awaited, ProcessMatchesConnection, TypeOK
  <2> QED
    BY <1>0, <2>2, <2>3, AwaitedType, NothingRevoked
<1>6. ASSUME NEW c \in Conns,
             \/ ActivateCommit(c)
             \/ /\ ActivateFails(c) /\ conn[c].state = "activating"
                /\ Activate(c)
      PROVE  LiveInv'
  <2>1. /\ Activate(c) /\ conn[c].state = "activating"
        /\ UNCHANGED <<agentVars, secretCert, revokedOnce>>
    BY <1>6 DEF ActivateCommit, ActivateFails
  <2>2. \A d \in Conns : conn'[d].reply = "renewed" => conn[d].reply = "renewed"
    <3>1. CASE \E answer \in {"retry", "permanent"} : Close(c, answer)
      BY <1>0, <2>1, <3>1, CloseMatches
    <3>2. CASE conn' = [conn EXCEPT ![c].state = "activated", ![c].seen = {}]
      BY <3>2 DEF TypeOK, Connection
    <3> QED
      BY <1>6, <3>1, <3>2 DEF ActivateCommit, ActivateFails
  <2>3. Awaited' => Awaited
    BY <1>0, <2>1, <2>2 DEF Awaited, ProcessMatchesConnection, TypeOK
  <2> QED
    BY <1>0, <2>1, <2>3, ActivateLive
<1>7. ASSUME NEW c \in Conns, Renew(c) PROVE LiveInv'
  <2>1. /\ \A k \in Creds : cred[k] = "valid" => cred'[k] = "valid"
        /\ conn[c].request \in Creds /\ cred'[conn[c].request] = "valid"
    <3>1. conn[c].request \in Creds
      <4>1. conn[c] \in Connection /\ conn[c].request # 0
        BY <1>7 DEF Renew, TypeOK
      <4>2. conn[c].request \in 0..MaxCredentials
        BY <4>1 DEF Connection
      <4> QED
        BY <4>1, <4>2, CredentialAssumption DEF Creds
    <3> QED
      BY <1>7, <3>1 DEF Renew, TypeOK
  <2>2. UNCHANGED <<agentVars, active, secretCert, mishaps, revokedOnce>>
    BY <1>7 DEF Renew
  <2>3. CASE link = c
    \* The answer on the process's own connection is for the CSR it sent.
    <3>1. Awaited' => phase = "saving" \/ conn[c].request = sent
      BY <1>0, <1>7, <2>2, <2>3, ConnAssumption
         DEF Renew, Awaited, ProcessMatchesConnection
    <3>2. Awaited' /\ mishaps' = {} /\ ~revokedOnce' => cred'[sent] = "valid"
      BY <1>0, <2>1, <2>2, <3>1, AwaitedType DEF LiveInv, AnswerIsLive, Awaited
    <3>3. (KeepsUsableIdentity /\ ActiveSerialIsLive)'
      BY <1>0, <2>1, <2>2, ActiveType
         DEF LiveInv, KeepsUsableIdentity, ActiveSerialIsLive, TypeOK
    <3> QED
      BY <2>2, <3>2, <3>3 DEF LiveInv, AnswerIsLive, Awaited
  <2>4. CASE link # c
    <3>1. Awaited' => Awaited
      BY <1>7, <2>2, <2>4, <1>0
         DEF Renew, Awaited, ProcessMatchesConnection, TypeOK
    <3> QED
      BY <1>0, <2>1, <2>2, <3>1, AwaitedType, NothingRevoked
  <2> QED
    BY <2>3, <2>4
<1>8. ASSUME NEW n \in notices, DeliverNotice(n) PROVE LiveInv'
  <2>1. UNCHANGED <<agentVars, cred, active, secretCert, mishaps, revokedOnce>>
    BY <1>8 DEF DeliverNotice
  <2>2. \A d \in Conns : conn'[d].reply = "renewed" => conn[d].reply = "renewed"
    <3>1. CASE current # NoConn /\ Matches(n, current)
      <4>1. current \in Conns
        BY <3>1 DEF TypeOK
      <4> QED
        BY <1>0, <1>8, <2>1, <3>1, <4>1, CloseMatches DEF DeliverNotice
    <3>2. CASE ~(current # NoConn /\ Matches(n, current))
      BY <1>8, <3>2 DEF DeliverNotice
    <3> QED
      BY <3>1, <3>2
  <2>3. Awaited' => Awaited
    BY <1>0, <2>1, <2>2 DEF Awaited, ProcessMatchesConnection, TypeOK
  <2> QED
    BY <1>0, <2>1, <2>3, AwaitedType, NothingRevoked
<1>9. CASE ServerRestarts
  <2>1. UNCHANGED <<agentVars, cred, active, secretCert, mishaps, revokedOnce>>
    BY <1>9 DEF ServerRestarts
  <2>2. \A c \in Conns : conn'[c].reply # "renewed"
    BY <1>9 DEF ServerRestarts, TypeOK, Idle
  <2>3. Awaited' => Awaited
    BY <1>0, <2>1, <2>2 DEF Awaited, ProcessMatchesConnection, TypeOK
  <2> QED
    BY <1>0, <2>1, <2>3, AwaitedType, NothingRevoked
<1>10. CASE RevokeAgent
  BY <1>10 DEF RevokeAgent, LiveInv, AnswerIsLive, KeepsUsableIdentity,
     ActiveSerialIsLive
<1>11. CASE \/ WatchDrops \/ WatchResumes \/ UpdateCluster \/ UpdateParent
            \/ Expire \/ UNCHANGED vars
  <2>1. UNCHANGED <<agentVars, conn, cred, active, secretCert, mishaps,
                    revokedOnce>>
    BY <1>11 DEF WatchDrops, WatchResumes, UpdateCluster, UpdateParent, Expire
  <2>2. Awaited' <=> Awaited
    BY <2>1 DEF Awaited
  <2> QED
    BY <1>0, <2>1, <2>2, AwaitedType, NothingRevoked
<1> QED
  BY <1>1, <1>2, <1>3, <1>4, <1>5, <1>6, <1>7, <1>8, <1>9, <1>10, <1>11
     DEF Next, AgentNext, AgentStep, ServerNext, ServerStep, Environment,
         ActivateFails

LEMMA RotationInit == Init => RotationInv
BY ConnAssumption, CredsRange DEF Init, RotationInv, ProcessMatchesConnection,
   ProcessMatchesSecret, AnswerIsLive, KeepsUsableIdentity, ActiveSerialIsLive,
   Idle

THEOREM RotationCorrect == Spec => []RotationInv
<1>1. Init => RotationInv
  BY RotationInit
<1>2. TypeOK /\ RotationInv /\ [Next]_vars => RotationInv'
  BY ConnectionStep, SecretStep, LiveStep DEF RotationInv, LiveInv
<1> QED
  BY <1>1, <1>2, TypeCorrect, PTL DEF Spec

\* Crashes, lost answers, renewals and reconnections never leave the Agent
\* with a stored certificate the Server has revoked.
THEOREM IdentityKept == Spec => []KeepsUsableIdentity
<1>1. RotationInv => KeepsUsableIdentity
  BY DEF RotationInv
<1> QED
  BY <1>1, RotationCorrect, PTL

\* The credential the Console shows as current is an un-revoked one.
THEOREM ActiveSerialLive == Spec => []ActiveSerialIsLive
<1>1. RotationInv => ActiveSerialIsLive
  BY DEF RotationInv
<1> QED
  BY <1>1, RotationCorrect, PTL

-----------------------------------------------------------------------------
(* At most two credentials live, whatever went wrong: a new one answers the *)
(* CSR in the Secret, and the process makes a CSR only on a connection      *)
(* whose Activate has revoked all the others.                               *)

Live == {k \in Creds : cred[k] = "valid"}

\* Every CSR but the one in the Secret has been answered, and no other is asked for.
CsrsAnswered ==
    /\ \A k \in Creds : k <= minted /\ cred[k] = "none" => k = secretCsr
    /\ secretCsr <= minted
    /\ \A c \in Conns : conn[c].request <= minted
    /\ Awaited => sent \in Creds /\ cred[sent] # "none"

\* What the connection of the process has left alive: in its Activate and after it.
OthersRevoked ==
    /\ phase = "hello" /\ conn[link].state = "activating" =>
         Live \subseteq conn[link].seen \cup {secretCsr}
    /\ \/ phase = "hello" /\ conn[link].state \in {"activated", "serving"}
       \/ phase \in {"online", "renewing", "saving"}
       => Live \subseteq {held, secretCsr}

Replacing == IF secretCsr # 0 THEN secretCsr ELSE secretCert

PairLive == \E k \in Creds : Live \subseteq {k, Replacing}

PairInv == CsrsAnswered /\ OthersRevoked /\ PairLive

\* The numbers of credentials.
LEMMA CredNumbers ==
    ASSUME TypeOK
    PROVE  /\ Live \subseteq Creds /\ 0 \notin Creds /\ 0 <= minted
           /\ minted \in Nat /\ secretCsr \in Nat /\ held \in Creds
           /\ (secretCsr # 0 => secretCsr \in Creds)
           /\ \A k \in Creds : k \in Nat
           /\ \A c \in Conns : conn[c].request \in Nat
<1>1. /\ MaxCredentials \in Nat /\ 0 \notin Creds
      /\ \A k \in Creds : k \in Nat
      /\ \A k \in 0 .. MaxCredentials : k \in Nat /\ (k # 0 => k \in Creds)
  BY CredentialAssumption DEF Creds
<1>2. minted \in Creds /\ held \in Creds /\ secretCsr \in 0 .. MaxCredentials
  BY DEF TypeOK
<1>3. 0 <= minted
  BY <1>2 DEF Creds
<1>4. \A c \in Conns : conn[c].request \in 0 .. MaxCredentials
  BY DEF TypeOK, Connection
<1>5. Live \subseteq Creds
  BY DEF Live
<1> QED
  BY <1>1, <1>2, <1>3, <1>4, <1>5

LEMMA PairInit == Init => PairInv
<1> SUFFICES ASSUME Init PROVE PairInv
  OBVIOUS
<1>1. \A k \in Creds : k <= 1 => k = 1
  BY DEF Creds
<1>2. \A c \in Conns : conn[c].request = 0
  BY DEF Init, Idle
<1>3. Live \subseteq {1} /\ 1 \in Creds
  BY CredsRange DEF Init, Live
<1>4. CsrsAnswered
  BY <1>1, <1>2 DEF Init, CsrsAnswered, Awaited
<1> QED
  BY <1>3, <1>4 DEF Init, PairInv, OthersRevoked, PairLive, Replacing

\* A step of the Server issues at most the credential for the CSR in the Secret, and
\* its Activate on the connection of the process leaves what it says.
LEMMA ServerKeepsPair ==
    ASSUME TypeOK, ProcessMatchesConnection, PairInv,
           UNCHANGED <<agentVars, secretVars>>,
           \A k \in Creds : cred[k] # "none" => cred'[k] # "none",
           Live' \subseteq Live \cup {secretCsr}, Live' \subseteq Creds,
           \A c \in Conns : conn'[c].request \in {0, conn[c].request},
           Awaited' => Awaited \/ (sent \in Creds /\ cred'[sent] # "none"),
           phase = "hello" /\ conn'[link].state = "activating" =>
             Live' \subseteq conn'[link].seen \cup {secretCsr},
           phase = "hello" /\ conn'[link].state \in {"activated", "serving"} =>
             Live' \subseteq {held, secretCsr}
    PROVE  PairInv'
<1> USE DEF agentVars, secretVars, PairInv
<1>1. CsrsAnswered'
  <2>1. \A c \in Conns : conn'[c].request <= minted
    BY CredNumbers DEF CsrsAnswered
  <2>2. Awaited' => sent \in Creds /\ cred'[sent] # "none"
    BY DEF CsrsAnswered
  <2>3. \A k \in Creds : cred'[k] = "none" => cred[k] = "none"
    OBVIOUS
  <2> QED
    BY <2>1, <2>2, <2>3 DEF CsrsAnswered
<1>2. OthersRevoked'
  BY DEF OthersRevoked
<1>3. PairLive'
  <2>1. PICK k \in Creds : Live \subseteq {k, Replacing}
    BY DEF PairLive
  <2>2. Live' \subseteq {k, Replacing}
    <3>1. CASE secretCsr = 0
      BY <2>1, <3>1, CredNumbers
    <3>2. CASE secretCsr # 0
      BY <2>1, <3>2 DEF Replacing
    <3> QED
      BY <3>1, <3>2
  <2>3. Replacing' = Replacing
    BY DEF Replacing
  <2> QED
    BY <2>2, <2>3 DEF PairLive
<1> QED
  BY <1>1, <1>2, <1>3

\* What a process that leaves its connection holds does not depend on it.
LEMMA LeaveKeepsPair ==
    ASSUME TypeOK, PairInv, Leave, phase' \in {"down", "dial", "stopped"},
           UNCHANGED <<cred, minted>>,
           \/ UNCHANGED <<secretCert, secretCsr>>
           \/ phase = "saving" /\ CanStoreCertificate /\ StoreCertificate
    PROVE  PairInv'
<1> USE DEF PairInv
<1>1. \A c \in Conns : conn'[c] = conn[c] \/ conn'[c].request = 0
  BY DEF Leave, TypeOK, Idle
<1>2. \A c \in Conns : conn'[c].request <= minted
  BY <1>1, CredNumbers DEF CsrsAnswered
<1>3. ~ Awaited' /\ OthersRevoked'
  BY DEF Awaited, OthersRevoked
<1>4. Live' = Live
  BY DEF Live
<1>5. CASE UNCHANGED <<secretCert, secretCsr>>
  BY <1>2, <1>3, <1>4, <1>5 DEF CsrsAnswered, PairLive, Replacing
<1>6. CASE phase = "saving" /\ CanStoreCertificate /\ StoreCertificate
  <2>1. /\ secretCert' = sent /\ secretCsr' = 0 /\ secretCsr = sent
        /\ sent \in Creds /\ cred[sent] # "none"
        /\ Live \subseteq {held, sent} /\ held \in Creds
    BY <1>6, CredNumbers DEF StoreCertificate, CanStoreCertificate, CsrsAnswered, Awaited,
       OthersRevoked
  <2>2. CsrsAnswered'
    BY <1>2, <1>3, <2>1, CredNumbers DEF CsrsAnswered
  <2>3. PairLive'
    BY <1>4, <2>1 DEF PairLive, Replacing
  <2> QED
    BY <1>3, <2>2, <2>3
<1> QED
  BY <1>5, <1>6

LEMMA RequestKeepsPair ==
    ASSUME TypeOK, ProcessMatchesConnection, PairInv, AgentRequestsRenewal
    PROVE  PairInv'
<1> USE DEF PairInv
<1>1. PICK k \in Creds :
        /\ k = (IF secretCsr # 0 THEN secretCsr ELSE minted + 1)
        /\ secretCsr' = k
        /\ minted' = IF secretCsr # 0 THEN minted ELSE minted + 1
        /\ sent' = k
        /\ conn' = [conn EXCEPT ![link].request =
                      IF conn[link].state = "serving" THEN k ELSE @]
  BY DEF AgentRequestsRenewal
<1>2. /\ phase = "online" /\ phase' = "renewing" /\ held' = held /\ link' = link
      /\ cred' = cred /\ secretCert' = secretCert /\ secretCert = held
  BY DEF AgentRequestsRenewal, dbVars
<1>3. link \in Conns /\ conn[link].reply # "renewed" /\ conn[link] \in Connection
  BY <1>2 DEF ProcessMatchesConnection, TypeOK
<1>4. /\ k <= minted' /\ minted <= minted' /\ minted' \in Nat
      /\ \A j \in Creds : j <= minted' => j <= minted \/ j = k
  BY <1>1, CredNumbers DEF CsrsAnswered
<1>5. /\ \A c \in Conns \ {link} : conn'[c] = conn[c]
      /\ conn'[link].request \in {conn[link].request, k}
      /\ conn'[link].reply = conn[link].reply
  <2>1. conn'[link] = [conn[link] EXCEPT
                         !.request = IF conn[link].state = "serving" THEN k ELSE @]
    BY <1>1, <1>3 DEF TypeOK
  <2> QED
    BY <1>1, <1>3, <2>1 DEF Connection, TypeOK
<1>6. \A c \in Conns : conn'[c].request <= minted'
  <2> SUFFICES ASSUME NEW c \in Conns PROVE conn'[c].request <= minted'
    OBVIOUS
  <2>1. conn'[c].request \in {conn[c].request, k}
    BY <1>5
  <2>2. conn[c].request <= minted /\ conn[c].request \in Nat /\ minted \in Nat
    BY CredNumbers DEF CsrsAnswered
  <2> QED
    BY <1>4, <2>1, <2>2
<1>7. ~ Awaited'
  BY <1>2, <1>3, <1>5 DEF Awaited
<1>8. CsrsAnswered'
  <2> SUFFICES ASSUME NEW j \in Creds, j <= minted', cred[j] = "none"
               PROVE  j = k
    BY <1>1, <1>2, <1>4, <1>6, <1>7 DEF CsrsAnswered
  <2>1. j <= minted => j = secretCsr
    BY DEF CsrsAnswered
  <2> QED
    BY <1>1, <1>4, <2>1, CredNumbers
<1>9. Live' = Live /\ Live \subseteq {held, k}
  <2>1. Live \subseteq {held, secretCsr}
    BY <1>2 DEF OthersRevoked
  <2>2. secretCsr = 0 \/ secretCsr = k
    BY <1>1
  <2> QED
    BY <1>2, <2>1, <2>2, CredNumbers DEF Live
<1>10. OthersRevoked'
  BY <1>1, <1>2, <1>9 DEF OthersRevoked
<1>11. PairLive'
  <2>1. k # 0 /\ held \in Creds
    BY CredNumbers
  <2> QED
    BY <1>1, <1>9, <2>1 DEF PairLive, Replacing
<1> QED
  BY <1>8, <1>10, <1>11

\* The steps of the process.
LEMMA AgentKeepsPair ==
    ASSUME TypeOK, ProcessMatchesConnection, PairInv, AgentNext
    PROVE  PairInv'
<1> USE DEF PairInv, dbVars, secretVars, serverVars, historyVars
<1>1. CASE AgentStart
  <2>1. Live' = Live /\ ~ Awaited'
    BY <1>1 DEF AgentStart, Live, Awaited
  <2> QED
    BY <1>1, <2>1 DEF AgentStart, CsrsAnswered, OthersRevoked, PairLive, Replacing
<1>2. ASSUME NEW c \in Conns, AgentDial(c) PROVE PairInv'
  <2>1. \A d \in Conns \ {c} : conn'[d] = conn[d]
    BY <1>2 DEF AgentDial, TypeOK
  <2>2. conn'[c].state = "hello" /\ conn'[c].request = 0 /\ link' = c /\ phase' = "hello"
    BY <1>2 DEF AgentDial, TypeOK, Idle
  <2>3. UNCHANGED <<cred, secretVars, held>> /\ Live' = Live /\ ~ Awaited'
    BY <1>2 DEF AgentDial, Live, Awaited
  <2>4. \A d \in Conns : conn'[d].request <= minted
    BY <2>1, <2>2, CredNumbers DEF CsrsAnswered
  <2> QED
    BY <2>2, <2>3, <2>4 DEF CsrsAnswered, OthersRevoked, PairLive, Replacing
<1>3. CASE AgentConnected
  <2>1. /\ link \in Conns /\ conn[link].state = "serving" /\ conn[link] \in Connection
        /\ phase = "hello"
    BY <1>3 DEF AgentConnected, ProcessMatchesConnection, TypeOK
  <2>2. conn' = [conn EXCEPT ![link] = [conn[link] EXCEPT !.reply = "none"]]
    BY <1>3 DEF AgentConnected
  <2>3. \A d \in Conns : conn'[d].request = conn[d].request
    BY <2>1, <2>2 DEF TypeOK, Connection
  <2>4. UNCHANGED <<cred, secretVars, held, link>> /\ phase' = "online"
        /\ Live' = Live /\ ~ Awaited'
    BY <1>3 DEF AgentConnected, Live, Awaited
  <2>5. Live \subseteq {held, secretCsr}
    BY <2>1 DEF OthersRevoked
  <2> QED
    BY <2>3, <2>4, <2>5 DEF CsrsAnswered, OthersRevoked, PairLive, Replacing
<1>4. CASE AgentClosed \/ AgentLosesConnection \/ AgentCrash \/ AgentCannotRenew
           \/ AgentSaves \/ AgentFailsToSave
  BY <1>4, LeaveKeepsPair DEF AgentClosed, AgentLosesConnection, AgentCrash,
     AgentCannotRenew, AgentSaves, AgentFailsToSave
<1>5. CASE AgentRequestsRenewal
  BY <1>5, RequestKeepsPair
<1>6. CASE AgentReceivesCertificate
  <2>1. Awaited /\ phase = "renewing" /\ phase' = "saving"
    BY <1>6 DEF AgentReceivesCertificate, Awaited
  <2>2. UNCHANGED <<cred, secretVars, held, link, conn, sent>> /\ Live' = Live
    BY <1>6 DEF AgentReceivesCertificate, Live
  <2> QED
    BY <2>1, <2>2 DEF CsrsAnswered, OthersRevoked, PairLive, Replacing
<1> QED
  BY <1>1, <1>2, <1>3, <1>4, <1>5, <1>6 DEF AgentNext, AgentStep

\* A connection that the Server closes has nothing under way.
LEMMA CloseKeepsPair ==
    ASSUME TypeOK, ProcessMatchesConnection, PairInv,
           UNCHANGED <<agentVars, secretVars>>,
           NEW c \in Conns, NEW answer \in {"retry", "permanent"}, Close(c, answer),
           \A k \in Creds : cred[k] # "none" => cred'[k] # "none",
           Live' \subseteq Live \cup {secretCsr}
    PROVE  PairInv'
<1> USE DEF PairInv
<1>1. \A d \in Conns \ {c} : conn'[d] = conn[d]
  BY DEF Close, TypeOK
<1>2. /\ conn'[c].request = 0
      /\ conn'[c].state \in {"idle", "closed"} /\ conn'[c].reply # "renewed"
  BY DEF Close, TypeOK, Idle
<1>3. \A d \in Conns : conn'[d].request \in {0, conn[d].request}
  BY <1>1, <1>2
<1>4. phase = "hello" \/ phase = "renewing" => link \in Conns
  BY DEF ProcessMatchesConnection, TypeOK
<1>5. Live' \subseteq Creds
  BY DEF Live
<1>6. Awaited' => Awaited
  BY <1>1, <1>2, <1>4 DEF Awaited, agentVars
<1>7. phase = "hello" /\ conn'[link].state = "activating" =>
        Live' \subseteq conn'[link].seen \cup {secretCsr}
  BY <1>1, <1>2, <1>4 DEF OthersRevoked
<1>8. phase = "hello" /\ conn'[link].state \in {"activated", "serving"} =>
        Live' \subseteq {held, secretCsr}
  BY <1>1, <1>2, <1>4 DEF OthersRevoked
<1> QED
  BY <1>3, <1>5, <1>6, <1>7, <1>8, ServerKeepsPair

\* Activate leaves its own credential and those that its snapshot has not seen.
LEMMA ActivateLeaves ==
    ASSUME TypeOK, NEW c \in Conns, Activate(c)
    PROVE  /\ \A k \in Creds : cred[k] # "none" => cred'[k] # "none"
           /\ Live' \subseteq Live
           /\ Live' \subseteq (Live \ conn[c].seen) \cup {conn[c].cert}
BY DEF Activate, Superseded, Live, TypeOK

\* What a request asks for is the CSR in the Secret, unless that has been answered.
LEMMA IssuesSecretCsr ==
    ASSUME TypeOK, CsrsAnswered, NEW c \in Conns, conn[c].request # 0
    PROVE  /\ conn[c].request \in Creds
           /\ cred[conn[c].request] = "none" => conn[c].request = secretCsr
<1>1. conn[c].request \in 0 .. MaxCredentials
  BY DEF TypeOK, Connection
<1>2. conn[c].request \in Creds
  BY <1>1, CredentialAssumption DEF Creds
<1> QED
  BY <1>2 DEF CsrsAnswered

LEMMA ActivateKeepsPair ==
    ASSUME TypeOK, ProcessMatchesConnection, PairInv, NEW c \in Conns,
           ActivateCommit(c) \/ ActivateSnapshot(c)
    PROVE  PairInv'
<1> USE DEF PairInv
<1>1. UNCHANGED <<agentVars, secretVars>> /\ conn[c] \in Connection
  BY DEF ActivateCommit, ActivateSnapshot, TypeOK
<1>2. phase = "hello" \/ phase = "renewing" => link \in Conns
  BY DEF ProcessMatchesConnection, TypeOK
<1>3. CASE ActivateSnapshot(c)
  <2>1. conn' = [conn EXCEPT ![c] = [conn[c] EXCEPT !.state = "activating", !.seen = Live]]
    BY <1>3 DEF ActivateSnapshot, Live
  <2>2. /\ \A d \in Conns \ {c} : conn'[d] = conn[d]
        /\ conn'[c].state = "activating" /\ conn'[c].seen = Live
        /\ conn'[c].request = conn[c].request /\ conn'[c].reply = conn[c].reply
    BY <1>1, <2>1 DEF TypeOK, Connection
  <2>3. cred' = cred /\ Live' = Live
    BY <1>3 DEF ActivateSnapshot, dbVars, Live
  <2>4. Awaited' => Awaited
    BY <1>1, <1>2, <2>2 DEF Awaited, agentVars
  <2>5. phase = "hello" /\ conn'[link].state = "activating" =>
          Live' \subseteq conn'[link].seen \cup {secretCsr}
    BY <1>2, <2>2, <2>3 DEF OthersRevoked
  <2>6. phase = "hello" /\ conn'[link].state \in {"activated", "serving"} =>
          Live' \subseteq {held, secretCsr}
    BY <1>2, <2>2, <2>3 DEF OthersRevoked
  <2>7. \A d \in Conns : conn'[d].request \in {0, conn[d].request}
    BY <2>2
  <2>8. Live' \subseteq Creds
    BY DEF Live
  <2> QED
    BY <1>1, <2>3, <2>4, <2>5, <2>6, <2>7, <2>8, ServerKeepsPair
<1>4. CASE ActivateCommit(c)
  <2>1. /\ \A k \in Creds : cred[k] # "none" => cred'[k] # "none"
        /\ Live' \subseteq Live
        /\ Live' \subseteq (Live \ conn[c].seen) \cup {conn[c].cert}
    BY <1>4, ActivateLeaves DEF ActivateCommit
  <2>2. CASE cluster = "suspended"
    BY <1>1, <1>4, <2>1, <2>2, CloseKeepsPair DEF ActivateCommit
  <2>3. CASE cluster # "suspended"
    <3>1. conn' = [conn EXCEPT ![c] = [conn[c] EXCEPT !.state = "activated", !.seen = {}]]
          /\ conn[c].state = "activating"
      BY <1>4, <2>3 DEF ActivateCommit
    <3>2. /\ \A d \in Conns \ {c} : conn'[d] = conn[d]
          /\ conn'[c].state = "activated"
          /\ conn'[c].request = conn[c].request /\ conn'[c].reply = conn[c].reply
      BY <1>1, <3>1 DEF TypeOK, Connection
    <3>3. Awaited' => Awaited
      BY <1>1, <1>2, <3>2 DEF Awaited, agentVars
    <3>4. phase = "hello" /\ conn'[link].state = "activating" =>
            Live' \subseteq conn'[link].seen \cup {secretCsr}
      BY <1>2, <2>1, <3>2 DEF OthersRevoked
    <3>5. phase = "hello" /\ conn'[link].state \in {"activated", "serving"} =>
            Live' \subseteq {held, secretCsr}
      <4>1. CASE link # c
        BY <1>2, <2>1, <3>2, <4>1 DEF OthersRevoked
      <4>2. CASE link = c /\ phase = "hello"
        <5>1. conn[c].cert = held
          BY <4>2, ConnAssumption DEF ProcessMatchesConnection
        <5>2. Live \subseteq conn[c].seen \cup {secretCsr}
          BY <3>1, <4>2 DEF OthersRevoked
        <5> QED
          BY <2>1, <5>1, <5>2
      <4> QED
        BY <4>1, <4>2
    <3>6. \A d \in Conns : conn'[d].request \in {0, conn[d].request}
      BY <3>2
    <3>7. Live' \subseteq Creds
      BY DEF Live
    <3> QED
      BY <1>1, <2>1, <3>3, <3>4, <3>5, <3>6, <3>7, ServerKeepsPair
  <2> QED
    BY <2>2, <2>3
<1> QED
  BY <1>3, <1>4

LEMMA RenewKeepsPair ==
    ASSUME TypeOK, ProcessMatchesConnection, PairInv, NEW c \in Conns, Renew(c)
    PROVE  PairInv'
<1> USE DEF PairInv
<1> DEFINE k == conn[c].request
<1>1. /\ UNCHANGED <<agentVars, secretVars>> /\ conn[c] \in Connection
      /\ conn[c].state = "serving" /\ k # 0
      /\ \/ cred[k] = "none" /\ cred' = [cred EXCEPT ![k] = "valid"]
         \/ cred[k] = "valid" /\ cred' = cred
      /\ conn' = [conn EXCEPT ![c] = [conn[c] EXCEPT !.request = 0, !.reply = "renewed"]]
  BY DEF Renew, TypeOK
<1>2. k \in Creds /\ (cred[k] = "none" => k = secretCsr)
  BY <1>1, IssuesSecretCsr
<1>3. /\ \A d \in Conns \ {c} : conn'[d] = conn[d]
      /\ conn'[c].request = 0 /\ conn'[c].state = "serving"
  BY <1>1 DEF TypeOK, Connection
<1> HIDE DEF k
<1>4. /\ \A j \in Creds : cred[j] # "none" => cred'[j] # "none"
      /\ Live' \subseteq Live \cup {secretCsr} /\ Live' \subseteq Creds
      /\ cred'[k] # "none"
  BY <1>1, <1>2 DEF Live, TypeOK
<1>5. phase = "hello" \/ phase = "renewing" => link \in Conns
  BY DEF ProcessMatchesConnection, TypeOK
<1>6. Awaited' => Awaited \/ (sent \in Creds /\ cred'[sent] # "none")
  <2> SUFFICES ASSUME Awaited', ~ Awaited PROVE sent \in Creds /\ cred'[sent] # "none"
    OBVIOUS
  <2>1. phase = "renewing" /\ link = c
    BY <1>1, <1>3, <1>5 DEF Awaited, agentVars
  <2>2. k = sent
    BY <1>1, <2>1, ConnAssumption DEF ProcessMatchesConnection, k
  <2> QED
    BY <1>2, <1>4, <2>2
<1>7. phase = "hello" /\ conn'[link].state = "activating" =>
        Live' \subseteq conn'[link].seen \cup {secretCsr}
  BY <1>3, <1>4, <1>5 DEF OthersRevoked
<1>8. phase = "hello" /\ conn'[link].state \in {"activated", "serving"} =>
        Live' \subseteq {held, secretCsr}
  BY <1>1, <1>3, <1>4, <1>5 DEF OthersRevoked
<1>9. \A d \in Conns : conn'[d].request \in {0, conn[d].request}
  BY <1>3
<1> QED
  BY <1>1, <1>4, <1>6, <1>7, <1>8, <1>9, ServerKeepsPair

\* The steps of the Server and around it.
LEMMA ServerStepKeepsPair ==
    ASSUME TypeOK, ProcessMatchesConnection, PairInv, ServerNext \/ Environment
    PROVE  PairInv'
<1> USE DEF PairInv
<1>1. UNCHANGED <<agentVars, secretVars>>
  BY ServerLeavesAgent
<1>2. phase = "hello" \/ phase = "renewing" => link \in Conns
  BY DEF ProcessMatchesConnection, TypeOK
<1>3. ASSUME NEW c \in Conns, ActivateSnapshot(c) \/ ActivateCommit(c) PROVE PairInv'
  BY <1>3, ActivateKeepsPair
<1>4. ASSUME NEW c \in Conns, Renew(c) PROVE PairInv'
  BY <1>4, RenewKeepsPair
<1>5. ASSUME NEW c \in Conns, Register(c) PROVE PairInv'
  <2>1. conn[c] \in Connection /\ conn[c].state = "activated" /\ cred' = cred
    BY <1>5 DEF Register, TypeOK, dbVars
  <2>2. conn' = [conn EXCEPT ![c] = [conn[c] EXCEPT !.state = "serving", !.reply = "hello"]]
    BY <1>5 DEF Register
  <2>3. /\ \A d \in Conns \ {c} : conn'[d] = conn[d]
        /\ conn'[c].state = "serving" /\ conn'[c].reply = "hello"
        /\ conn'[c].request = conn[c].request
    BY <2>1, <2>2 DEF TypeOK, Connection
  <2>4. Live' = Live /\ Live' \subseteq Creds
    BY <2>1 DEF Live
  <2>5. Awaited' => Awaited
    BY <1>1, <1>2, <2>3 DEF Awaited, agentVars
  <2>6. \A d \in Conns : conn'[d].request \in {0, conn[d].request}
    BY <2>3
  <2>7. phase = "hello" /\ conn'[link].state = "activating" =>
          Live' \subseteq conn'[link].seen \cup {secretCsr}
    BY <1>2, <2>3, <2>4 DEF OthersRevoked
  <2>8. phase = "hello" /\ conn'[link].state \in {"activated", "serving"} =>
          Live' \subseteq {held, secretCsr}
    BY <1>2, <2>1, <2>3, <2>4 DEF OthersRevoked
  <2> QED
    BY <1>1, <2>1, <2>4, <2>5, <2>6, <2>7, <2>8, ServerKeepsPair
<1>6. ASSUME NEW c \in Conns,
             \/ ActivateRefused(c) \/ SessionEnds(c) \/ HeartbeatRefused(c)
             \/ RenewRefused(c) \/ ActivateFails(c) \/ RenewFails(c)
      PROVE  PairInv'
  <2>1. PICK answer \in {"retry", "permanent"} : Close(c, answer)
    BY <1>6, RejectionCloses DEF ActivateRefused, SessionEnds, HeartbeatRefused,
       RenewRefused, ActivateFails, RenewFails
  <2>2. \/ cred' = cred
        \/ Activate(c)
        \/ /\ conn[c].request # 0 /\ cred[conn[c].request] = "none"
           /\ cred' = [cred EXCEPT ![conn[c].request] = "valid"]
    BY <1>6 DEF ActivateRefused, SessionEnds, HeartbeatRefused, RenewRefused,
       ActivateFails, RenewFails, dbVars
  <2>3. /\ \A k \in Creds : cred[k] # "none" => cred'[k] # "none"
        /\ Live' \subseteq Live \cup {secretCsr}
    <3>1. CASE cred' = cred
      BY <3>1 DEF Live
    <3>2. CASE Activate(c)
      BY <3>2, ActivateLeaves
    <3>3. CASE /\ conn[c].request # 0 /\ cred[conn[c].request] = "none"
               /\ cred' = [cred EXCEPT ![conn[c].request] = "valid"]
      <4>1. conn[c].request \in Creds /\ conn[c].request = secretCsr
        BY <3>3, IssuesSecretCsr
      <4> QED
        BY <3>3, <4>1 DEF Live, TypeOK
    <3> QED
      BY <2>2, <3>1, <3>2, <3>3
  <2> QED
    BY <1>1, <2>1, <2>3, CloseKeepsPair
<1>7. ASSUME UNCHANGED conn, \A k \in Creds : cred[k] # "none" => cred'[k] # "none",
             Live' \subseteq Live
      PROVE  PairInv'
  <2>1. Awaited' => Awaited
    BY <1>1, <1>7 DEF Awaited, agentVars
  <2>2. Live' \subseteq Creds
    BY DEF Live
  <2>3. phase = "hello" /\ conn'[link].state = "activating" =>
          Live' \subseteq conn'[link].seen \cup {secretCsr}
    BY <1>7 DEF OthersRevoked
  <2>4. phase = "hello" /\ conn'[link].state \in {"activated", "serving"} =>
          Live' \subseteq {held, secretCsr}
    BY <1>7 DEF OthersRevoked
  <2> QED
    BY <1>1, <1>7, <2>1, <2>2, <2>3, <2>4, ServerKeepsPair
<1>8. ASSUME NEW n \in notices, DeliverNotice(n) PROVE PairInv'
  <2>1. cred' = cred /\ Live' = Live
    BY <1>8 DEF DeliverNotice, dbVars, Live
  <2>2. CASE current # NoConn /\ Matches(n, current)
    <3>1. current \in Conns
      BY <2>2 DEF TypeOK
    <3>2. PICK answer \in {"retry", "permanent"} : Close(current, answer)
      BY <1>8, <2>2 DEF DeliverNotice
    <3> QED
      BY <1>1, <2>1, <3>1, <3>2, CloseKeepsPair
  <2>3. CASE ~ (current # NoConn /\ Matches(n, current))
    BY <1>7, <1>8, <2>1, <2>3 DEF DeliverNotice
  <2> QED
    BY <2>2, <2>3
<1>9. CASE ServerRestarts
  <2>1. \A c \in Conns : conn'[c].request = 0 /\ conn'[c].reply # "renewed"
          /\ conn'[c].state \in {"idle", "closed"}
    BY <1>9 DEF ServerRestarts, Idle
  <2>2. cred' = cred /\ Live' = Live /\ Live' \subseteq Creds
    BY <1>9 DEF ServerRestarts, dbVars, Live
  <2>3. Awaited' => Awaited
    BY <1>1, <1>2, <2>1 DEF Awaited, agentVars
  <2> QED
    BY <1>1, <1>2, <2>1, <2>2, <2>3, ServerKeepsPair
<1>10. CASE RevokeAgent
  <2>1. UNCHANGED conn /\ Live' = {}
        /\ \A k \in Creds : cred[k] # "none" => cred'[k] # "none"
    BY <1>10 DEF RevokeAgent, Live
  <2> QED
    BY <1>7, <2>1
<1>11. CASE WatchDrops \/ WatchResumes \/ UpdateCluster \/ UpdateParent \/ Expire
  <2>1. UNCHANGED <<conn, cred>> /\ Live' = Live
    BY <1>11 DEF WatchDrops, WatchResumes, UpdateCluster, UpdateParent, Expire, dbVars,
       serverVars, Live
  <2> QED
    BY <1>7, <2>1
<1> QED
  BY <1>3, <1>4, <1>5, <1>6, <1>8, <1>9, <1>10, <1>11
     DEF ServerNext, ServerStep, Environment

\* RenewCredential and Activate: although renewals, replays of their CSRs, overlapping
\* handshakes and crashes issue and revoke credentials in any order, never more than
\* the one in use and the one that replaces it are un-revoked.
THEOREM TwoCredentialsLive == Spec => []AtMostTwoLive
<1>1. TypeOK /\ ProcessMatchesConnection /\ PairInv /\ [Next]_vars => PairInv'
  <2> SUFFICES ASSUME TypeOK, ProcessMatchesConnection, PairInv, [Next]_vars
               PROVE  PairInv'
    OBVIOUS
  <2>1. CASE UNCHANGED vars
    BY <2>1 DEF vars, dbVars, secretVars, agentVars, serverVars, PairInv, CsrsAnswered,
       OthersRevoked, PairLive, Replacing, Live, Awaited
  <2> QED
    BY <2>1, AgentKeepsPair, ServerStepKeepsPair DEF Next
<1>2. PairInv => AtMostTwoLive
  <2> SUFFICES ASSUME PairLive PROVE AtMostTwoLive
    BY DEF PairInv
  <2>1. PICK k \in Creds : Live \subseteq {k, Replacing}
    BY DEF PairLive
  <2>2. /\ IsFiniteSet({k}) /\ Cardinality({k}) = 1
        /\ {k, Replacing} = {k} \cup {Replacing}
    BY FS_Singleton
  <2>3. /\ IsFiniteSet({k, Replacing})
        /\ \/ Cardinality({k, Replacing}) = 1 \/ Cardinality({k, Replacing}) = 2
    BY <2>2, FS_AddElement
  <2>4. /\ IsFiniteSet(Live) /\ Cardinality(Live) <= Cardinality({k, Replacing})
        /\ Cardinality(Live) \in Nat
    BY <2>1, <2>3, FS_Subset, FS_CardinalityType
  <2>5. Cardinality(Live) <= 2
    BY <2>3, <2>4
  <2> QED
    BY <2>5 DEF AtMostTwoLive, Live
<1>3. RotationInv => ProcessMatchesConnection
  BY DEF RotationInv
<1> QED
  BY <1>1, <1>2, <1>3, PairInit, TypeCorrect, RotationCorrect, PTL DEF Spec
=============================================================================
