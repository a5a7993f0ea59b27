------------------------------ MODULE RowLocks ------------------------------
(***************************************************************************)
(* The row and advisory locks that the transactions of pkg/server/store    *)
(* take on one Tenant, one of its Projects and two Clusters of it, the     *)
(* first of which has an Agent with a credential and an enrollment with    *)
(* an attempt.  A transaction is the sequence of its locks; what it reads  *)
(* and writes is in Enrollment and CredentialRotation.                     *)
(*                                                                         *)
(* PostgreSQL keeps a lock until the transaction ends and aborts one of    *)
(* the transactions of a cycle.  Its queues of waiters are left out: they  *)
(* can only make a transaction wait for more than the model shows.         *)
(***************************************************************************)
EXTENDS Naturals, Sequences, FiniteSets

CONSTANT Backends \* database connections, one transaction each at a time

VARIABLES operation, \* the transaction of each connection, or "none"
          locked,    \* how many of its locks it holds
          deleted    \* the rows that a committed deletion removed

lockVars == <<operation, locked, deleted>>

(***************************************************************************)
(* Modes: "K" FOR KEY SHARE (what a foreign key takes on the row it        *)
(* names), "S" FOR SHARE, "N" FOR NO KEY UPDATE (an UPDATE), "X" FOR       *)
(* UPDATE, a DELETE, an advisory lock.                                     *)
(***************************************************************************)
Conflicts == {{"K", "X"}, {"S", "N"}, {"S", "X"}, {"N"}, {"N", "X"}, {"X"}}

Lock(row, mode) == [row |-> row, mode |-> mode]
Exclusively(rows) == [i \in DOMAIN rows |-> Lock(rows[i], "X")]

ClusterRows == <<"attempt", "enrollment", "credential", "agent">>

ClusterTree == Exclusively(<<"cluster1">> \o ClusterRows)

\* Faulty: reaches the Clusters last, by the deletion of their rows.
ProjectTreeUpwards ==
    Exclusively(<<"project">> \o ClusterRows \o <<"cluster1", "cluster2">>)

\* deleteProjectTree and deleteTenantTree lock the levels between first.
ProjectTree ==
    Exclusively(<<"project", "cluster1", "cluster2">> \o ClusterRows)

TenantTree ==
    Exclusively(<<"tenant", "project", "cluster1", "cluster2">> \o ClusterRows)

\* lockEnrollmentScope, and then the attempt; the Cluster is not known yet to a
\* transaction that read the enrollment before the first completion of it filled
\* cluster_id.
BeginEnrollmentLocks ==
    <<Lock("tenant", "S"), Lock("project", "S"), Lock("cluster1", "S"),
      Lock("enrollment", "X")>>

CompleteEnrollmentLocks ==
    <<Lock("tenant", "S"), Lock("project", "S"), Lock("cluster1", "S"),
      Lock("enrollment", "X"), Lock("attempt", "X")>>

CompleteAgainLocks ==
    <<Lock("tenant", "S"), Lock("project", "S"), Lock("enrollment", "X"),
      Lock("attempt", "X")>>

CreateEnrollmentLocks ==
    <<Lock("idOfCluster1", "X"), Lock("name", "X"), Lock("enrollment", "N"),
      Lock("tenant", "K"), Lock("project", "K"), Lock("cluster1", "K")>>

UpdateClusterLocks ==
    <<Lock("idOfCluster1", "X"), Lock("cluster1", "X"), Lock("name", "X"),
      Lock("enrollment", "N")>>

\* One statement: the agents of valid_agent, then clusters, and the
\* credentials of the CTE nobody reads at its end.
ActivateLocks ==
    <<Lock("agent", "N"), Lock("cluster1", "N"), Lock("credential", "N")>>

RenewCredentialLocks ==
    <<Lock("credential", "X"), Lock("tenant", "K"), Lock("agent", "K")>>

LocksOf ==
    [UpdateTenant          |-> <<Lock("tenant", "X")>>,
     UpdateProject         |-> <<Lock("project", "X")>>,
     UpdateCluster         |-> UpdateClusterLocks,
     DeleteTenant          |-> TenantTree,
     DeleteProject         |-> ProjectTree,
     DeleteCluster         |-> ClusterTree,
     RevokeEnrollment      |-> <<Lock("enrollment", "X")>>,
     BeginEnrollment       |-> BeginEnrollmentLocks,
     CompleteEnrollment    |-> CompleteEnrollmentLocks,
     CompleteAgain         |-> CompleteAgainLocks,
     CreateEnrollment      |-> CreateEnrollmentLocks,
     RecordHeartbeat       |-> <<Lock("agent", "N"), Lock("cluster1", "N")>>,
     Activate              |-> ActivateLocks,
     RevokeAgent           |-> <<Lock("agent", "X"), Lock("credential", "N")>>,
     RenewCredential       |-> RenewCredentialLocks]

Operations == DOMAIN LocksOf
Deletions == {"DeleteTenant", "DeleteProject", "DeleteCluster"}
Rows == UNION {{LocksOf[o][i].row : i \in DOMAIN LocksOf[o]} : o \in Operations}

-----------------------------------------------------------------------------

NoOperation(b) == operation[b] = "none"
Locks(b) == IF NoOperation(b) THEN <<>> ELSE LocksOf[operation[b]]
Held(b) == {Locks(b)[i] : i \in 1 .. locked[b]}
Done(b) == locked[b] = Len(Locks(b))
NextLock(b) == Locks(b)[locked[b] + 1]

Excludes(held, wanted) ==
    held.row = wanted.row /\ {held.mode, wanted.mode} \in Conflicts

\* b waits for a lock that c holds.
WaitsFor(b, c) ==
    /\ c # b
    /\ ~Done(b)
    /\ NextLock(b).row \notin deleted
    /\ \E held \in Held(c) : Excludes(held, NextLock(b))

\* Everyone in D waits for someone in D.
Deadlocked(D) == D # {} /\ \A b \in D : \E c \in D : WaitsFor(b, c)

ReleasesLocks(b) ==
    /\ operation' = [operation EXCEPT ![b] = "none"]
    /\ locked' = [locked EXCEPT ![b] = 0]

\* A DELETE, or the UPDATE of an enrollment that lapsed, may find nothing.
MayFindNothing(b) ==
    \/ operation[b] \in Deletions /\ locked[b] > 0
    \/ /\ operation[b] \in {"CreateEnrollment", "UpdateCluster"}
       /\ NextLock(b).row = "enrollment"

RLInit ==
    /\ operation = [b \in Backends |-> "none"]
    /\ locked = [b \in Backends |-> 0]
    /\ deleted = {}

\* cluster_id is still NULL to a completion that starts before anyone works with the
\* Cluster that another completion makes.
ClusterIsUnknown ==
    /\ "cluster1" \notin deleted
    /\ \A b \in Backends : \A i \in DOMAIN Locks(b) : Locks(b)[i].row # "cluster1"

StartsOperation(b, o) ==
    /\ NoOperation(b)
    /\ o = "CompleteAgain" => ClusterIsUnknown
    /\ operation' = [operation EXCEPT ![b] = o]
    /\ UNCHANGED <<locked, deleted>>

TakesLock(b) ==
    /\ ~Done(b)
    /\ \A c \in Backends : ~WaitsFor(b, c)
    /\ NextLock(b).row \in deleted => MayFindNothing(b)
    /\ locked' = [locked EXCEPT ![b] = @ + 1]
    /\ UNCHANGED <<operation, deleted>>

\* ErrNoRows, or a foreign key without its row: the transaction rolls back.
FindsNothing(b) ==
    /\ ~Done(b)
    /\ NextLock(b).row \in deleted
    /\ ~MayFindNothing(b)
    /\ ReleasesLocks(b)
    /\ UNCHANGED deleted

Commits(b) ==
    /\ ~NoOperation(b)
    /\ Done(b)
    /\ ReleasesLocks(b)
    /\ deleted' = deleted \cup (IF operation[b] \in Deletions
                                THEN {held.row : held \in Held(b)} ELSE {})

\* PostgreSQL aborts one transaction of a cycle.
IsAborted(b) ==
    /\ \E D \in SUBSET Backends : b \in D /\ Deadlocked(D)
    /\ ReleasesLocks(b)
    /\ UNCHANGED deleted

RLNext ==
    \E b \in Backends :
        \/ \E o \in Operations : StartsOperation(b, o)
        \/ TakesLock(b)
        \/ FindsNothing(b)
        \/ Commits(b)
        \/ IsAborted(b)

RLSpec == RLInit /\ [][RLNext]_lockVars

RLTypeOK ==
    /\ operation \in [Backends -> Operations \cup {"none"}]
    /\ locked \in [Backends -> 0 .. 8]
    /\ \A b \in Backends : locked[b] <= Len(Locks(b))
    /\ deleted \subseteq Rows

-----------------------------------------------------------------------------

(***************************************************************************)
(* What changes the hierarchy, and every path of the registration of an    *)
(* Agent.  Not among them, for they promise no order of their locks:       *)
(* CreateEnrollment, Activate, RecordHeartbeat, RevokeAgent and            *)
(* RenewCredential, which can each wait in a circle with a deletion.       *)
(***************************************************************************)
HierarchyOperations ==
    {"UpdateTenant", "UpdateProject", "UpdateCluster",
     "DeleteTenant", "DeleteProject", "DeleteCluster", "RevokeEnrollment",
     "BeginEnrollment", "CompleteEnrollment", "CompleteAgain"}

DeadlockedOverHierarchy ==
    {D \in SUBSET {b \in Backends : operation[b] \in HierarchyOperations} : Deadlocked(D)}

\* A completion that does not know its Cluster has the enrollment and waits for the
\* attempt; the deletion of that Cluster has the attempt and waits for the enrollment.
CompletionMeetsDeletion(b, c) ==
    /\ operation[b] = "CompleteAgain" /\ WaitsFor(b, c)
    /\ operation[c] = "DeleteCluster" /\ WaitsFor(c, b)

(***************************************************************************)
(* Renaming, suspending and deleting at any level, and the registration    *)
(* of an Agent, wait for each other in a circle in one way only, however   *)
(* many of them overlap: a completion and the deletion of the Cluster that *)
(* it does not know yet.  It is what the locks that deleteTenantTree,      *)
(* deleteProjectTree and lockEnrollmentScope take first are for.           *)
(***************************************************************************)
OnlyLateCompletionDeadlocks ==
    \A D \in DeadlockedOverHierarchy : \E b, c \in D : CompletionMeetsDeletion(b, c)

(***************************************************************************)
(* What agent_enrollment.go:535 says of the same operations: they lock     *)
(* Tenant, Project, Cluster and Enrollment in this order, and all that a   *)
(* deletion does to a registration is that its row is gone.                *)
(***************************************************************************)
LifecycleNeverDeadlocks == DeadlockedOverHierarchy = {}
=============================================================================
