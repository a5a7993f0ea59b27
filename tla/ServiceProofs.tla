--------------------------- MODULE ServiceProofs ---------------------------
(***************************************************************************)
(* Proofs about RowLocks, for any number of connections; about AITurns,    *)
(* for any number of sessions, turns, steps, branches, requests and faults *)
(* and for every quota; about MetricsForwarding, for any number of         *)
(* requests, of Streams and of faults; about ClusterLimiter, for every     *)
(* rate, burst, window, limit and batch, over any time; about              *)
(* LoginSessions, for every number of logins, password changes and         *)
(* tolerated failures; and about AdministratorAccounts, for any number of  *)
(* administrators, of overlapping transactions and of failed logins that   *)
(* lock.                                                                   *)
(***************************************************************************)
EXTENDS RowLocks, AITurns, MetricsForwarding, ClusterLimiter, LoginSessions,
        AdministratorAccounts, SequenceTheorems, FiniteSetTheorems, TLAPS

-----------------------------------------------------------------------------
(* RowLocks: what the transactions lock.                                    *)

LockModes == {"K", "S", "N", "X"}

RowNames == {"tenant", "project", "cluster1", "cluster2", "attempt", "enrollment",
             "credential", "agent", "name", "idOfCluster1"}

Locking == [row : RowNames, mode : LockModes]

LEMMA LockIsTyped == \A r \in RowNames, m \in LockModes : Lock(r, m) \in Locking
BY DEF Lock, Locking

LEMMA RowsAndModes ==
    /\ "K" \in LockModes /\ "S" \in LockModes /\ "N" \in LockModes /\ "X" \in LockModes
    /\ \A r \in {"tenant", "project", "cluster1", "cluster2", "attempt", "enrollment",
                 "credential", "agent", "name", "idOfCluster1"} : r \in RowNames
BY DEF LockModes, RowNames

LEMMA OperationNames ==
    Operations = {"UpdateTenant", "UpdateProject", "UpdateCluster", "DeleteTenant",
                  "DeleteProject", "DeleteCluster", "RevokeEnrollment", "BeginEnrollment",
                  "CompleteEnrollment", "CompleteAgain", "CreateEnrollment",
                  "RecordHeartbeat", "Activate", "RevokeAgent", "RenewCredential"}
BY DEF Operations, LocksOf

\* The deletions lock every row of their tree for themselves.
LEMMA DeletionLocks ==
    /\ LocksOf["DeleteCluster"] =
         [i \in 1 .. 5 |-> Lock(<<"cluster1", "attempt", "enrollment", "credential",
                                  "agent">>[i], "X")]
    /\ LocksOf["DeleteProject"] =
         [i \in 1 .. 7 |-> Lock(<<"project", "cluster1", "cluster2", "attempt",
                                  "enrollment", "credential", "agent">>[i], "X")]
    /\ LocksOf["DeleteTenant"] =
         [i \in 1 .. 8 |-> Lock(<<"tenant", "project", "cluster1", "cluster2", "attempt",
                                  "enrollment", "credential", "agent">>[i], "X")]
BY DEF LocksOf, ClusterTree, ProjectTree, TenantTree, Exclusively, ClusterRows, Lock

LEMMA DeletionLocksTyped ==
    \A o \in Deletions : LocksOf[o] \in Seq(Locking) /\ Len(LocksOf[o]) \in 1 .. 8
<1>1. LocksOf["DeleteCluster"] \in [1 .. 5 -> Locking]
  BY DeletionLocks, LockIsTyped, RowsAndModes
<1>2. LocksOf["DeleteProject"] \in [1 .. 7 -> Locking]
  BY DeletionLocks, LockIsTyped, RowsAndModes
<1>3. LocksOf["DeleteTenant"] \in [1 .. 8 -> Locking]
  BY DeletionLocks, LockIsTyped, RowsAndModes
<1>4. \A n \in 1 .. 8 : \A s \in [1 .. n -> Locking] : s \in Seq(Locking) /\ Len(s) = n
  BY LenProperties
<1>5. \A o \in Deletions : \E n \in 1 .. 8 : LocksOf[o] \in [1 .. n -> Locking]
  BY <1>1, <1>2, <1>3 DEF Deletions
<1> QED BY <1>4, <1>5

LEMMA EnrollmentLocksTyped ==
    /\ LocksOf["BeginEnrollment"] \in Seq(Locking) /\ Len(LocksOf["BeginEnrollment"]) = 4
    /\ LocksOf["CompleteEnrollment"] \in Seq(Locking)
    /\ Len(LocksOf["CompleteEnrollment"]) = 5
    /\ LocksOf["CompleteAgain"] \in Seq(Locking) /\ Len(LocksOf["CompleteAgain"]) = 4
<1>1. LocksOf["BeginEnrollment"] \in Seq(Locking) /\ Len(LocksOf["BeginEnrollment"]) = 4
  BY LockIsTyped, RowsAndModes DEF LocksOf, BeginEnrollmentLocks
<1>2. /\ LocksOf["CompleteEnrollment"] \in Seq(Locking)
      /\ Len(LocksOf["CompleteEnrollment"]) = 5
  BY LockIsTyped, RowsAndModes DEF LocksOf, CompleteEnrollmentLocks
<1>3. LocksOf["CompleteAgain"] \in Seq(Locking) /\ Len(LocksOf["CompleteAgain"]) = 4
  BY LockIsTyped, RowsAndModes DEF LocksOf, CompleteAgainLocks
<1> QED BY <1>1, <1>2, <1>3

LEMMA ShortLocks ==
    /\ LocksOf["UpdateTenant"] = <<Lock("tenant", "X")>>
    /\ LocksOf["UpdateProject"] = <<Lock("project", "X")>>
    /\ LocksOf["RevokeEnrollment"] = <<Lock("enrollment", "X")>>
    /\ LocksOf["UpdateCluster"] =
         <<Lock("idOfCluster1", "X"), Lock("cluster1", "X"), Lock("name", "X"),
           Lock("enrollment", "N")>>
BY DEF LocksOf, UpdateClusterLocks

LEMMA ShortLocksTyped ==
    \A o \in {"UpdateTenant", "UpdateProject", "RevokeEnrollment", "UpdateCluster",
              "CreateEnrollment", "RecordHeartbeat", "Activate", "RevokeAgent",
              "RenewCredential"} :
        LocksOf[o] \in Seq(Locking) /\ Len(LocksOf[o]) \in 1 .. 8
<1>1. \A l \in Locking : <<l>> \in Seq(Locking) /\ Len(<<l>>) = 1
  OBVIOUS
<1>2. \A k, l \in Locking : <<k, l>> \in Seq(Locking) /\ Len(<<k, l>>) = 2
  OBVIOUS
<1>3. LocksOf["UpdateCluster"] \in Seq(Locking) /\ Len(LocksOf["UpdateCluster"]) = 4
  BY LockIsTyped, RowsAndModes, ShortLocks
<1>4. LocksOf["CreateEnrollment"] \in Seq(Locking) /\ Len(LocksOf["CreateEnrollment"]) = 6
  BY LockIsTyped, RowsAndModes DEF LocksOf, CreateEnrollmentLocks
<1>5. LocksOf["Activate"] \in Seq(Locking) /\ Len(LocksOf["Activate"]) = 3
  BY LockIsTyped, RowsAndModes DEF LocksOf, ActivateLocks
<1>6. LocksOf["RenewCredential"] \in Seq(Locking) /\ Len(LocksOf["RenewCredential"]) = 3
  BY LockIsTyped, RowsAndModes DEF LocksOf, RenewCredentialLocks
<1>7. LocksOf["RecordHeartbeat"] = <<Lock("agent", "N"), Lock("cluster1", "N")>>
  BY DEF LocksOf
<1>8. LocksOf["RevokeAgent"] = <<Lock("agent", "X"), Lock("credential", "N")>>
  BY DEF LocksOf
<1>9. \A o \in {"UpdateTenant", "UpdateProject", "RevokeEnrollment"} :
        LocksOf[o] \in Seq(Locking) /\ Len(LocksOf[o]) = 1
  BY <1>1, LockIsTyped, RowsAndModes, ShortLocks
<1>10. \A o \in {"RecordHeartbeat", "RevokeAgent"} :
        LocksOf[o] \in Seq(Locking) /\ Len(LocksOf[o]) = 2
  <2>1. /\ Lock("agent", "N") \in Locking /\ Lock("cluster1", "N") \in Locking
        /\ Lock("agent", "X") \in Locking /\ Lock("credential", "N") \in Locking
    BY LockIsTyped, RowsAndModes
  <2> QED BY <2>1, <1>2, <1>7, <1>8
<1> QED BY <1>3, <1>4, <1>5, <1>6, <1>9, <1>10

LEMMA LocksTyped ==
    \A o \in Operations : LocksOf[o] \in Seq(Locking) /\ Len(LocksOf[o]) \in 1 .. 8
<1>1. \A o \in {"BeginEnrollment", "CompleteEnrollment", "CompleteAgain"} :
        LocksOf[o] \in Seq(Locking) /\ Len(LocksOf[o]) \in 1 .. 8
  BY EnrollmentLocksTyped
<1> QED BY <1>1, OperationNames, DeletionLocksTyped, ShortLocksTyped, Zenon DEF Deletions

LEMMA DeletionLengths ==
    /\ Len(LocksOf["DeleteCluster"]) = 5 /\ Len(LocksOf["DeleteProject"]) = 7
    /\ Len(LocksOf["DeleteTenant"]) = 8
BY DeletionLocks, DeletionLocksTyped, LenProperties DEF Deletions

LEMMA DeletionsExclude ==
    \A o \in Deletions : \A i \in 1 .. Len(LocksOf[o]) : LocksOf[o][i].mode = "X"
<1>1. /\ Len(LocksOf["DeleteCluster"]) = 5 /\ Len(LocksOf["DeleteProject"]) = 7
      /\ Len(LocksOf["DeleteTenant"]) = 8
  BY DeletionLengths
<1>2. \A i \in 1 .. 5 : LocksOf["DeleteCluster"][i].mode = "X"
  BY DeletionLocks DEF Lock
<1>3. \A i \in 1 .. 7 : LocksOf["DeleteProject"][i].mode = "X"
  BY DeletionLocks DEF Lock
<1>4. \A i \in 1 .. 8 : LocksOf["DeleteTenant"][i].mode = "X"
  BY DeletionLocks DEF Lock
<1> QED BY <1>1, <1>2, <1>3, <1>4 DEF Deletions

-----------------------------------------------------------------------------
(* RowLocks: the order the operations of the hierarchy keep.                *)

RankOf ==
    [tenant |-> 1, project |-> 2, idOfCluster1 |-> 3, cluster1 |-> 4, cluster2 |-> 5,
     name |-> 6, attempt |-> 7, enrollment |-> 8, credential |-> 9, agent |-> 10]

\* A completion locks the attempt last, out of order.
Completions == {"CompleteEnrollment", "CompleteAgain"}
Ordered(o) == IF o \in Completions THEN Len(LocksOf[o]) - 1 ELSE Len(LocksOf[o])

LEMMA Ranks == \A r \in RowNames : RankOf[r] \in 1 .. 10
BY DEF RowNames, RankOf

\* The first n locks of o are in the order of the rank of their rows.
LocksInOrder(o, n) ==
    \A j \in 1 .. n : \A i \in 1 .. (j - 1) :
        RankOf[LocksOf[o][i].row] < RankOf[LocksOf[o][j].row]

\* The operations of the hierarchy lock rows in the order of their rank.
LEMMA HierarchyOrder ==
    \A o \in HierarchyOperations : LocksInOrder(o, Ordered(o))
<1>1. LocksInOrder("DeleteTenant", 8)
  BY DeletionLocks DEF LocksInOrder, RankOf, Lock
<1>2. LocksInOrder("DeleteProject", 7)
  BY DeletionLocks DEF LocksInOrder, RankOf, Lock
<1>3. LocksInOrder("DeleteCluster", 5)
  BY DeletionLocks DEF LocksInOrder, RankOf, Lock
<1>4. LocksInOrder("UpdateCluster", 4)
  BY ShortLocks DEF LocksInOrder, RankOf, Lock
<1>5. LocksInOrder("CompleteEnrollment", 4)
  BY DEF LocksOf, CompleteEnrollmentLocks, LocksInOrder, RankOf, Lock
<1>6. LocksInOrder("BeginEnrollment", 4)
  BY DEF LocksOf, BeginEnrollmentLocks, LocksInOrder, RankOf, Lock
<1>7. LocksInOrder("CompleteAgain", 3) /\ \A o : LocksInOrder(o, 1)
  BY DEF LocksOf, CompleteAgainLocks, LocksInOrder, RankOf, Lock
<1>8. /\ Ordered("DeleteTenant") = 8 /\ Ordered("DeleteProject") = 7
      /\ Ordered("DeleteCluster") = 5 /\ Ordered("UpdateCluster") = 4
      /\ Ordered("BeginEnrollment") = 4 /\ Ordered("CompleteEnrollment") = 4
      /\ Ordered("CompleteAgain") = 3
  BY DeletionLengths, ShortLocks, EnrollmentLocksTyped DEF Ordered, Completions
<1>9. /\ Ordered("UpdateTenant") = 1 /\ Ordered("UpdateProject") = 1
      /\ Ordered("RevokeEnrollment") = 1
  BY ShortLocks DEF Ordered, Completions
<1> QED BY <1>1, <1>2, <1>3, <1>4, <1>5, <1>6, <1>7, <1>8, <1>9, Zenon
        DEF HierarchyOperations

\* The attempt is locked last by a completion, and by a deletion after the
\* Cluster.
LEMMA AttemptLast ==
    \A o \in HierarchyOperations : \A i \in 1 .. Len(LocksOf[o]) :
        LocksOf[o][i].row = "attempt" =>
            \/ o \in Completions /\ i = Len(LocksOf[o])
            \/ o \in Deletions /\ \E k \in 1 .. i : LocksOf[o][k] = Lock("cluster1", "X")
<1>1. \A i \in 1 .. 8 : LocksOf["DeleteTenant"][i].row = "attempt" => i = 5
  BY DeletionLocks DEF Lock
<1>2. \A i \in 1 .. 7 : LocksOf["DeleteProject"][i].row = "attempt" => i = 4
  BY DeletionLocks DEF Lock
<1>3. \A i \in 1 .. 5 : LocksOf["DeleteCluster"][i].row = "attempt" => i = 2
  BY DeletionLocks DEF Lock
<1>4. /\ LocksOf["DeleteTenant"][3] = Lock("cluster1", "X")
      /\ LocksOf["DeleteProject"][2] = Lock("cluster1", "X")
      /\ LocksOf["DeleteCluster"][1] = Lock("cluster1", "X")
  BY DeletionLocks
<1>5. /\ \A i \in 1 .. 5 : LocksOf["CompleteEnrollment"][i].row = "attempt" => i = 5
      /\ \A i \in 1 .. 4 : LocksOf["CompleteAgain"][i].row = "attempt" => i = 4
  BY DEF LocksOf, CompleteEnrollmentLocks, CompleteAgainLocks, Lock
<1>6. \A i \in 1 .. 4 : LocksOf["UpdateCluster"][i].row # "attempt"
  BY ShortLocks DEF Lock
<1>7. \A i \in 1 .. 4 : LocksOf["BeginEnrollment"][i].row # "attempt"
  BY DEF LocksOf, BeginEnrollmentLocks, Lock
<1>8. \A o \in {"UpdateTenant", "UpdateProject", "RevokeEnrollment"} :
        Len(LocksOf[o]) = 1 /\ LocksOf[o][1].row # "attempt"
  BY ShortLocks DEF Lock
<1>9. /\ Len(LocksOf["DeleteTenant"]) = 8 /\ Len(LocksOf["DeleteProject"]) = 7
      /\ Len(LocksOf["DeleteCluster"]) = 5 /\ Len(LocksOf["UpdateCluster"]) = 4
      /\ Len(LocksOf["BeginEnrollment"]) = 4 /\ Len(LocksOf["CompleteEnrollment"]) = 5
      /\ Len(LocksOf["CompleteAgain"]) = 4
  BY DeletionLengths, ShortLocks, EnrollmentLocksTyped
<1>10. ASSUME NEW o \in Deletions, NEW i \in 1 .. Len(LocksOf[o]),
              LocksOf[o][i].row = "attempt"
       PROVE  \E k \in 1 .. i : LocksOf[o][k] = Lock("cluster1", "X")
  <2>1. CASE o = "DeleteTenant"
    BY <2>1, <1>1, <1>4, <1>9, <1>10
  <2>2. CASE o = "DeleteProject"
    BY <2>2, <1>2, <1>4, <1>9, <1>10
  <2>3. CASE o = "DeleteCluster"
    BY <2>3, <1>3, <1>4, <1>9, <1>10
  <2> QED BY <2>1, <2>2, <2>3 DEF Deletions
<1>11. ASSUME NEW o \in HierarchyOperations \ Deletions, NEW i \in 1 .. Len(LocksOf[o]),
              LocksOf[o][i].row = "attempt"
       PROVE  o \in Completions /\ i = Len(LocksOf[o])
  <2>1. CASE o = "UpdateCluster"
    BY <2>1, <1>6, <1>9, <1>11
  <2>2. CASE o = "BeginEnrollment"
    BY <2>2, <1>7, <1>9, <1>11
  <2>3. CASE o \in Completions
    BY <2>3, <1>5, <1>9, <1>11 DEF Completions
  <2>4. CASE o \in {"UpdateTenant", "UpdateProject", "RevokeEnrollment"}
    BY <2>4, <1>8, <1>11
  <2> QED BY <2>1, <2>2, <2>3, <2>4 DEF HierarchyOperations, Deletions, Completions
<1> QED BY <1>10, <1>11

LEMMA ScopeOfCompletion ==
    /\ LocksOf["CompleteEnrollment"][3] = Lock("cluster1", "S")
    /\ LocksOf["CompleteAgain"][1] = Lock("tenant", "S")
    /\ LocksOf["CompleteAgain"][2] = Lock("project", "S")
    /\ LocksOf["CompleteAgain"][3] = Lock("enrollment", "X")
BY DEF LocksOf, CompleteEnrollmentLocks, CompleteAgainLocks

-----------------------------------------------------------------------------
(* RowLocks: the inductive invariant.                                       *)

\* Two transactions have the same row only in modes that go together.
Compatible ==
    \A b, c \in Backends : b # c =>
        \A held \in Held(b), other \in Held(c) :
            Excludes(held, other) => held.row \in deleted

\* Only what may find nothing goes on over a row that was deleted.
LocksRowsThatExist ==
    \A b \in Backends : \A held \in Held(b) :
        held.row \in deleted =>
            operation[b] \in Deletions \cup {"CreateEnrollment", "UpdateCluster"}

RLInv == RLTypeOK /\ Compatible /\ LocksRowsThatExist

LEMMA LocksOfBackend ==
    ASSUME RLTypeOK, NEW b \in Backends
    PROVE  /\ Locks(b) \in Seq(Locking) /\ Len(Locks(b)) \in 0 .. 8
           /\ \A i \in 1 .. Len(Locks(b)) : Locks(b)[i] \in Locking
           /\ Held(b) \subseteq Locking
           /\ operation[b] # "none" => operation[b] \in Operations
                                       /\ Locks(b) = LocksOf[operation[b]]
           /\ operation[b] = "none" => Locks(b) = <<>> /\ locked[b] = 0
<1>1. CASE operation[b] = "none"
  BY <1>1 DEF RLTypeOK, Locks, NoOperation, Held
<1>2. CASE operation[b] # "none"
  BY <1>2, LocksTyped DEF RLTypeOK, Locks, NoOperation, Held
<1> QED BY <1>1, <1>2

\* But for a completion and a deletion that meet, everyone who waits waits for someone
\* who waits for a row of a higher rank: of those that wait for the attempt, which is
\* out of order, the one that knows its Cluster keeps the deletions away, and the one
\* that does not keeps those of the Project and the Tenant away.
LEMMA CirclesHaveOneForm == RLInv => OnlyLateCompletionDeadlocks
<1> SUFFICES ASSUME RLInv,
                    NEW D \in SUBSET {b \in Backends : operation[b] \in HierarchyOperations},
                    Deadlocked(D),
                    \A b, c \in D : ~CompletionMeetsDeletion(b, c)
             PROVE  FALSE
  BY DEF OnlyLateCompletionDeadlocks, DeadlockedOverHierarchy
<1> DEFINE wants(b) == NextLock(b).row
<1>1. ASSUME NEW b \in D
      PROVE  /\ b \in Backends /\ operation[b] \in HierarchyOperations
             /\ operation[b] \in Operations
             /\ ~Done(b) /\ \E c \in D : WaitsFor(b, c)
             /\ Locks(b) = LocksOf[operation[b]]
             /\ locked[b] \in 0 .. 8 /\ locked[b] < Len(Locks(b))
             /\ Locks(b) \in Seq(Locking)
             /\ NextLock(b) \in Locking
             /\ wants(b) \in RowNames
             /\ Held(b) = {LocksOf[operation[b]][i] : i \in 1 .. locked[b]}
             /\ NextLock(b) = LocksOf[operation[b]][locked[b] + 1]
  <2>1. b \in Backends /\ operation[b] \in HierarchyOperations /\ RLTypeOK
    BY DEF RLInv
  <2>2. operation[b] \in Operations
    BY <2>1, OperationNames DEF HierarchyOperations
  <2>3. operation[b] # "none"
    BY <2>2, OperationNames
  <2>4. \E c \in D : WaitsFor(b, c)
    BY DEF Deadlocked
  <2>5. ~Done(b)
    BY <2>4 DEF WaitsFor
  <2>6. Locks(b) = LocksOf[operation[b]] /\ Locks(b) \in Seq(Locking)
    BY <2>1, <2>3, LocksOfBackend
  <2>7. locked[b] \in 0 .. 8 /\ locked[b] < Len(Locks(b))
    BY <2>1, <2>5, <2>6 DEF RLTypeOK, Done
  <2>8. NextLock(b) \in Locking
    BY <2>6, <2>7 DEF NextLock
  <2> QED BY <2>1, <2>2, <2>4, <2>5, <2>6, <2>7, <2>8 DEF Held, NextLock, Locking
<1>2. \A b \in D : /\ locked[b] \in Nat /\ Len(LocksOf[operation[b]]) \in Nat
                   /\ locked[b] < Len(LocksOf[operation[b]])
  <2> SUFFICES ASSUME NEW b \in D
               PROVE  /\ locked[b] \in Nat /\ Len(LocksOf[operation[b]]) \in Nat
                      /\ locked[b] < Len(LocksOf[operation[b]])
    OBVIOUS
  <2>1. locked[b] \in 0 .. 8 /\ locked[b] < Len(Locks(b)) /\ Locks(b) \in Seq(Locking)
    BY <1>1
  <2>2. Locks(b) = LocksOf[operation[b]]
    BY <1>1
  <2> QED BY <2>1, <2>2
<1>3. \A b \in D : Held(b) = {LocksOf[operation[b]][i] : i \in 1 .. locked[b]}
  BY <1>1
<1>4. ASSUME NEW b \in D, NEW c \in D, WaitsFor(b, c)
      PROVE  /\ b # c
             /\ \E i \in 1 .. locked[c] : LocksOf[operation[c]][i].row = wants(b)
  <2>1. PICK held \in Held(c) : Excludes(held, NextLock(b))
    BY <1>4 DEF WaitsFor
  <2>2. PICK i \in 1 .. locked[c] : held = LocksOf[operation[c]][i]
    BY <1>3
  <2> QED BY <1>4, <2>1, <2>2 DEF WaitsFor, Excludes
<1>5. \A b \in D : NextLock(b) = LocksOf[operation[b]][locked[b] + 1]
  BY <1>1
<1>6. ASSUME NEW c \in D, operation[c] \in Completions,
             locked[c] = Len(LocksOf[operation[c]]) - 1
      PROVE  FALSE
  <2>1. PICK d \in D : WaitsFor(c, d)
    BY <1>1
  <2>2. \/ operation[c] = "CompleteEnrollment" /\ locked[c] = 4
        \/ operation[c] = "CompleteAgain" /\ locked[c] = 3
    BY <1>6, EnrollmentLocksTyped DEF Completions
  <2>3. wants(c) = "attempt"
    BY <1>5, <2>2 DEF LocksOf, CompleteEnrollmentLocks, CompleteAgainLocks, Lock
  <2>4. PICK i \in 1 .. locked[d] : LocksOf[operation[d]][i].row = "attempt"
    BY <2>1, <2>3, <1>4
  <2>5. operation[d] \in Deletions
        /\ \E k \in 1 .. i : LocksOf[operation[d]][k] = Lock("cluster1", "X")
    <3>1. i \in 1 .. Len(LocksOf[operation[d]]) /\ i # Len(LocksOf[operation[d]])
      BY <1>2
    <3>2. operation[d] \in HierarchyOperations
      BY <1>1
    <3> QED BY <3>1, <3>2, <2>4, AttemptLast
  <2>6. c # d /\ c \in Backends /\ d \in Backends
    BY <2>1, <1>1 DEF WaitsFor
  <2>7. ASSUME NEW r, Lock(r, "X") \in Held(d),
               Lock(r, "S") \in Held(c) \/ Lock(r, "X") \in Held(c)
        PROVE  FALSE
    <3>1. PICK m \in {"S", "X"} : Lock(r, m) \in Held(c)
      BY <2>7
    <3>2. Excludes(Lock(r, "X"), Lock(r, m))
      BY DEF Excludes, Lock, Conflicts
    <3>3. r \in deleted
      BY <2>6, <2>7, <3>1, <3>2 DEF RLInv, Compatible, Lock
    <3> QED
      BY <1>6, <2>6, <3>1, <3>3
         DEF RLInv, LocksRowsThatExist, Lock, Deletions, Completions
  <2>8. CASE operation[c] = "CompleteEnrollment" /\ locked[c] = 4
    <3>1. PICK k \in 1 .. i : LocksOf[operation[d]][k] = Lock("cluster1", "X")
      BY <2>5
    <3>2. k \in 1 .. locked[d]
      BY <1>2
    <3>3. Lock("cluster1", "X") \in Held(d)
      BY <3>1, <3>2, <1>3
    <3>4. 3 \in 1 .. locked[c]
      BY <2>8
    <3>5. Lock("cluster1", "S") \in Held(c)
      BY <3>4, <1>3, <2>8, ScopeOfCompletion
    <3> QED BY <3>3, <3>5, <2>7
  <2>9. CASE operation[c] = "CompleteAgain" /\ locked[c] = 3
    <3>1. 1 \in 1 .. locked[c] /\ 2 \in 1 .. locked[c] /\ 3 \in 1 .. locked[c]
      BY <2>9
    <3>2. /\ Lock("tenant", "S") \in Held(c) /\ Lock("project", "S") \in Held(c)
          /\ Lock("enrollment", "X") \in Held(c)
      BY <3>1, <1>3, <2>9, ScopeOfCompletion
    <3>3. locked[d] \in Nat /\ 1 \in 1 .. locked[d] /\ i \in 1 .. 8
      <4>1. locked[d] \in 0 .. 8
        BY <1>1
      <4> QED BY <4>1
    <3>4. operation[d] = "DeleteCluster"
      <4>1. operation[d] = "DeleteTenant" => Lock("tenant", "X") \in Held(d)
        BY <3>3, <1>3, DeletionLocks
      <4>2. operation[d] = "DeleteProject" => Lock("project", "X") \in Held(d)
        BY <3>3, <1>3, DeletionLocks
      <4> QED BY <4>1, <4>2, <3>2, <2>5, <2>7 DEF Deletions
    <3>5. LocksOf[operation[d]][3] = Lock("enrollment", "X")
      BY <3>4, DeletionLocks
    <3>6. locked[d] = 2
      <4>1. i # 1
        BY <2>4, <3>4, DeletionLocks DEF Lock
      <4>2. 3 \in 1 .. locked[d] => Lock("enrollment", "X") \in Held(d)
        BY <3>5, <1>3
      <4>3. 3 \notin 1 .. locked[d]
        BY <4>2, <3>2, <2>7
      <4> QED BY <4>1, <4>3, <3>3
    <3>7. NextLock(d) = Lock("enrollment", "X")
      BY <3>5, <3>6, <1>5
    <3>8. Excludes(Lock("enrollment", "X"), NextLock(d))
      BY <3>7 DEF Excludes, Lock, Conflicts
    <3>9. ~Done(d) /\ NextLock(d).row \notin deleted
      BY <1>1 DEF WaitsFor
    <3>10. WaitsFor(d, c)
      BY <3>2, <3>8, <3>9, <2>6 DEF WaitsFor
    <3> QED BY <2>1, <2>9, <3>4, <3>10 DEF CompletionMeetsDeletion
  <2> QED BY <2>2, <2>8, <2>9
<1>7. ASSUME NEW b \in D
      PROVE  \E c \in D : RankOf[wants(b)] < RankOf[wants(c)]
  <2>1. PICK c \in D : WaitsFor(b, c)
    BY <1>1
  <2>2. PICK i \in 1 .. locked[c] : LocksOf[operation[c]][i].row = wants(b)
    BY <2>1, <1>4
  <2> DEFINE j == locked[c] + 1
  <2>3. j \in 1 .. Len(LocksOf[operation[c]]) /\ i \in 1 .. (j - 1)
    BY <1>2
  <2>4. j \in 1 .. Ordered(operation[c])
    <3>1. CASE operation[c] \in Completions
      <4>1. locked[c] # Len(LocksOf[operation[c]]) - 1
        BY <3>1, <1>6
      <4>2. j \in Nat /\ Len(LocksOf[operation[c]]) \in Nat
            /\ j <= Len(LocksOf[operation[c]]) - 1
        BY <4>1, <1>2
      <4> QED BY <3>1, <4>2, <2>3 DEF Ordered
    <3>2. CASE operation[c] \notin Completions
      BY <3>2, <2>3 DEF Ordered
    <3> QED BY <3>1, <3>2
  <2>5. operation[c] \in HierarchyOperations
    BY <1>1
  <2>6. RankOf[LocksOf[operation[c]][i].row] < RankOf[LocksOf[operation[c]][j].row]
    BY <2>3, <2>4, <2>5, HierarchyOrder DEF LocksInOrder
  <2> QED BY <1>5, <2>2, <2>6
<1>8. \A b \in D : RankOf[wants(b)] \in 1 .. 10
  BY <1>1, Ranks
<1> DEFINE W(b) == RankOf[wants(b)]
<1>9. \A b \in D : W(b) \in 1 .. 10 /\ \E c \in D : W(b) < W(c)
  BY <1>7, <1>8
<1> HIDE DEF W
<1>10. \A b \in D : W(b) <= 9
  BY <1>9
<1>11. \A b \in D : W(b) <= 8
  BY <1>9, <1>10
<1>12. \A b \in D : W(b) <= 7
  BY <1>9, <1>11
<1>13. \A b \in D : W(b) <= 6
  BY <1>9, <1>12
<1>14. \A b \in D : W(b) <= 5
  BY <1>9, <1>13
<1>15. \A b \in D : W(b) <= 4
  BY <1>9, <1>14
<1>16. \A b \in D : W(b) <= 3
  BY <1>9, <1>15
<1>17. \A b \in D : W(b) <= 2
  BY <1>9, <1>16
<1>18. \A b \in D : W(b) <= 1
  BY <1>9, <1>17
<1>19. \A b \in D : FALSE
  <2> SUFFICES ASSUME NEW b \in D PROVE FALSE
    OBVIOUS
  <2>1. PICK c \in D : W(b) < W(c)
    BY <1>9
  <2>2. W(b) \in 1 .. 10 /\ W(c) \in 1 .. 10 /\ W(c) <= 1
    BY <1>9, <1>18
  <2> QED BY <2>1, <2>2
<1> QED BY <1>19 DEF Deadlocked

-----------------------------------------------------------------------------
(* RowLocks: the steps.                                                     *)

LEMMA RLInvInit == RLInit => RLInv
<1> SUFFICES ASSUME RLInit PROVE RLInv
  OBVIOUS
<1>1. \A b \in Backends : operation[b] = "none" /\ locked[b] = 0
  BY DEF RLInit
<1>2. \A b \in Backends : Locks(b) = <<>> /\ Held(b) = {}
  BY <1>1 DEF Locks, NoOperation, Held
<1> QED BY <1>1, <1>2 DEF RLInit, RLInv, RLTypeOK, Compatible, LocksRowsThatExist

LEMMA HeldStays ==
    ASSUME NEW c, operation'[c] = operation[c], locked'[c] = locked[c]
    PROVE  Locks(c)' = Locks(c) /\ Held(c)' = Held(c)
BY DEF Locks, NoOperation, Held

\* A transaction that ends leaves nothing behind but the rows that it deleted, and
\* nobody else holds one of those.
LEMMA ReleaseKeepsInv ==
    ASSUME RLInv, NEW b \in Backends, ReleasesLocks(b), deleted \subseteq deleted',
           deleted' \subseteq Rows,
           \A c \in Backends \ {b} : \A held \in Held(c) :
               held.row \in deleted' => held.row \in deleted
    PROVE  RLInv'
<1>1. RLTypeOK
  BY DEF RLInv
<1>2. /\ operation'[b] = "none" /\ locked'[b] = 0
      /\ \A c \in Backends \ {b} : operation'[c] = operation[c] /\ locked'[c] = locked[c]
  BY <1>1 DEF RLTypeOK, ReleasesLocks
<1>3. Locks(b)' = <<>> /\ Held(b)' = {}
  BY <1>2 DEF Locks, NoOperation, Held
<1>4. \A c \in Backends \ {b} : Locks(c)' = Locks(c) /\ Held(c)' = Held(c)
  BY <1>2, HeldStays
<1>5. RLTypeOK'
  BY <1>1, <1>2, <1>3, <1>4 DEF RLTypeOK, ReleasesLocks
<1>6. Compatible'
  BY <1>3, <1>4 DEF RLInv, Compatible, Excludes
<1>7. LocksRowsThatExist'
  BY <1>2, <1>3, <1>4 DEF RLInv, LocksRowsThatExist
<1> QED BY <1>5, <1>6, <1>7 DEF RLInv

LEMMA ExcludesBothWays ==
    \A held, other : Excludes(held, other) <=> Excludes(other, held)
<1>1. \A held, other : {held.mode, other.mode} = {other.mode, held.mode}
  OBVIOUS
<1> QED BY <1>1 DEF Excludes

\* Whoever has a row for itself excludes everyone.
LEMMA ExclusiveExcludes ==
    \A held, other \in Locking :
        held.row = other.row /\ held.mode = "X" => Excludes(held, other)
BY DEF Excludes, Conflicts, Locking, LockModes

LEMMA StartKeepsInv ==
    ASSUME RLInv, NEW b \in Backends, NEW o \in Operations, StartsOperation(b, o)
    PROVE  RLInv'
<1>1. RLTypeOK
  BY DEF RLInv
<1>2. /\ operation'[b] = o /\ locked'[b] = 0 /\ deleted' = deleted
      /\ \A c \in Backends \ {b} : operation'[c] = operation[c] /\ locked'[c] = locked[c]
  <2>1. operation[b] = "none" /\ locked[b] = 0
    BY <1>1, LocksOfBackend DEF StartsOperation, NoOperation
  <2> QED BY <1>1, <2>1 DEF RLTypeOK, StartsOperation
<1>3. o # "none"
  BY OperationNames
<1>4. Locks(b)' = LocksOf[o] /\ Held(b)' = {}
  BY <1>2, <1>3 DEF Locks, NoOperation, Held
<1>5. \A c \in Backends \ {b} : Locks(c)' = Locks(c) /\ Held(c)' = Held(c)
  BY <1>2, HeldStays
<1>6. RLTypeOK'
  BY <1>1, <1>2, <1>4, <1>5, LocksTyped DEF RLTypeOK, StartsOperation
<1>7. Compatible'
  BY <1>2, <1>4, <1>5 DEF RLInv, Compatible, Excludes
<1>8. LocksRowsThatExist'
  BY <1>2, <1>4, <1>5 DEF RLInv, LocksRowsThatExist
<1> QED BY <1>6, <1>7, <1>8 DEF RLInv

LEMMA TakeKeepsInv ==
    ASSUME RLInv, NEW b \in Backends, TakesLock(b)
    PROVE  RLInv'
<1>1. RLTypeOK
  BY DEF RLInv
<1>2. /\ locked'[b] = locked[b] + 1 /\ deleted' = deleted /\ operation' = operation
      /\ \A c \in Backends \ {b} : operation'[c] = operation[c] /\ locked'[c] = locked[c]
  BY <1>1 DEF RLTypeOK, TakesLock
<1>3. /\ locked[b] \in Nat /\ Len(Locks(b)) \in 0 .. 8 /\ locked[b] < Len(Locks(b))
  BY <1>1, LocksOfBackend DEF RLTypeOK, TakesLock, Done
<1>4. Locks(b)' = Locks(b)
  BY <1>2 DEF Locks, NoOperation
<1>5. Held(b)' = Held(b) \cup {NextLock(b)}
  BY <1>2, <1>3, <1>4 DEF Held, NextLock
<1>6. \A c \in Backends \ {b} : Locks(c)' = Locks(c) /\ Held(c)' = Held(c)
  BY <1>2, HeldStays
<1>7. RLTypeOK'
  <2>1. locked' \in [Backends -> 0 .. 8]
    <3>1. locked[b] + 1 \in 0 .. 8
      <4> DEFINE n == locked[b]
                 m == Len(Locks(b))
      <4>1. n \in Nat /\ m \in 0 .. 8 /\ n < m
        BY <1>3
      <4> HIDE DEF n, m
      <4>2. n + 1 \in 0 .. 8
        BY <4>1
      <4> QED BY <4>2 DEF n
    <3> QED BY <1>1, <3>1 DEF RLTypeOK, TakesLock
  <2>2. \A c \in Backends : locked'[c] <= Len(Locks(c)')
    BY <1>1, <1>2, <1>3, <1>4, <1>6 DEF RLTypeOK
  <2> QED BY <1>1, <1>2, <2>1, <2>2 DEF RLTypeOK
<1>8. \A c \in Backends \ {b} : \A other \in Held(c) :
        Excludes(other, NextLock(b)) => NextLock(b).row \in deleted
  BY DEF TakesLock, WaitsFor
<1>9. Compatible'
  <2> SUFFICES ASSUME NEW c \in Backends, NEW d \in Backends, c # d,
                      NEW held \in Held(c)', NEW other \in Held(d)',
                      Excludes(held, other)
               PROVE  held.row \in deleted
    BY <1>2 DEF Compatible, Excludes
  <2>1. CASE c = b /\ held = NextLock(b)
    BY <2>1, <1>6, <1>8, ExcludesBothWays
  <2>2. CASE d = b /\ other = NextLock(b)
    BY <2>2, <1>6, <1>8 DEF Excludes
  <2>3. CASE ~(c = b /\ held = NextLock(b)) /\ ~(d = b /\ other = NextLock(b))
    <3>1. held \in Held(c) /\ other \in Held(d)
      BY <2>3, <1>5, <1>6
    <3> QED BY <3>1 DEF RLInv, Compatible
  <2> QED BY <2>1, <2>2, <2>3
<1>10. LocksRowsThatExist'
  <2> SUFFICES ASSUME NEW c \in Backends, NEW held \in Held(c)', held.row \in deleted
               PROVE  operation[c] \in Deletions \cup {"CreateEnrollment", "UpdateCluster"}
    BY <1>2 DEF LocksRowsThatExist
  <2>1. CASE held \in Held(c)
    BY <2>1 DEF RLInv, LocksRowsThatExist
  <2>2. CASE c = b /\ held = NextLock(b)
    BY <2>2 DEF TakesLock, MayFindNothing
  <2> QED BY <2>1, <2>2, <1>5, <1>6
<1> QED BY <1>7, <1>9, <1>10 DEF RLInv

LEMMA CommitKeepsInv ==
    ASSUME RLInv, NEW b \in Backends, Commits(b)
    PROVE  RLInv'
<1>1. RLTypeOK
  BY DEF RLInv
<1>2. ReleasesLocks(b) /\ deleted \subseteq deleted'
  BY DEF Commits
<1>3. ASSUME NEW c \in Backends \ {b}, NEW held \in Held(c), held.row \in deleted',
             held.row \notin deleted
      PROVE  FALSE
  <2>1. PICK own \in Held(b) : operation[b] \in Deletions /\ own.row = held.row
    BY <1>3 DEF Commits
  <2>2. own.mode = "X"
    <3>1. operation[b] # "none" /\ Locks(b) = LocksOf[operation[b]]
      BY <1>1, LocksOfBackend DEF Commits, NoOperation
    <3>2. locked[b] = Len(Locks(b))
      BY DEF Commits, Done
    <3> QED BY <2>1, <3>1, <3>2, DeletionsExclude DEF Held
  <2>3. own \in Locking /\ held \in Locking
    BY <1>1, LocksOfBackend
  <2>4. Excludes(own, held)
    BY <2>1, <2>2, <2>3, ExclusiveExcludes
  <2> QED BY <2>1, <2>4, <1>3 DEF RLInv, Compatible
<1>4. deleted' \subseteq Rows
  <2> SUFFICES ASSUME NEW held \in Held(b), operation[b] \in Deletions
               PROVE  held.row \in Rows
    BY <1>1 DEF Commits, RLTypeOK
  <2>1. operation[b] \in Operations /\ Locks(b) = LocksOf[operation[b]]
    BY <1>1, LocksOfBackend DEF Commits, NoOperation
  <2>2. PICK i \in 1 .. locked[b] : held = LocksOf[operation[b]][i]
    BY <2>1 DEF Held
  <2>3. i \in DOMAIN LocksOf[operation[b]]
    BY <1>1, <2>1, LocksOfBackend DEF RLTypeOK
  <2> QED BY <2>1, <2>2, <2>3 DEF Rows
<1> QED BY <1>2, <1>3, <1>4, ReleaseKeepsInv

LEMMA RLInvStep == RLInv /\ [RLNext]_lockVars => RLInv'
<1> SUFFICES ASSUME RLInv, [RLNext]_lockVars PROVE RLInv'
  OBVIOUS
<1>1. ASSUME NEW b \in Backends, NEW o \in Operations, StartsOperation(b, o) PROVE RLInv'
  BY <1>1, StartKeepsInv
<1>2. ASSUME NEW b \in Backends, TakesLock(b) PROVE RLInv'
  BY <1>2, TakeKeepsInv
<1>3. ASSUME NEW b \in Backends, FindsNothing(b) PROVE RLInv'
  BY <1>3, ReleaseKeepsInv DEF FindsNothing, RLInv, RLTypeOK
<1>4. ASSUME NEW b \in Backends, Commits(b) PROVE RLInv'
  BY <1>4, CommitKeepsInv
<1>5. ASSUME NEW b \in Backends, IsAborted(b) PROVE RLInv'
  BY <1>5, ReleaseKeepsInv DEF IsAborted, RLInv, RLTypeOK
<1>6. CASE UNCHANGED lockVars
  <2>1. \A c : Locks(c)' = Locks(c) /\ Held(c)' = Held(c)
    BY <1>6 DEF lockVars, Locks, NoOperation, Held
  <2> QED BY <1>6, <2>1 DEF lockVars, RLInv, RLTypeOK, Compatible,
             LocksRowsThatExist, Excludes
<1> QED BY <1>1, <1>2, <1>3, <1>4, <1>5, <1>6 DEF RLNext

\* Two transactions hold locks on the same row only if these agree with each other, and
\* what is locked has not been deleted by a transaction that has committed; the proof
\* of the order of the locks rests on it.
THEOREM RowLocksCorrect == RLSpec => []RLInv
<1> QED BY RLInvInit, RLInvStep, PTL DEF RLSpec

\* Changes and deletions at any level and registrations of Agents, also those that do not
\* know their Cluster yet, wait for each other in a circle only where such a completion
\* and the deletion of its Cluster wait for one another: on however many connections
\* they overlap and whatever other transactions, aborted or not, run between them.
THEOREM LockOrderIsKept == RLSpec => []OnlyLateCompletionDeadlocks
<1> QED BY RowLocksCorrect, CirclesHaveOneForm, PTL
-----------------------------------------------------------------------------
(* AITurns: turns, lanes and what they are typed with.                       *)

LanePcs == {"none", "begin", "step", "think", "admit", "parked", "recheck", "perform",
            "delegating", "finishing", "done", "cleanup", "leaving", "gone"}
BranchPcs == {"none", "step", "think", "admit", "parked", "recheck", "perform", "done",
              "gone"}
LaneStates == [pc : LanePcs, mode : Modes, kind : Kinds \cup {"read"}, step : Nat,
               end : {"succeeded", "failed", "canceled"}]
SessionRows == [status : {"idle", "working", "deleted"}, turn : Nat,
                archived : BOOLEAN, mode : Modes]
RunStates == {"none", "running", "succeeded", "failed", "canceled"}
RequestStates == {[pc |-> "idle"]}
    \cup [pc : {"checked", "admitted"}, session : AISessions]
    \cup [pc : {"opened"}, turn : Turns]

\* A lane that is at work, or a branch whose result is awaited.
Engaged(l) == lane[l].pc \in AtWork \cup (IF IsMain(l) THEN {} ELSE {"done"})

AITypes ==
    /\ aiRow \in [AISessions -> SessionRows]
    /\ run \in [Turns -> RunStates]
    /\ request \in [TurnRequests -> RequestStates]
    /\ lane \in [Lanes -> LaneStates]

\* A turn that a request has opened has not begun, and is the request's own.
OpenedTurnsWait ==
    \A r \in TurnRequests : request[r].pc = "opened" =>
      /\ run[request[r].turn] = "running"
      /\ \A l \in Lanes : TurnOf(l) = request[r].turn => lane[l].pc = "none"
      /\ \A q \in TurnRequests :
           request[q].pc = "opened" /\ request[q].turn = request[r].turn => q = r

\* Branches work while their turn delegates, and do not delegate.
BranchesAreDelegated ==
    \A l \in Lanes : ~IsMain(l) =>
      /\ lane[l].kind # "delegate" /\ lane[l].pc \in BranchPcs
      /\ lane[l].pc \notin {"none", "gone"} => lane[Main(TurnOf(l))].pc = "delegating"

AIInv ==
    /\ AITypes
    /\ WorkBelongsToRunningTurn
    /\ \A l \in Lanes : lane[l].pc # "none" => TurnOf(l)[2] <= aiRow[SessionOf(l)].turn
    /\ OpenedTurnsWait
    /\ BranchesAreDelegated
    /\ aiServer = "down" =>
         /\ \A r \in TurnRequests : request[r].pc = "idle"
         /\ \A l \in Lanes : lane[l].pc \in {"none", "gone"}

LEMMA LaneFacts ==
    /\ \A t \in Turns : /\ t[1] \in AISessions /\ t[2] \in Nat /\ Main(t) \in Lanes
                        /\ IsMain(Main(t)) /\ TurnOf(Main(t)) = t
    /\ \A l \in Lanes : /\ TurnOf(l) \in Turns /\ SessionOf(l) \in AISessions
                        /\ SessionOf(l) = TurnOf(l)[1]
                        /\ IsMain(l) <=> l = Main(TurnOf(l))
                        /\ l[2] \in {"main"} \cup Branches
                        /\ IsMain(l) <=> l[2] = "main"
    /\ \A l, k \in Lanes : TurnOf(l) = TurnOf(k) /\ l[2] = k[2] => l = k
    /\ \A t, u \in Turns : t[1] = u[1] /\ t[2] = u[2] => t = u
BY DEF Lanes, Turns, Main, TurnOf, IsMain, SessionOf

LEMMA NoLaneTyped == NoLane \in LaneStates /\ NoLane.pc = "none" /\ NoLane.kind = "read"
                     /\ NoLane.step = 0
BY DEF NoLane, LaneStates, LanePcs, Modes

\* What a step of one lane does to the lanes.
OneLane(l) ==
    /\ lane' \in [Lanes -> LaneStates]
    /\ \A k \in Lanes \ {l} : lane'[k] = lane[k]

LEMMA MovesLane ==
    ASSUME lane \in [Lanes -> LaneStates], NEW l \in Lanes, NEW pc \in LanePcs,
           Moves(l, pc)
    PROVE  OneLane(l) /\ lane'[l].pc = pc /\ lane'[l].kind = lane[l].kind
           /\ lane'[l].step = lane[l].step /\ lane'[l].mode = lane[l].mode
           /\ lane'[l].end = lane[l].end
<1>1. lane[l] \in LaneStates
  OBVIOUS
<1>2. [lane[l] EXCEPT !.pc = pc] \in LaneStates
  BY <1>1 DEF LaneStates
<1>3. lane' = [lane EXCEPT ![l] = [lane[l] EXCEPT !.pc = pc]]
  BY DEF Moves
<1>4. [lane[l] EXCEPT !.pc = pc].pc = pc
      /\ [lane[l] EXCEPT !.pc = pc].kind = lane[l].kind
      /\ [lane[l] EXCEPT !.pc = pc].step = lane[l].step
      /\ [lane[l] EXCEPT !.pc = pc].mode = lane[l].mode
      /\ [lane[l] EXCEPT !.pc = pc].end = lane[l].end
  BY <1>1 DEF LaneStates
<1> QED BY <1>2, <1>3, <1>4 DEF OneLane

LEMMA RepeatsLane ==
    ASSUME lane \in [Lanes -> LaneStates], NEW l \in Lanes, Repeats(l)
    PROVE  OneLane(l) /\ lane'[l].pc = "step" /\ lane'[l].kind = "read"
           /\ lane'[l].step = lane[l].step
<1> DEFINE x == [NoLane EXCEPT !.pc = "step", !.step = lane[l].step]
<1>1. lane[l].step \in Nat
  BY DEF LaneStates
<1>2. x \in LaneStates /\ x.pc = "step" /\ x.kind = "read" /\ x.step = lane[l].step
  BY <1>1 DEF NoLane, LaneStates, LanePcs, Modes
<1>3. lane' = [lane EXCEPT ![l] = x]
  BY DEF Repeats
<1> HIDE DEF x
<1> QED BY <1>2, <1>3 DEF OneLane

LEMMA EndsLane ==
    ASSUME lane \in [Lanes -> LaneStates], NEW l \in Lanes,
           NEW how \in {"succeeded", "failed", "canceled"}, Ends(l, how)
    PROVE  OneLane(l) /\ lane'[l].kind = "read"
           /\ lane'[l].pc = IF IsMain(l) THEN "finishing" ELSE "done"
<1> DEFINE x == [NoLane EXCEPT !.pc = "finishing", !.end = how]
           y == [NoLane EXCEPT !.pc = "done"]
<1>1. x \in LaneStates /\ x.pc = "finishing" /\ x.kind = "read"
      /\ y \in LaneStates /\ y.pc = "done" /\ y.kind = "read"
  BY DEF NoLane, LaneStates, LanePcs, Modes
<1>2. lane' = [lane EXCEPT ![l] = IF IsMain(l) THEN x ELSE y]
  BY DEF Ends
<1> HIDE DEF x, y
<1> QED BY <1>1, <1>2 DEF OneLane

LEMMA FailsLane ==
    ASSUME lane \in [Lanes -> LaneStates], NEW l \in Lanes, Fails(l)
    PROVE  OneLane(l) /\ lane'[l].kind = "read"
           /\ lane'[l].pc = IF IsMain(l) THEN "finishing" ELSE "done"
<1> DEFINE how == IF turnCtx[TurnOf(l)] = "canceled" THEN "canceled" ELSE "failed"
<1>1. how \in {"succeeded", "failed", "canceled"} /\ Ends(l, how)
  BY DEF Fails
<1> HIDE DEF how
<1> QED BY <1>1, EndsLane

\* The loop of a lane between its begin and its end, apart from delegations.
InLoop(l) ==
    \/ LoopBegins(l) \/ StepBegins(l) \/ ModelAnswers(l) \/ AdmitsCall(l)
    \/ ApprovalEnds(l) \/ RechecksUser(l) \/ PerformsCall(l)

LoopPcs == {"begin", "step", "think", "admit", "parked", "recheck", "perform"}

\* What the steps of the loop do to their lane.
LoopMove(l) ==
    /\ lane[l].pc \in LoopPcs
    /\ OneLane(l)
    /\ lane'[l].pc \in (LoopPcs \ {"begin"}) \cup {IF IsMain(l) THEN "finishing" ELSE "done"}
    /\ ~IsMain(l) => lane'[l].kind # "delegate" \/ lane[l].kind = "delegate"

LEMMA ThinksLane ==
    ASSUME lane \in [Lanes -> LaneStates], NEW l \in Lanes, NEW mode \in Modes,
           lane' = [lane EXCEPT ![l].pc = "think", ![l].mode = mode, ![l].step = @ + 1]
    PROVE  OneLane(l) /\ lane'[l].pc = "think" /\ lane'[l].kind = lane[l].kind
           /\ lane'[l].step = lane[l].step + 1 /\ lane'[l].mode = mode
<1> DEFINE x == [lane[l] EXCEPT !.pc = "think", !.mode = mode, !.step = @ + 1]
<1>1. lane[l] \in LaneStates
  OBVIOUS
<1>2. x \in LaneStates /\ x.pc = "think" /\ x.kind = lane[l].kind
      /\ x.step = lane[l].step + 1 /\ x.mode = mode
  BY <1>1 DEF LaneStates, LanePcs
<1>3. lane' = [lane EXCEPT ![l] = x]
  OBVIOUS
<1> HIDE DEF x
<1> QED BY <1>2, <1>3 DEF OneLane

LEMMA WantsLane ==
    ASSUME lane \in [Lanes -> LaneStates], NEW l \in Lanes, NEW kind \in Kinds,
           lane' = [lane EXCEPT ![l].pc = "admit", ![l].kind = kind]
    PROVE  OneLane(l) /\ lane'[l].pc = "admit" /\ lane'[l].kind = kind
           /\ lane'[l].step = lane[l].step /\ lane'[l].mode = lane[l].mode
<1> DEFINE x == [lane[l] EXCEPT !.pc = "admit", !.kind = kind]
<1>1. lane[l] \in LaneStates
  OBVIOUS
<1>2. x \in LaneStates /\ x.pc = "admit" /\ x.kind = kind
      /\ x.step = lane[l].step /\ x.mode = lane[l].mode
  BY <1>1 DEF LaneStates, LanePcs
<1>3. lane' = [lane EXCEPT ![l] = x]
  OBVIOUS
<1> HIDE DEF x
<1> QED BY <1>2, <1>3 DEF OneLane

LEMMA LoopMoves ==
    ASSUME AITypes, NEW l \in Lanes, InLoop(l)
    PROVE  LoopMove(l) /\ UNCHANGED <<aiRow, run, request, aiServer>>
<1> USE DEF AITypes
<1>1. UNCHANGED <<aiRow, run, request, aiServer>>
  BY DEF InLoop, LoopBegins, StepBegins, ModelAnswers, AdmitsCall, ApprovalEnds,
         RechecksUser, PerformsCall, loopFrame, rowVars, startVars
<1> SUFFICES LoopMove(l)
  BY <1>1
<1>2. lane[l].pc \in LoopPcs
  BY DEF InLoop, LoopBegins, StepBegins, ModelAnswers, AdmitsCall, ApprovalEnds,
         RechecksUser, PerformsCall, LoopPcs
<1>3. ASSUME NEW pc \in (LoopPcs \ {"begin"}), Moves(l, pc) PROVE LoopMove(l)
  <2>1. pc \in LanePcs
    BY DEF LoopPcs, LanePcs
  <2> QED BY <1>2, <1>3, <2>1, MovesLane DEF LoopMove
<1>4. ASSUME Repeats(l) PROVE LoopMove(l)
  BY <1>2, <1>4, RepeatsLane DEF LoopMove, LoopPcs
<1>5. ASSUME Fails(l) PROVE LoopMove(l)
  BY <1>2, <1>5, FailsLane DEF LoopMove, LoopPcs
<1>6. ASSUME NEW how \in {"succeeded", "failed", "canceled"}, Ends(l, how)
      PROVE  LoopMove(l)
  BY <1>2, <1>6, EndsLane DEF LoopMove, LoopPcs
<1>7. CASE LoopBegins(l)
  BY <1>3, <1>6, <1>7 DEF LoopBegins, LoopPcs
<1>8. CASE StepBegins(l)
  <2>1. ASSUME NEW mode \in {aiRow[SessionOf(l)].mode, "ask"},
               lane' = [lane EXCEPT ![l].pc = "think", ![l].mode = mode, ![l].step = @ + 1]
        PROVE  LoopMove(l)
    <3>1. mode \in Modes
      BY LaneFacts DEF SessionRows, Modes
    <3> QED BY <1>2, <2>1, <3>1, ThinksLane DEF LoopMove, LoopPcs
  <2> QED BY <1>5, <1>6, <1>8, <2>1 DEF StepBegins
<1>9. CASE ModelAnswers(l)
  <2>1. ASSUME NEW kind \in (IF IsMain(l) THEN Kinds ELSE Kinds \ {"write", "delegate"}),
               lane' = [lane EXCEPT ![l].pc = "admit", ![l].kind = kind]
        PROVE  LoopMove(l)
    <3>1. kind \in Kinds /\ (~IsMain(l) => kind # "delegate")
      BY <2>1
    <3> QED BY <1>2, <2>1, <3>1, WantsLane DEF LoopMove, LoopPcs
  <2> QED BY <1>5, <1>6, <1>9, <2>1 DEF ModelAnswers
<1>10. CASE AdmitsCall(l)
  BY <1>3, <1>4, <1>10 DEF AdmitsCall, LoopPcs
<1>11. CASE ApprovalEnds(l)
  BY <1>3, <1>4, <1>5, <1>6, <1>11 DEF ApprovalEnds, LoopPcs
<1>12. CASE RechecksUser(l)
  BY <1>3, <1>6, <1>12 DEF RechecksUser, LoopPcs
<1>13. CASE PerformsCall(l)
  BY <1>4, <1>13 DEF PerformsCall
<1> QED BY <1>1, <1>7, <1>8, <1>9, <1>10, <1>11, <1>12, <1>13 DEF InLoop

\* A step of a loop leaves its turn the running one.
LEMMA LoopKeepsTurns == ASSUME AIInv, NEW l \in Lanes, InLoop(l) PROVE AIInv'
<1>1. LoopMove(l) /\ UNCHANGED <<aiRow, run, request, aiServer>>
  BY LoopMoves DEF AIInv
<1>2. \A k : IsMain(k)' = IsMain(k) /\ TurnOf(k)' = TurnOf(k) /\ SessionOf(k)' = SessionOf(k)
  BY DEF IsMain, TurnOf, SessionOf
<1>3. AITypes'
  BY <1>1 DEF AIInv, AITypes, LoopMove, OneLane
<1>4. /\ \A k \in Lanes \ {l} : lane'[k] = lane[k]
      /\ lane[l].pc \in LoopPcs
      /\ lane'[l].pc \in (LoopPcs \ {"begin"}) \cup
                            {IF IsMain(l) THEN "finishing" ELSE "done"}
  BY <1>1 DEF LoopMove, OneLane
<1>5. \A k \in Lanes : IsMain(k) \in BOOLEAN /\ TurnOf(k) \in Turns
  BY LaneFacts DEF IsMain
<1>6. WorkBelongsToRunningTurn'
  <2>1. lane[l].pc \in AtWork /\ (lane'[l].pc \in AtWork \/ ~IsMain(l))
    BY <1>4 DEF LoopPcs, AtWork
  <2>2. ASSUME NEW k \in Lanes,
               lane'[k].pc \in AtWork \cup (IF IsMain(k) THEN {} ELSE {"done"})
        PROVE  run[TurnOf(k)] = "running" /\ aiRow[SessionOf(k)].turn = TurnOf(k)[2]
    <3>1. lane[k].pc \in AtWork \cup (IF IsMain(k) THEN {} ELSE {"done"})
      BY <1>4, <2>1, <2>2
    <3> QED BY <3>1 DEF AIInv, WorkBelongsToRunningTurn
  <2>3. \A t \in Turns : run[t] = "running"
          <=> aiRow[t[1]].status = "working" /\ aiRow[t[1]].turn = t[2]
    BY DEF AIInv, WorkBelongsToRunningTurn
  <2> QED BY <1>1, <1>2, <2>2, <2>3 DEF WorkBelongsToRunningTurn
<1>7. \A k \in Lanes : lane'[k].pc # "none" => lane[k].pc # "none"
  BY <1>4 DEF LoopPcs
<1>8. (\A k \in Lanes : lane[k].pc # "none" => TurnOf(k)[2] <= aiRow[SessionOf(k)].turn)'
  BY <1>1, <1>2, <1>7 DEF AIInv
<1>9. OpenedTurnsWait'
  BY <1>1, <1>2, <1>7 DEF AIInv, OpenedTurnsWait
<1>10. BranchesAreDelegated'
  <2>1. ASSUME NEW k \in Lanes, ~IsMain(k)
        PROVE  /\ lane'[k].kind # "delegate" /\ lane'[k].pc \in BranchPcs
               /\ lane'[k].pc \notin {"none", "gone"} =>
                    lane'[Main(TurnOf(k))].pc = "delegating"
    <3>1. /\ lane[k].kind # "delegate" /\ lane[k].pc \in BranchPcs
          /\ lane[k].pc \notin {"none", "gone"} =>
                    lane[Main(TurnOf(k))].pc = "delegating"
      BY <2>1 DEF AIInv, BranchesAreDelegated
    <3>2. Main(TurnOf(k)) \in Lanes /\ Main(TurnOf(k)) # k /\ IsMain(Main(TurnOf(k)))
      BY <2>1, LaneFacts
    <3>3. lane[Main(TurnOf(k))].pc = "delegating" => Main(TurnOf(k)) # l
      BY <1>4 DEF LoopPcs
    <3>4. CASE k = l
      <4>1. lane'[k].pc \in BranchPcs /\ lane'[k].kind # "delegate"
        BY <1>1, <1>4, <2>1, <3>1, <3>4 DEF LoopMove, LoopPcs, BranchPcs
      <4>2. lane[k].pc \notin {"none", "gone"}
        BY <1>4, <3>4 DEF LoopPcs
      <4> QED BY <1>4, <3>1, <3>2, <3>3, <4>1, <4>2
    <3>5. CASE k # l
      BY <1>4, <3>1, <3>2, <3>3, <3>5
    <3> QED BY <3>4, <3>5
  <2> QED BY <1>2, <2>1 DEF BranchesAreDelegated, Main
<1>11. aiServer # "down"
  BY <1>4 DEF AIInv, LoopPcs
<1> QED BY <1>1, <1>3, <1>6, <1>8, <1>9, <1>10, <1>11 DEF AIInv

\* The frame of the lemmas about several lanes: who is main, and whose a lane is,
\* does not change.
LEMMA LaneNames ==
    \A k : /\ IsMain(k)' = IsMain(k) /\ TurnOf(k)' = TurnOf(k)
               /\ SessionOf(k)' = SessionOf(k) /\ Main(k)' = Main(k)
BY DEF IsMain, TurnOf, SessionOf, Main

LEMMA DelegationKeepsTurns ==
    ASSUME AIInv, NEW l \in Lanes, Delegates(l) \/ BranchesReturn(l)
    PROVE  AIInv'
<1> DEFINE t == TurnOf(l)
<1>1. UNCHANGED <<aiRow, run, request, aiServer>>
  BY DEF Delegates, BranchesReturn, loopFrame, rowVars, startVars
<1>2. /\ lane[l].pc \in {"perform", "delegating"}
      /\ lane[l].pc = "perform" => lane[l].kind = "delegate"
  BY DEF Delegates, BranchesReturn
<1>3. IsMain(l) /\ t \in Turns /\ l = Main(t)
  BY <1>2, LaneFacts DEF AIInv, BranchesAreDelegated, BranchPcs
<1>4. lane \in [Lanes -> LaneStates] /\ lane[l] \in LaneStates /\ lane[l].step \in Nat
  BY DEF AIInv, AITypes, LaneStates
<1>5. /\ lane' \in [Lanes -> LaneStates]
      /\ \A k \in Lanes : TurnOf(k) # t => lane'[k] = lane[k]
      /\ \/ /\ lane'[l].pc = "delegating"
            /\ \A k \in Lanes : TurnOf(k) = t /\ ~IsMain(k) =>
                 lane'[k].pc = "step" /\ lane'[k].kind = "read"
         \/ /\ lane'[l].pc = "step"
            /\ \A k \in Lanes : TurnOf(k) = t /\ ~IsMain(k) =>
                 lane'[k].pc = "none" /\ lane'[k].kind = "read"
  <2>1. /\ [lane[l] EXCEPT !.pc = "delegating"] \in LaneStates
        /\ [lane[l] EXCEPT !.pc = "delegating"].pc = "delegating"
    BY <1>4 DEF LaneStates, LanePcs
  <2>2. /\ [NoLane EXCEPT !.pc = "step"] \in LaneStates
        /\ [NoLane EXCEPT !.pc = "step"].pc = "step"
        /\ [NoLane EXCEPT !.pc = "step"].kind = "read"
    BY DEF NoLane, LaneStates, LanePcs, Modes
  <2>3. /\ [NoLane EXCEPT !.pc = "step", !.step = lane[l].step] \in LaneStates
        /\ [NoLane EXCEPT !.pc = "step", !.step = lane[l].step].pc = "step"
    BY <1>4 DEF NoLane, LaneStates, LanePcs, Modes
  <2>4. \A k \in Lanes : ~IsMain(k) => k # l
    BY <1>3
  <2>5. CASE Delegates(l)
    <3>1. lane' = [k \in Lanes |->
             IF k = l THEN [lane[k] EXCEPT !.pc = "delegating"]
             ELSE IF TurnOf(k) = t THEN [NoLane EXCEPT !.pc = "step"] ELSE lane[k]]
      BY <2>5 DEF Delegates
    <3> HIDE DEF t
    <3>2. /\ lane' \in [Lanes -> LaneStates]
          /\ lane'[l] = [lane[l] EXCEPT !.pc = "delegating"]
          /\ \A k \in Lanes : k # l /\ TurnOf(k) = t =>
               lane'[k] = [NoLane EXCEPT !.pc = "step"]
          /\ \A k \in Lanes : k # l /\ TurnOf(k) # t => lane'[k] = lane[k]
      BY <1>4, <2>1, <2>2, <3>1
    <3>3. TurnOf(l) = t
      BY DEF t
    <3> QED BY <2>1, <2>2, <2>4, <3>2, <3>3
  <2>6. CASE BranchesReturn(l)
    <3>1. lane' = [k \in Lanes |->
             IF k = l THEN [NoLane EXCEPT !.pc = "step", !.step = lane[k].step]
             ELSE IF TurnOf(k) = t THEN NoLane ELSE lane[k]]
      BY <2>6 DEF BranchesReturn
    <3> HIDE DEF t
    <3>2. /\ lane' \in [Lanes -> LaneStates]
          /\ lane'[l] = [NoLane EXCEPT !.pc = "step", !.step = lane[l].step]
          /\ \A k \in Lanes : k # l /\ TurnOf(k) = t => lane'[k] = NoLane
          /\ \A k \in Lanes : k # l /\ TurnOf(k) # t => lane'[k] = lane[k]
      BY <1>4, <2>3, NoLaneTyped, <3>1
    <3>3. TurnOf(l) = t
      BY DEF t
    <3> QED BY <2>3, NoLaneTyped, <2>4, <3>2, <3>3
  <2> QED BY <2>5, <2>6
<1>6. run[t] = "running" /\ aiRow[SessionOf(l)].turn = t[2]
  BY <1>2 DEF AIInv, WorkBelongsToRunningTurn, AtWork
<1>7. \A k \in Lanes : TurnOf(k) = t => SessionOf(k) = SessionOf(l)
  BY LaneFacts
<1>8. AITypes'
  BY <1>1, <1>5 DEF AIInv, AITypes
<1>9. WorkBelongsToRunningTurn'
  <2>1. ASSUME NEW k \in Lanes,
               lane'[k].pc \in AtWork \cup (IF IsMain(k) THEN {} ELSE {"done"})
        PROVE  run[TurnOf(k)] = "running" /\ aiRow[SessionOf(k)].turn = TurnOf(k)[2]
    <3>1. CASE TurnOf(k) = t
      BY <1>6, <1>7, <3>1
    <3>2. CASE TurnOf(k) # t
      BY <1>5, <2>1, <3>2 DEF AIInv, WorkBelongsToRunningTurn
    <3> QED BY <3>1, <3>2
  <2>2. \A u \in Turns : run[u] = "running"
          <=> aiRow[u[1]].status = "working" /\ aiRow[u[1]].turn = u[2]
    BY DEF AIInv, WorkBelongsToRunningTurn
  <2> QED BY <1>1, <2>1, <2>2, LaneNames DEF WorkBelongsToRunningTurn
<1>10. ASSUME NEW k \in Lanes, lane'[k].pc # "none"
       PROVE  TurnOf(k)[2] <= aiRow[SessionOf(k)].turn
  <2>1. CASE TurnOf(k) = t
    <3>1. t[2] \in Nat
      BY <1>3, LaneFacts
    <3> QED BY <1>6, <1>7, <2>1, <3>1
  <2>2. CASE TurnOf(k) # t
    BY <1>5, <1>10, <2>2 DEF AIInv
  <2> QED BY <2>1, <2>2
<1>11. OpenedTurnsWait'
  <2>1. ASSUME NEW r \in TurnRequests, request[r].pc = "opened"
        PROVE  request[r].turn # t
    BY <1>2, <2>1 DEF AIInv, OpenedTurnsWait
  <2>2. \A r \in TurnRequests, k \in Lanes :
          request[r].pc = "opened" /\ TurnOf(k) = request[r].turn => lane'[k] = lane[k]
    BY <1>5, <2>1
  <2> QED BY <1>1, <2>2, LaneNames DEF AIInv, OpenedTurnsWait
<1>12. BranchesAreDelegated'
  <2>1. ASSUME NEW k \in Lanes, ~IsMain(k)
        PROVE  /\ lane'[k].kind # "delegate" /\ lane'[k].pc \in BranchPcs
               /\ lane'[k].pc \notin {"none", "gone"} =>
                    lane'[Main(TurnOf(k))].pc = "delegating"
    <3>1. CASE TurnOf(k) = t
      BY <1>3, <1>5, <2>1, <3>1 DEF BranchPcs
    <3>2. CASE TurnOf(k) # t
      <4>1. Main(TurnOf(k)) \in Lanes /\ TurnOf(Main(TurnOf(k))) # t
        BY <3>2, LaneFacts
      <4> QED BY <1>5, <2>1, <3>2, <4>1 DEF AIInv, BranchesAreDelegated
    <3> QED BY <3>1, <3>2
  <2> QED BY <2>1, LaneNames DEF BranchesAreDelegated, Main
<1>13. aiServer # "down"
  BY <1>2 DEF AIInv
<1>14. (\A k \in Lanes : lane[k].pc # "none" => TurnOf(k)[2] <= aiRow[SessionOf(k)].turn)'
  BY <1>1, <1>10, LaneNames
<1> QED BY <1>1, <1>8, <1>9, <1>11, <1>12, <1>13, <1>14 DEF AIInv

\* The end of a turn ends its own run, which is the current one of its session.
LEMMA FinishKeepsTurns == ASSUME AIInv, NEW l \in Lanes, FinishesTurn(l) PROVE AIInv'
<1> DEFINE t == TurnOf(l)
           s == SessionOf(l)
<1>1. lane[l].pc = "finishing" /\ UNCHANGED <<request, aiServer>>
  BY DEF FinishesTurn, startVars
<1>2. IsMain(l) /\ t \in Turns /\ l = Main(t) /\ s \in AISessions /\ s = t[1]
  BY <1>1, LaneFacts DEF AIInv, BranchesAreDelegated, BranchPcs
<1>3. run[t] = "running" /\ aiRow[s].turn = t[2] /\ aiRow[s].status = "working"
  BY <1>1, <1>2 DEF AIInv, WorkBelongsToRunningTurn, AtWork
<1>4. t = <<s, aiRow[s].turn>>
  BY <1>2, <1>3 DEF Turns
<1>5. AITypes /\ lane[l] \in LaneStates
  BY DEF AIInv, AITypes
<1>6. OneLane(l) /\ lane'[l].pc = "cleanup" /\ lane'[l].kind = lane[l].kind
  <2>1. Moves(l, "cleanup") /\ "cleanup" \in LanePcs
    BY DEF FinishesTurn, LanePcs
  <2> QED BY <1>5, <2>1, MovesLane DEF AITypes
<1>7. \/ UNCHANGED <<aiRow, run>>
      \/ /\ run' = [run EXCEPT ![t] = lane[l].end]
         /\ aiRow' = [aiRow EXCEPT ![s].status = "idle"]
  BY <1>4 DEF FinishesTurn, rowVars
<1> HIDE DEF t, s
<1>8. /\ run' \in [Turns -> RunStates] /\ aiRow' \in [AISessions -> SessionRows]
      /\ \A u \in Turns \ {t} : run'[u] = run[u]
      /\ \A u \in AISessions : aiRow'[u].turn = aiRow[u].turn
      /\ \A u \in AISessions : u # s => aiRow'[u].status = aiRow[u].status
      /\ \/ run'[t] = run[t] /\ aiRow'[s] = aiRow[s]
         \/ run'[t] # "running" /\ aiRow'[s].status = "idle"
  <2>1. lane[l].end \in RunStates /\ lane[l].end # "running"
    BY <1>5 DEF LaneStates, RunStates
  <2>2. [aiRow[s] EXCEPT !.status = "idle"] \in SessionRows
        /\ [aiRow[s] EXCEPT !.status = "idle"].turn = aiRow[s].turn
        /\ [aiRow[s] EXCEPT !.status = "idle"].status = "idle"
    BY <1>2, <1>5 DEF AITypes, SessionRows
  <2>3. CASE UNCHANGED <<aiRow, run>>
    BY <2>3, <1>5 DEF AITypes
  <2>4. CASE /\ run' = [run EXCEPT ![t] = lane[l].end]
             /\ aiRow' = [aiRow EXCEPT ![s].status = "idle"]
    <3>1. aiRow' = [aiRow EXCEPT ![s] = [aiRow[s] EXCEPT !.status = "idle"]]
      BY <2>4
    <3> QED BY <1>2, <1>5, <2>1, <2>2, <2>4, <3>1 DEF AITypes
  <2> QED BY <1>7, <2>3, <2>4
<1>9. \A u \in Turns : u # t => run'[u] = run[u]
  BY <1>8
<1>10. \A u \in AISessions : aiRow'[u].turn = aiRow[u].turn
  BY <1>8, Zenon
<1>11. \A u \in AISessions : u # s => aiRow'[u].status = aiRow[u].status
  BY <1>8, Zenon
<1>12. \/ run'[t] = run[t] /\ aiRow'[s].status = aiRow[s].status
       \/ run'[t] # "running" /\ aiRow'[s].status = "idle"
  BY <1>8
<1>13. /\ \A k \in Lanes \ {l} : lane'[k] = lane[k]
      /\ \A k \in Lanes : lane'[k].pc # "none" => lane[k].pc # "none"
  BY <1>1, <1>6 DEF OneLane
<1>14. AITypes'
  BY <1>1, <1>5, <1>6, <1>8 DEF AITypes, OneLane
<1>15. \A k \in Lanes \ {l} :
         ~(TurnOf(k) = t /\ lane[k].pc \in AtWork \cup (IF IsMain(k) THEN {} ELSE {"done"}))
  <2> SUFFICES ASSUME NEW k \in Lanes \ {l}, TurnOf(k) = t,
                      lane[k].pc \in AtWork \cup (IF IsMain(k) THEN {} ELSE {"done"})
               PROVE  FALSE
    OBVIOUS
  <2>1. ~IsMain(k)
    BY <1>2, LaneFacts
  <2> QED BY <1>1, <1>2, <2>1 DEF AIInv, BranchesAreDelegated, AtWork
<1>16. WorkBelongsToRunningTurn'
  <2>1. ASSUME NEW k \in Lanes,
               lane'[k].pc \in AtWork \cup (IF IsMain(k) THEN {} ELSE {"done"})
        PROVE  run'[TurnOf(k)] = "running" /\ aiRow'[SessionOf(k)].turn = TurnOf(k)[2]
    <3>1. k # l
      BY <1>2, <1>6, <2>1 DEF AtWork
    <3>2. lane[k].pc \in AtWork \cup (IF IsMain(k) THEN {} ELSE {"done"})
      BY <1>13, <2>1, <3>1
    <3>3. TurnOf(k) # t /\ TurnOf(k) \in Turns /\ SessionOf(k) \in AISessions
      BY <1>15, <3>1, <3>2, LaneFacts
    <3>4. run[TurnOf(k)] = "running" /\ aiRow[SessionOf(k)].turn = TurnOf(k)[2]
      BY <3>2 DEF AIInv, WorkBelongsToRunningTurn
    <3> QED BY <1>9, <1>10, <3>3, <3>4
  <2>2. ASSUME NEW u \in Turns
        PROVE  run'[u] = "running"
                 <=> aiRow'[u[1]].status = "working" /\ aiRow'[u[1]].turn = u[2]
    <3>1. run[u] = "running" <=> aiRow[u[1]].status = "working" /\ aiRow[u[1]].turn = u[2]
      BY DEF AIInv, WorkBelongsToRunningTurn
    <3>2. u[1] \in AISessions /\ (u[1] = s /\ u[2] = t[2] => u = t)
      BY <1>2, LaneFacts
    <3>3. CASE u = t
      BY <1>2, <1>3, <1>10, <1>12, <3>3
    <3>4. CASE u # t /\ u[1] = s
      BY <1>2, <1>3, <1>9, <1>10, <3>1, <3>2, <3>4
    <3>5. CASE u # t /\ u[1] # s
      BY <1>9, <1>10, <1>11, <3>1, <3>2, <3>5
    <3> QED BY <3>3, <3>4, <3>5
  <2> QED BY <2>1, <2>2, LaneNames DEF WorkBelongsToRunningTurn
<1>17. ASSUME NEW k \in Lanes, lane'[k].pc # "none"
       PROVE  TurnOf(k)[2] <= aiRow'[SessionOf(k)].turn
  <2>1. TurnOf(k)[2] <= aiRow[SessionOf(k)].turn
    BY <1>13, <1>17 DEF AIInv
  <2> QED BY <1>10, <2>1, LaneFacts
<1>18. OpenedTurnsWait'
  <2>1. ASSUME NEW r \in TurnRequests, request[r].pc = "opened"
        PROVE  request[r].turn # t /\ request[r].turn \in Turns
    <3>1. request[r].turn # t
      BY <1>1, <2>1 DEF AIInv, OpenedTurnsWait, t
    <3>2. request[r] \in RequestStates
      BY <1>5 DEF AITypes
    <3> QED BY <2>1, <3>1, <3>2 DEF RequestStates
  <2>2. \A r \in TurnRequests : request[r].pc = "opened" =>
          run'[request[r].turn] = run[request[r].turn]
    BY <1>8, <2>1
  <2> QED BY <1>1, <1>13, <2>2, LaneNames DEF AIInv, OpenedTurnsWait
<1>19. BranchesAreDelegated'
  <2>1. ASSUME NEW k \in Lanes, ~IsMain(k)
        PROVE  /\ lane'[k].kind # "delegate" /\ lane'[k].pc \in BranchPcs
               /\ lane'[k].pc \notin {"none", "gone"} =>
                    lane'[Main(TurnOf(k))].pc = "delegating"
    <3>1. k # l /\ Main(TurnOf(k)) \in Lanes
      BY <1>2, <2>1, LaneFacts
    <3> QED BY <1>1, <1>13, <2>1, <3>1 DEF AIInv, BranchesAreDelegated
  <2> QED BY <2>1, LaneNames DEF BranchesAreDelegated, Main
<1>20. aiServer # "down"
  BY <1>1 DEF AIInv
<1>21. (\A k \in Lanes : lane[k].pc # "none" => TurnOf(k)[2] <= aiRow[SessionOf(k)].turn)'
  BY <1>17, LaneNames
<1> QED BY <1>1, <1>14, <1>16, <1>18, <1>19, <1>20, <1>21 DEF AIInv

\* What is left of a turn that has ended: nobody works for it.
LEMMA LeavingKeepsTurns ==
    ASSUME AIInv, NEW l \in Lanes, ClosesToolTurn(l) \/ LeavesJobs(l)
    PROVE  AIInv'
<1>1. lane[l].pc \in {"cleanup", "leaving"} /\ UNCHANGED <<aiRow, run, request, aiServer>>
  BY DEF ClosesToolTurn, LeavesJobs, rowVars, startVars
<1>2. IsMain(l)
  BY <1>1 DEF AIInv, BranchesAreDelegated, BranchPcs
<1>3. lane \in [Lanes -> LaneStates]
  BY DEF AIInv, AITypes
<1>4. OneLane(l) /\ lane'[l].pc \in {"leaving", "gone"}
  <2>1. CASE ClosesToolTurn(l)
    <3>1. Moves(l, "leaving") /\ "leaving" \in LanePcs
      BY <2>1 DEF ClosesToolTurn, LanePcs
    <3> QED BY <1>3, <3>1, MovesLane
  <2>2. CASE LeavesJobs(l)
    <3> DEFINE x == [NoLane EXCEPT !.pc = "gone"]
    <3>1. x \in LaneStates /\ x.pc = "gone"
      BY DEF NoLane, LaneStates, LanePcs, Modes
    <3>2. lane' = [lane EXCEPT ![l] = x]
      BY <2>2 DEF LeavesJobs
    <3> HIDE DEF x
    <3> QED BY <1>3, <3>1, <3>2 DEF OneLane
  <2> QED BY <2>1, <2>2
<1>5. /\ \A k \in Lanes \ {l} : lane'[k] = lane[k]
      /\ \A k \in Lanes : lane'[k].pc # "none" => lane[k].pc # "none"
  BY <1>1, <1>4 DEF OneLane
<1>6. AITypes'
  BY <1>1, <1>4 DEF AIInv, AITypes, OneLane
<1>7. WorkBelongsToRunningTurn'
  <2>1. \A k \in Lanes : lane'[k].pc \in AtWork \cup (IF IsMain(k) THEN {} ELSE {"done"})
          => lane[k].pc \in AtWork \cup (IF IsMain(k) THEN {} ELSE {"done"})
    BY <1>2, <1>4, <1>5 DEF AtWork
  <2> QED BY <1>1, <2>1, LaneNames DEF AIInv, WorkBelongsToRunningTurn
<1>8. OpenedTurnsWait'
  BY <1>1, <1>5, LaneNames DEF AIInv, OpenedTurnsWait
<1>9. BranchesAreDelegated'
  <2>1. ASSUME NEW k \in Lanes, ~IsMain(k)
        PROVE  /\ lane'[k].kind # "delegate" /\ lane'[k].pc \in BranchPcs
               /\ lane'[k].pc \notin {"none", "gone"} =>
                    lane'[Main(TurnOf(k))].pc = "delegating"
    <3>1. k # l /\ Main(TurnOf(k)) \in Lanes
      BY <1>2, <2>1, LaneFacts
    <3> QED BY <1>1, <1>5, <2>1, <3>1 DEF AIInv, BranchesAreDelegated
  <2> QED BY <2>1, LaneNames DEF BranchesAreDelegated, Main
<1>10. aiServer # "down"
  BY <1>1 DEF AIInv
<1>11. (\A k \in Lanes : lane[k].pc # "none" => TurnOf(k)[2] <= aiRow[SessionOf(k)].turn)'
  BY <1>1, <1>5, LaneNames DEF AIInv
<1> QED BY <1>1, <1>6, <1>7, <1>8, <1>9, <1>10, <1>11 DEF AIInv

LEMMA RequestFacts ==
    \A x \in RequestStates :
      /\ x.pc \in {"idle", "checked", "admitted", "opened"}
      /\ x.pc \in {"checked", "admitted"} => x.session \in AISessions
                                            /\ x = [pc |-> x.pc, session |-> x.session]
      /\ x.pc = "opened" => x.turn \in Turns
BY DEF RequestStates

\* A request that does not open a turn, and whatever changes neither the number nor
\* the status of a session, leaves the turns alone.
LEMMA RestKeepsTurns ==
    ASSUME AIInv, UNCHANGED <<run, lane>>,
           request' \in [TurnRequests -> RequestStates],
           \A q \in TurnRequests : request'[q].pc = "opened" => request'[q] = request[q],
           aiRow' \in [AISessions -> SessionRows],
           \A s \in AISessions :
             aiRow'[s].status = aiRow[s].status /\ aiRow'[s].turn = aiRow[s].turn,
           aiServer' = "down" => aiServer = "down" /\ request' = request
    PROVE  AIInv'
<1>1. AITypes'
  BY DEF AIInv, AITypes
<1>2. WorkBelongsToRunningTurn'
  <2>1. \A k \in Lanes : SessionOf(k) \in AISessions
    BY LaneFacts
  <2>2. \A t \in Turns : t[1] \in AISessions
    BY LaneFacts
  <2>3. \A k \in Lanes :
          lane[k].pc \in AtWork \cup (IF IsMain(k) THEN {} ELSE {"done"})
            => run[TurnOf(k)] = "running" /\ aiRow'[SessionOf(k)].turn = TurnOf(k)[2]
    BY <2>1 DEF AIInv, WorkBelongsToRunningTurn
  <2>4. \A t \in Turns : run[t] = "running"
          <=> aiRow'[t[1]].status = "working" /\ aiRow'[t[1]].turn = t[2]
    BY <2>2 DEF AIInv, WorkBelongsToRunningTurn
  <2> QED BY <2>3, <2>4, LaneNames DEF WorkBelongsToRunningTurn
<1>3. (\A k \in Lanes : lane[k].pc # "none" => TurnOf(k)[2] <= aiRow[SessionOf(k)].turn)'
  BY LaneNames, LaneFacts DEF AIInv
<1>4. OpenedTurnsWait'
  BY LaneNames DEF AIInv, OpenedTurnsWait
<1>5. BranchesAreDelegated'
  BY LaneNames DEF AIInv, BranchesAreDelegated, Main
<1>6. (aiServer = "down" =>
         /\ \A r \in TurnRequests : request[r].pc = "idle"
         /\ \A l \in Lanes : lane[l].pc \in {"none", "gone"})'
  BY DEF AIInv
<1> QED BY <1>1, <1>2, <1>3, <1>4, <1>5, <1>6 DEF AIInv

\* A turn that is opened is the only running one of a session that was idle.
LEMMA CommitKeepsTurns == ASSUME AIInv, NEW r \in TurnRequests, StartCommits(r) PROVE AIInv'
<1> DEFINE s == request[r].session
           n == aiRow[s].turn
           t == <<s, n + 1>>
<1>1. /\ request[r].pc = "admitted" /\ request[r] \in RequestStates
      /\ UNCHANGED <<lane, aiServer>>
  BY DEF StartCommits, AIInv, AITypes
<1>2. s \in AISessions /\ n \in Nat /\ aiRow[s] \in SessionRows /\ aiServer # "down"
  BY <1>1, RequestFacts DEF AIInv, AITypes, SessionRows
<1>3. \/ /\ request' = [request EXCEPT ![r] = [pc |-> "idle"]]
         /\ UNCHANGED <<aiRow, run>>
      \/ /\ aiRow[s].status = "idle" /\ t \in Turns
         /\ aiRow' = [aiRow EXCEPT ![s].status = "working", ![s].turn = @ + 1]
         /\ run' = [run EXCEPT ![t] = "running"]
         /\ request' = [request EXCEPT ![r] = [pc |-> "opened", turn |-> t]]
  BY DEF StartCommits, rowVars
<1>4. AITypes
  BY DEF AIInv
<1> HIDE DEF t, s, n
<1>5. CASE /\ request' = [request EXCEPT ![r] = [pc |-> "idle"]]
           /\ UNCHANGED <<aiRow, run>>
  <2>1. [pc |-> "idle"] \in RequestStates /\ [pc |-> "idle"].pc = "idle"
    BY DEF RequestStates
  <2>2. request' \in [TurnRequests -> RequestStates]
        /\ \A q \in TurnRequests : request'[q].pc = "opened" => request'[q] = request[q]
    BY <1>4, <1>5, <2>1 DEF AITypes
  <2> QED BY <1>1, <1>2, <1>4, <1>5, <2>2, RestKeepsTurns DEF AITypes
<1>6. CASE /\ aiRow[s].status = "idle" /\ t \in Turns
           /\ aiRow' = [aiRow EXCEPT ![s].status = "working", ![s].turn = @ + 1]
           /\ run' = [run EXCEPT ![t] = "running"]
           /\ request' = [request EXCEPT ![r] = [pc |-> "opened", turn |-> t]]
  <2>1. t[1] = s /\ t[2] = n + 1 /\ t \in Turns
    BY <1>6 DEF t
  <2>2. /\ [pc |-> "opened", turn |-> t] \in RequestStates
        /\ [pc |-> "opened", turn |-> t].pc = "opened"
        /\ [pc |-> "opened", turn |-> t].turn = t
    BY <2>1 DEF RequestStates
  <2>3. /\ request' \in [TurnRequests -> RequestStates]
        /\ request'[r].pc = "opened" /\ request'[r].turn = t
        /\ \A q \in TurnRequests \ {r} : request'[q] = request[q]
    BY <1>4, <1>6, <2>2 DEF AITypes
  <2>4. /\ run' \in [Turns -> RunStates] /\ run'[t] = "running"
        /\ \A u \in Turns \ {t} : run'[u] = run[u]
    BY <1>4, <1>6 DEF AITypes, RunStates
  <2> DEFINE x == [aiRow[s] EXCEPT !.status = "working", !.turn = @ + 1]
  <2>5. x \in SessionRows /\ x.status = "working" /\ x.turn = n + 1
    <3>1. aiRow[s].turn = n
      BY DEF n
    <3>2. ASSUME NEW row \in SessionRows, NEW m \in Nat
          PROVE  LET y == [row EXCEPT !.status = "working", !.turn = m]
                 IN  y \in SessionRows /\ y.status = "working" /\ y.turn = m
      BY DEF SessionRows
    <3>3. n + 1 \in Nat /\ x = [aiRow[s] EXCEPT !.status = "working", !.turn = n + 1]
      BY <1>2, <3>1
    <3> HIDE DEF x
    <3> QED BY <1>2, <3>2, <3>3
  <2>6. aiRow' = [aiRow EXCEPT ![s] = x]
    BY <1>6
  <2> HIDE DEF x
  <2>7. /\ aiRow' \in [AISessions -> SessionRows]
        /\ aiRow'[s].status = "working" /\ aiRow'[s].turn = n + 1
        /\ \A u \in AISessions \ {s} : aiRow'[u] = aiRow[u]
    BY <1>2, <1>4, <2>5, <2>6 DEF AITypes
  <2>8. AITypes'
    BY <1>1, <1>4, <2>3, <2>4, <2>7 DEF AITypes
  <2>9. \A u \in Turns : u[1] = s => run[u] # "running"
    BY <1>6 DEF AIInv, WorkBelongsToRunningTurn
  <2>10. \A k \in Lanes : SessionOf(k) = s => lane[k].pc \notin AtWork
           /\ ~(~IsMain(k) /\ lane[k].pc = "done")
    BY <2>9, LaneFacts DEF AIInv, WorkBelongsToRunningTurn
  <2>11. \A k \in Lanes : TurnOf(k) = t => SessionOf(k) = s
    BY <2>1, LaneFacts
  <2>12. WorkBelongsToRunningTurn'
    <3>1. ASSUME NEW k \in Lanes,
                 lane[k].pc \in AtWork \cup (IF IsMain(k) THEN {} ELSE {"done"})
          PROVE  run'[TurnOf(k)] = "running" /\ aiRow'[SessionOf(k)].turn = TurnOf(k)[2]
      <4>1. SessionOf(k) # s /\ TurnOf(k) # t
        BY <2>10, <2>11, <3>1
      <4>2. run[TurnOf(k)] = "running" /\ aiRow[SessionOf(k)].turn = TurnOf(k)[2]
        BY <3>1 DEF AIInv, WorkBelongsToRunningTurn
      <4>3. TurnOf(k) \in Turns /\ SessionOf(k) \in AISessions
        BY LaneFacts
      <4>4. run'[TurnOf(k)] = run[TurnOf(k)]
        BY <2>4, <4>1, <4>3
      <4>5. aiRow'[SessionOf(k)] = aiRow[SessionOf(k)]
        BY <2>7, <4>1, <4>3
      <4> QED BY <4>2, <4>4, <4>5
    <3>2. ASSUME NEW u \in Turns
          PROVE  run'[u] = "running"
                   <=> aiRow'[u[1]].status = "working" /\ aiRow'[u[1]].turn = u[2]
      <4>1. run[u] = "running" <=> aiRow[u[1]].status = "working" /\ aiRow[u[1]].turn = u[2]
        BY DEF AIInv, WorkBelongsToRunningTurn
      <4>2. u[1] \in AISessions /\ (u[1] = s /\ u[2] = n + 1 => u = t)
        BY <2>1, LaneFacts
      <4>3. CASE u = t
        BY <2>1, <2>4, <2>7, <4>3
      <4>4. CASE u # t /\ u[1] = s
        BY <2>4, <2>7, <2>9, <4>2, <4>4
      <4>5. CASE u # t /\ u[1] # s
        BY <2>4, <2>7, <4>1, <4>2, <4>5
      <4> QED BY <4>3, <4>4, <4>5
    <3> QED BY <1>1, <3>1, <3>2, LaneNames DEF WorkBelongsToRunningTurn
  <2>13. ASSUME NEW k \in Lanes, lane[k].pc # "none"
         PROVE  TurnOf(k)[2] <= aiRow'[SessionOf(k)].turn /\ TurnOf(k) # t
    <3>1. TurnOf(k)[2] <= aiRow[SessionOf(k)].turn
      BY <2>13 DEF AIInv
    <3>2. SessionOf(k) \in AISessions /\ TurnOf(k)[2] \in Nat
      BY LaneFacts
    <3>3. CASE SessionOf(k) = s
      <4>1. TurnOf(k)[2] <= n
        BY <3>1, <3>3 DEF n
      <4> QED BY <1>2, <2>1, <2>7, <3>2, <3>3, <4>1
    <3>4. CASE SessionOf(k) # s
      BY <2>7, <2>11, <3>1, <3>2, <3>4
    <3> QED BY <3>3, <3>4
  <2>14. OpenedTurnsWait'
    <3>1. ASSUME NEW q \in TurnRequests, q # r, request'[q].pc = "opened"
          PROVE  /\ request'[q] = request[q]
                 /\ request[q].turn \in Turns /\ request[q].turn # t
                 /\ run'[request[q].turn] = "running"
                 /\ \A l \in Lanes : TurnOf(l) = request[q].turn => lane[l].pc = "none"
      <4>1. request'[q] = request[q]
        BY <2>3, <3>1
      <4>2. request[q].turn \in Turns
        BY <1>4, <3>1, <4>1, RequestFacts DEF AITypes
      <4>3. /\ run[request[q].turn] = "running"
            /\ \A l \in Lanes : TurnOf(l) = request[q].turn => lane[l].pc = "none"
        BY <3>1, <4>1 DEF AIInv, OpenedTurnsWait
      <4>4. request[q].turn # t
        BY <2>1, <2>9, <4>3
      <4>5. run'[request[q].turn] = run[request[q].turn]
        BY <2>4, <4>2, <4>4
      <4> QED BY <4>1, <4>2, <4>3, <4>4, <4>5
    <3>2. ASSUME NEW q \in TurnRequests \ {r}, NEW p \in TurnRequests \ {r},
                 request'[q].pc = "opened", request'[p].pc = "opened",
                 request'[q].turn = request'[p].turn
          PROVE  q = p
      <4>1. request'[q] = request[q] /\ request'[p] = request[p]
        BY <2>3
      <4> QED BY <3>2, <4>1 DEF AIInv, OpenedTurnsWait
    <3> QED BY <1>1, <2>3, <2>4, <2>13, <3>1, <3>2, LaneNames DEF OpenedTurnsWait
  <2>15. BranchesAreDelegated'
    BY <1>1, LaneNames DEF AIInv, BranchesAreDelegated, Main
  <2>16. (\A k \in Lanes : lane[k].pc # "none" => TurnOf(k)[2] <= aiRow[SessionOf(k)].turn)'
    BY <1>1, <2>13, LaneNames
  <2> QED BY <1>1, <1>2, <2>8, <2>12, <2>14, <2>15, <2>16 DEF AIInv
<1> QED BY <1>3, <1>5, <1>6

\* The request sets the loop of its turn going.
LEMMA RegisterKeepsTurns == ASSUME AIInv, NEW r \in TurnRequests, StartRegisters(r) PROVE AIInv'
<1> DEFINE t == request[r].turn
           l == Main(t)
<1>1. /\ request[r].pc = "opened" /\ request[r] \in RequestStates
      /\ request' = [request EXCEPT ![r] = [pc |-> "idle"]]
      /\ lane' = [lane EXCEPT ![l].pc = "begin"]
      /\ UNCHANGED <<aiRow, run, aiServer>> /\ AITypes
  BY DEF StartRegisters, AIInv, AITypes, rowVars
<1>2. t \in Turns /\ l \in Lanes /\ TurnOf(l) = t /\ IsMain(l) /\ SessionOf(l) = t[1]
  BY <1>1, RequestFacts, LaneFacts
<1>3. /\ run[t] = "running" /\ aiRow[t[1]].turn = t[2]
      /\ \A k \in Lanes : TurnOf(k) = t => lane[k].pc = "none"
      /\ \A q \in TurnRequests : request[q].pc = "opened" /\ request[q].turn = t => q = r
  BY <1>1, <1>2 DEF AIInv, OpenedTurnsWait, WorkBelongsToRunningTurn
<1> HIDE DEF t, l
<1>4. OneLane(l) /\ lane'[l].pc = "begin"
  <2>1. Moves(l, "begin") /\ "begin" \in LanePcs
    BY <1>1 DEF Moves, LanePcs
  <2> QED BY <1>1, <1>2, <2>1, MovesLane DEF AITypes
<1>5. \A k \in Lanes \ {l} : lane'[k] = lane[k]
  BY <1>4 DEF OneLane
<1>6. /\ request' \in [TurnRequests -> RequestStates] /\ request'[r].pc = "idle"
      /\ \A q \in TurnRequests \ {r} : request'[q] = request[q]
  <2>1. [pc |-> "idle"] \in RequestStates /\ [pc |-> "idle"].pc = "idle"
    BY DEF RequestStates
  <2> QED BY <1>1, <2>1 DEF AITypes
<1>7. AITypes'
  BY <1>1, <1>4, <1>6 DEF AITypes, OneLane
<1>8. WorkBelongsToRunningTurn'
  <2>1. ASSUME NEW k \in Lanes,
               lane'[k].pc \in AtWork \cup (IF IsMain(k) THEN {} ELSE {"done"})
        PROVE  run[TurnOf(k)] = "running" /\ aiRow[SessionOf(k)].turn = TurnOf(k)[2]
    <3>1. CASE k = l
      BY <1>2, <1>3, <3>1
    <3>2. CASE k # l
      BY <1>5, <2>1, <3>2 DEF AIInv, WorkBelongsToRunningTurn
    <3> QED BY <3>1, <3>2
  <2>2. \A u \in Turns : run[u] = "running"
          <=> aiRow[u[1]].status = "working" /\ aiRow[u[1]].turn = u[2]
    BY DEF AIInv, WorkBelongsToRunningTurn
  <2> QED BY <1>1, <2>1, <2>2, LaneNames DEF WorkBelongsToRunningTurn
<1>9. ASSUME NEW k \in Lanes, lane'[k].pc # "none"
      PROVE  TurnOf(k)[2] <= aiRow[SessionOf(k)].turn
  <2>1. CASE k = l
    <3>1. t[2] \in Nat
      BY <1>2, LaneFacts
    <3> QED BY <1>2, <1>3, <2>1, <3>1
  <2>2. CASE k # l
    BY <1>5, <1>9, <2>2 DEF AIInv
  <2> QED BY <2>1, <2>2
<1>10. OpenedTurnsWait'
  <2>1. ASSUME NEW q \in TurnRequests, request'[q].pc = "opened"
        PROVE  q # r /\ request'[q] = request[q] /\ request[q].turn # t
    BY <1>3, <1>6, <2>1
  <2>2. \A q \in TurnRequests, k \in Lanes :
          request'[q].pc = "opened" /\ TurnOf(k) = request[q].turn => lane'[k] = lane[k]
    BY <1>2, <1>5, <2>1
  <2>3. ASSUME NEW q \in TurnRequests, request'[q].pc = "opened"
        PROVE  /\ run[request'[q].turn] = "running"
               /\ \A k \in Lanes : TurnOf(k) = request'[q].turn => lane'[k].pc = "none"
               /\ \A p \in TurnRequests :
                    request'[p].pc = "opened" /\ request'[p].turn = request'[q].turn
                      => p = q
    <3>1. /\ run[request[q].turn] = "running"
          /\ \A k \in Lanes : TurnOf(k) = request[q].turn => lane[k].pc = "none"
          /\ \A p \in TurnRequests :
               request[p].pc = "opened" /\ request[p].turn = request[q].turn => p = q
      BY <2>1, <2>3 DEF AIInv, OpenedTurnsWait
    <3> QED BY <2>1, <2>2, <2>3, <3>1
  <2> QED BY <1>1, <2>3, LaneNames DEF OpenedTurnsWait
<1>11. BranchesAreDelegated'
  <2>1. ASSUME NEW k \in Lanes, ~IsMain(k)
        PROVE  /\ lane'[k].kind # "delegate" /\ lane'[k].pc \in BranchPcs
               /\ lane'[k].pc \notin {"none", "gone"} =>
                    lane'[Main(TurnOf(k))].pc = "delegating"
    <3>1. k # l /\ Main(TurnOf(k)) \in Lanes /\ lane[l].pc = "none"
      BY <1>2, <1>3, <2>1, LaneFacts
    <3> QED BY <1>5, <2>1, <3>1, LaneFacts DEF AIInv, BranchesAreDelegated
  <2> QED BY <2>1, LaneNames DEF BranchesAreDelegated, Main
<1>12. aiServer # "down"
  BY <1>1 DEF AIInv
<1>13. (\A k \in Lanes : lane[k].pc # "none" => TurnOf(k)[2] <= aiRow[SessionOf(k)].turn)'
  BY <1>1, <1>9, LaneNames
<1> QED BY <1>1, <1>7, <1>8, <1>10, <1>11, <1>12, <1>13 DEF AIInv

\* Requests before they open a turn, and what a person does.
LEMMA OthersKeepTurns ==
    ASSUME AIInv,
           \/ \E r \in TurnRequests : StartAdmits(r) \/ \E s \in AISessions : StartChecks(r, s)
           \/ \E l \in Lanes, d \in {"approved", "denied"} : Decide(l, d)
           \/ \E s \in AISessions : CancelTurn(s) \/ ArchiveSession(s)
           \/ \E s \in AISessions, mode \in Modes : SwitchMode(s, mode)
           \/ \E t \in Turns : TurnTimesOut(t)
           \/ ChangesAccess
           \/ UNCHANGED aiVars
    PROVE  AIInv'
<1>1. AITypes
  BY DEF AIInv
<1>2. ASSUME UNCHANGED <<aiRow, run, lane, request, aiServer>> PROVE AIInv'
  BY <1>1, <1>2, RestKeepsTurns DEF AITypes
<1>3. ASSUME NEW r \in TurnRequests, NEW x \in RequestStates, x.pc # "opened",
             request' = [request EXCEPT ![r] = x], UNCHANGED <<aiRow, run, lane, aiServer>>,
             aiServer # "down"
      PROVE  AIInv'
  <2>1. request' \in [TurnRequests -> RequestStates]
        /\ \A q \in TurnRequests : request'[q].pc = "opened" => request'[q] = request[q]
    BY <1>1, <1>3 DEF AITypes
  <2> QED BY <1>1, <1>3, <2>1, RestKeepsTurns DEF AITypes
<1>4. ASSUME NEW s \in AISessions, NEW x \in SessionRows,
             x.status = aiRow[s].status, x.turn = aiRow[s].turn,
             aiRow' = [aiRow EXCEPT ![s] = x], UNCHANGED <<request, run, lane, aiServer>>
      PROVE  AIInv'
  <2>1. aiRow' \in [AISessions -> SessionRows]
        /\ \A u \in AISessions :
             aiRow'[u].status = aiRow[u].status /\ aiRow'[u].turn = aiRow[u].turn
    BY <1>1, <1>4 DEF AITypes
  <2> QED BY <1>1, <1>4, <2>1, RestKeepsTurns DEF AITypes
<1>5. [pc |-> "idle"] \in RequestStates /\ [pc |-> "idle"].pc # "opened"
  BY DEF RequestStates
<1>6. ASSUME NEW r \in TurnRequests, StartAdmits(r) PROVE AIInv'
  <2>1. request[r].pc = "checked" /\ request[r] \in RequestStates
        /\ UNCHANGED <<aiRow, run, lane, aiServer>>
    BY <1>1, <1>6 DEF StartAdmits, AITypes, rowVars
  <2>2. aiServer # "down"
    BY <2>1 DEF AIInv
  <2> DEFINE x == [pc |-> "admitted", session |-> request[r].session]
  <2>3. x \in RequestStates /\ x.pc # "opened"
    BY <2>1, RequestFacts DEF RequestStates
  <2>4. [request[r] EXCEPT !.pc = "admitted"] = x
    BY <2>1, RequestFacts
  <2>5. \/ request' = [request EXCEPT ![r] = [request[r] EXCEPT !.pc = "admitted"]]
        \/ request' = [request EXCEPT ![r] = [pc |-> "idle"]]
    BY <1>6 DEF StartAdmits
  <2>6. request' = [request EXCEPT ![r] = x] \/ request' = [request EXCEPT ![r] = [pc |-> "idle"]]
    BY <2>4, <2>5
  <2> HIDE DEF x
  <2> QED BY <1>3, <1>5, <2>1, <2>2, <2>3, <2>6
<1>7. ASSUME NEW r \in TurnRequests, NEW s \in AISessions, StartChecks(r, s) PROVE AIInv'
  <2>1. request' = [request EXCEPT ![r] = [pc |-> "checked", session |-> s]]
        /\ UNCHANGED <<aiRow, run, lane, aiServer>> /\ aiServer # "down"
    BY <1>7 DEF StartChecks, rowVars
  <2> DEFINE x == [pc |-> "checked", session |-> s]
  <2>2. x \in RequestStates /\ x.pc # "opened"
    BY DEF RequestStates
  <2> HIDE DEF x
  <2> QED BY <1>3, <2>1, <2>2 DEF x
<1>8. ASSUME NEW l \in Lanes, NEW d \in {"approved", "denied"}, Decide(l, d) PROVE AIInv'
  BY <1>2, <1>8 DEF Decide, rowVars, startVars
<1>9. ASSUME NEW s \in AISessions, CancelTurn(s) PROVE AIInv'
  BY <1>2, <1>9 DEF CancelTurn, rowVars, startVars
<1>10. ASSUME NEW s \in AISessions, ArchiveSession(s) PROVE AIInv'
  <2> DEFINE x == [aiRow[s] EXCEPT !.archived = TRUE]
  <2>1. aiRow[s] \in SessionRows
    BY <1>1 DEF AITypes
  <2>2. x \in SessionRows /\ x.status = aiRow[s].status /\ x.turn = aiRow[s].turn
    BY <2>1 DEF SessionRows
  <2>3. aiRow' = [aiRow EXCEPT ![s] = x] /\ UNCHANGED <<request, run, lane, aiServer>>
    BY <1>10 DEF ArchiveSession, startVars
  <2> HIDE DEF x
  <2> QED BY <1>4, <2>2, <2>3
<1>11. ASSUME NEW s \in AISessions, NEW mode \in Modes, SwitchMode(s, mode) PROVE AIInv'
  <2> DEFINE x == [aiRow[s] EXCEPT !.mode = mode]
  <2>1. aiRow[s] \in SessionRows
    BY <1>1 DEF AITypes
  <2>2. x \in SessionRows /\ x.status = aiRow[s].status /\ x.turn = aiRow[s].turn
    BY <2>1 DEF SessionRows
  <2>3. aiRow' = [aiRow EXCEPT ![s] = x] /\ UNCHANGED <<request, run, lane, aiServer>>
    BY <1>11 DEF SwitchMode, startVars
  <2> HIDE DEF x
  <2> QED BY <1>4, <2>2, <2>3
<1>12. ASSUME NEW t \in Turns, TurnTimesOut(t) PROVE AIInv'
  BY <1>2, <1>12 DEF TurnTimesOut, rowVars, startVars
<1>13. CASE ChangesAccess
  BY <1>2, <1>13 DEF ChangesAccess, rowVars, startVars
<1>14. CASE UNCHANGED aiVars
  BY <1>2, <1>14 DEF aiVars, rowVars, startVars
<1> QED BY <1>6, <1>7, <1>8, <1>9, <1>10, <1>11, <1>12, <1>13, <1>14

LEMMA DeleteKeepsTurns == ASSUME AIInv, NEW s \in AISessions, DeleteSession(s) PROVE AIInv'
<1>1. /\ aiRow[s].status = "idle" /\ aiRow' = [aiRow EXCEPT ![s].status = "deleted"]
      /\ run' = [t \in Turns |-> IF t[1] = s THEN "none" ELSE run[t]]
      /\ UNCHANGED <<request, lane, aiServer>> /\ aiServer = "up"
  BY DEF DeleteSession, startVars
<1>2. AITypes
  BY DEF AIInv
<1>3. /\ aiRow' \in [AISessions -> SessionRows]
      /\ aiRow'[s].status = "deleted"
      /\ \A u \in AISessions : aiRow'[u].turn = aiRow[u].turn
      /\ \A u \in AISessions : u # s => aiRow'[u].status = aiRow[u].status
  <2> DEFINE x == [aiRow[s] EXCEPT !.status = "deleted"]
  <2>1. aiRow[s] \in SessionRows
    BY <1>2 DEF AITypes
  <2>2. x \in SessionRows /\ x.status = "deleted" /\ x.turn = aiRow[s].turn
    BY <2>1 DEF SessionRows
  <2>3. aiRow' = [aiRow EXCEPT ![s] = x]
    BY <1>1
  <2> HIDE DEF x
  <2> QED BY <1>2, <2>2, <2>3 DEF AITypes
<1>4. run' \in [Turns -> RunStates] /\ \A t \in Turns : t[1] # s => run'[t] = run[t]
  BY <1>1, <1>2 DEF AITypes, RunStates
<1>5. \A t \in Turns : t[1] = s => run[t] # "running" /\ run'[t] = "none"
  BY <1>1 DEF AIInv, WorkBelongsToRunningTurn
<1>6. AITypes'
  BY <1>1, <1>2, <1>3, <1>4 DEF AITypes
<1>7. WorkBelongsToRunningTurn'
  <2>1. ASSUME NEW k \in Lanes,
               lane[k].pc \in AtWork \cup (IF IsMain(k) THEN {} ELSE {"done"})
        PROVE  run'[TurnOf(k)] = "running" /\ aiRow'[SessionOf(k)].turn = TurnOf(k)[2]
    <3>1. run[TurnOf(k)] = "running" /\ aiRow[SessionOf(k)].turn = TurnOf(k)[2]
      BY <2>1 DEF AIInv, WorkBelongsToRunningTurn
    <3>2. TurnOf(k) \in Turns /\ SessionOf(k) \in AISessions
      BY LaneFacts
    <3>3. run'[TurnOf(k)] = run[TurnOf(k)]
      BY <1>4, <1>5, <3>1, <3>2
    <3>4. aiRow'[SessionOf(k)].turn = aiRow[SessionOf(k)].turn
      BY <1>3, <3>2
    <3> QED BY <3>1, <3>3, <3>4
  <2>2. ASSUME NEW u \in Turns
        PROVE  run'[u] = "running"
                 <=> aiRow'[u[1]].status = "working" /\ aiRow'[u[1]].turn = u[2]
    <3>1. run[u] = "running" <=> aiRow[u[1]].status = "working" /\ aiRow[u[1]].turn = u[2]
      BY DEF AIInv, WorkBelongsToRunningTurn
    <3>2. u[1] \in AISessions
      BY LaneFacts
    <3>3. CASE u[1] = s
      BY <1>3, <1>5, <3>3
    <3>4. CASE u[1] # s
      BY <1>3, <1>4, <3>1, <3>2, <3>4
    <3> QED BY <3>3, <3>4
  <2> QED BY <1>1, <2>1, <2>2, LaneNames DEF WorkBelongsToRunningTurn
<1>8. (\A k \in Lanes : lane[k].pc # "none" => TurnOf(k)[2] <= aiRow[SessionOf(k)].turn)'
  <2>1. \A k \in Lanes : aiRow'[SessionOf(k)].turn = aiRow[SessionOf(k)].turn
    BY <1>3, LaneFacts
  <2> QED BY <1>1, <2>1, LaneNames DEF AIInv
<1>9. OpenedTurnsWait'
  <2>1. ASSUME NEW r \in TurnRequests, request[r].pc = "opened"
        PROVE  run'[request[r].turn] = run[request[r].turn]
    <3>1. request[r].turn \in Turns
      BY <1>2, <2>1, RequestFacts DEF AITypes
    <3>2. run[request[r].turn] = "running"
      BY <2>1 DEF AIInv, OpenedTurnsWait
    <3> QED BY <1>4, <1>5, <3>1, <3>2
  <2> QED BY <1>1, <2>1, LaneNames DEF AIInv, OpenedTurnsWait
<1>10. BranchesAreDelegated'
  BY <1>1, LaneNames DEF AIInv, BranchesAreDelegated, Main
<1>11. (aiServer = "down" =>
         /\ \A r \in TurnRequests : request[r].pc = "idle"
         /\ \A l \in Lanes : lane[l].pc \in {"none", "gone"})'
  BY <1>1
<1> QED BY <1>6, <1>7, <1>8, <1>9, <1>10, <1>11 DEF AIInv

\* A process that dies leaves rows alone, and the next one ends them.
LEMMA DeathKeepsTurns == ASSUME AIInv, ServerDies PROVE AIInv'
<1>1. /\ UNCHANGED <<aiRow, run>> /\ AITypes
      /\ request' = [r \in TurnRequests |-> [pc |-> "idle"]]
      /\ lane' = [l \in Lanes |-> IF lane[l].pc = "none" THEN NoLane
                                  ELSE [NoLane EXCEPT !.pc = "gone"]]
  BY DEF ServerDies, rowVars, AIInv
<1>2. request' \in [TurnRequests -> RequestStates]
      /\ \A r \in TurnRequests : request'[r].pc = "idle"
  BY <1>1 DEF RequestStates
<1>3. /\ lane' \in [Lanes -> LaneStates]
      /\ \A l \in Lanes : /\ lane'[l].pc \in {"none", "gone"} /\ lane'[l].kind = "read"
                          /\ lane'[l].pc # "none" => lane[l].pc # "none"
  <2> DEFINE x == [NoLane EXCEPT !.pc = "gone"]
  <2>1. x \in LaneStates /\ x.pc = "gone" /\ x.kind = "read"
    BY DEF NoLane, LaneStates, LanePcs, Modes
  <2> HIDE DEF x
  <2>2. lane' = [l \in Lanes |-> IF lane[l].pc = "none" THEN NoLane ELSE x]
    BY <1>1 DEF x
  <2> QED BY <2>1, <2>2, NoLaneTyped
<1>4. AITypes'
  BY <1>1, <1>2, <1>3 DEF AITypes
<1>5. WorkBelongsToRunningTurn'
  <2>1. \A l \in Lanes :
          lane'[l].pc \notin AtWork \cup (IF IsMain(l) THEN {} ELSE {"done"})
    BY <1>3 DEF AtWork
  <2> QED BY <1>1, <2>1, LaneNames DEF AIInv, WorkBelongsToRunningTurn
<1>6. (\A k \in Lanes : lane[k].pc # "none" => TurnOf(k)[2] <= aiRow[SessionOf(k)].turn)'
  BY <1>1, <1>3, LaneNames DEF AIInv
<1>7. OpenedTurnsWait'
  BY <1>2 DEF OpenedTurnsWait
<1>8. BranchesAreDelegated'
  BY <1>3, LaneNames DEF BranchesAreDelegated, BranchPcs, Main
<1> QED BY <1>2, <1>3, <1>4, <1>5, <1>6, <1>7, <1>8 DEF AIInv

LEMMA StartKeepsTurns == ASSUME AIInv, ServerStarts PROVE AIInv'
<1>1. /\ UNCHANGED <<request, lane>> /\ AITypes /\ aiServer = "down" /\ aiServer' = "up"
      /\ aiRow' = [s \in AISessions |->
            IF aiRow[s].status = "working" THEN [aiRow[s] EXCEPT !.status = "idle"]
            ELSE aiRow[s]]
      /\ run' = [t \in Turns |->
            IF aiRow[t[1]].status = "working" /\ aiRow[t[1]].turn = t[2]
                 /\ run[t] = "running"
            THEN "failed" ELSE run[t]]
  BY DEF ServerStarts, startVars, AIInv
<1>2. /\ aiRow' \in [AISessions -> SessionRows]
      /\ \A s \in AISessions : aiRow'[s].turn = aiRow[s].turn
      /\ \A s \in AISessions : aiRow'[s].status # "working"
  <2>1. ASSUME NEW s \in AISessions
        PROVE  /\ [aiRow[s] EXCEPT !.status = "idle"] \in SessionRows
               /\ [aiRow[s] EXCEPT !.status = "idle"].turn = aiRow[s].turn
               /\ [aiRow[s] EXCEPT !.status = "idle"].status = "idle"
               /\ aiRow[s] \in SessionRows
    <3>1. aiRow[s] \in SessionRows
      BY <1>1 DEF AITypes
    <3> QED BY <3>1 DEF SessionRows
  <2>2. \A s \in AISessions :
          \/ aiRow[s].status = "working" /\ aiRow'[s] = [aiRow[s] EXCEPT !.status = "idle"]
          \/ aiRow[s].status # "working" /\ aiRow'[s] = aiRow[s]
    BY <1>1
  <2>3. \A s \in AISessions : aiRow'[s] \in SessionRows
          /\ aiRow'[s].turn = aiRow[s].turn /\ aiRow'[s].status # "working"
    BY <2>1, <2>2
  <2>4. aiRow' = [s \in AISessions |-> aiRow'[s]]
    BY <1>1
  <2> QED BY <2>3, <2>4
<1>3. run' \in [Turns -> RunStates] /\ \A t \in Turns : run'[t] # "running"
  BY <1>1 DEF AITypes, RunStates, AIInv, WorkBelongsToRunningTurn
<1>4. AITypes'
  BY <1>1, <1>2, <1>3 DEF AITypes
<1>5. \A l \in Lanes : lane[l].pc \in {"none", "gone"}
  BY <1>1 DEF AIInv
<1>6. WorkBelongsToRunningTurn'
  <2>1. \A l \in Lanes :
          lane'[l].pc \notin AtWork \cup (IF IsMain(l) THEN {} ELSE {"done"})
    BY <1>1, <1>5 DEF AtWork
  <2>2. \A t \in Turns : t[1] \in AISessions
    BY LaneFacts
  <2> QED BY <1>2, <1>3, <2>1, <2>2, LaneNames DEF WorkBelongsToRunningTurn
<1>7. (\A k \in Lanes : lane[k].pc # "none" => TurnOf(k)[2] <= aiRow[SessionOf(k)].turn)'
  <2>1. \A k \in Lanes : aiRow'[SessionOf(k)].turn = aiRow[SessionOf(k)].turn
    BY <1>2, LaneFacts
  <2> QED BY <1>1, <2>1, LaneNames DEF AIInv
<1>8. OpenedTurnsWait'
  BY <1>1 DEF AIInv, OpenedTurnsWait
<1>9. BranchesAreDelegated'
  BY <1>1, LaneNames DEF AIInv, BranchesAreDelegated, Main
<1> QED BY <1>1, <1>4, <1>6, <1>7, <1>8, <1>9 DEF AIInv

LEMMA AIInvInit == AIInit => AIInv
<1> SUFFICES ASSUME AIInit PROVE AIInv
  OBVIOUS
<1>1. AITypes
  <2>1. [status |-> "idle", turn |-> 0, archived |-> FALSE, mode |-> "full"] \in SessionRows
    BY DEF SessionRows, Modes
  <2>2. [pc |-> "idle"] \in RequestStates
    BY DEF RequestStates
  <2> QED BY <2>1, <2>2, NoLaneTyped DEF AIInit, AITypes, RunStates
<1>2. \A l \in Lanes : lane[l].pc = "none" /\ lane[l].kind = "read"
  BY NoLaneTyped DEF AIInit
<1>3. \A s \in AISessions : aiRow[s].status = "idle"
  BY DEF AIInit
<1>4. \A r \in TurnRequests : request[r].pc = "idle"
  BY DEF AIInit
<1>5. WorkBelongsToRunningTurn
  BY <1>2, <1>3, LaneFacts DEF WorkBelongsToRunningTurn, AIInit, AtWork
<1>6. OpenedTurnsWait
  BY <1>4 DEF OpenedTurnsWait
<1>7. BranchesAreDelegated
  BY <1>2 DEF BranchesAreDelegated, BranchPcs
<1> QED BY <1>1, <1>2, <1>4, <1>5, <1>6, <1>7 DEF AIInv

LEMMA AIInvStep == AIInv /\ [AINext]_aiVars => AIInv'
<1> SUFFICES ASSUME AIInv, [AINext]_aiVars PROVE AIInv'
  OBVIOUS
<1>1. ASSUME NEW r \in TurnRequests, RequestStep(r) PROVE AIInv'
  BY <1>1, OthersKeepTurns, CommitKeepsTurns, RegisterKeepsTurns DEF RequestStep
<1>2. ASSUME NEW l \in Lanes, LaneStep(l) PROVE AIInv'
  <2>1. CASE InLoop(l)
    BY <2>1, LoopKeepsTurns
  <2>2. CASE Delegates(l) \/ BranchesReturn(l)
    BY <2>2, DelegationKeepsTurns
  <2>3. CASE FinishesTurn(l)
    BY <2>3, FinishKeepsTurns
  <2>4. CASE ClosesToolTurn(l) \/ LeavesJobs(l)
    BY <2>4, LeavingKeepsTurns
  <2> QED BY <1>2, <2>1, <2>2, <2>3, <2>4 DEF LaneStep, InLoop
<1>3. ASSUME NEW s \in AISessions, DeleteSession(s) PROVE AIInv'
  BY <1>3, DeleteKeepsTurns
<1>4. CASE ServerDies
  BY <1>4, DeathKeepsTurns
<1>5. CASE ServerStarts
  BY <1>5, StartKeepsTurns
<1> QED BY <1>1, <1>2, <1>3, <1>4, <1>5, OthersKeepTurns DEF AINext

LEMMA AIInvariant == AIInit /\ [][AINext]_aiVars => []AIInv
BY AIInvInit, AIInvStep, PTL

-----------------------------------------------------------------------------
(* AITurns: the quota.                                                       *)

LEMMA TurnsAreFinite == \A U : U \subseteq Turns => IsFiniteSet(U) /\ Cardinality(U) \in Nat
<1>1. IsFiniteSet(1 .. 3)
  <2>1. 1 \in Int /\ 3 \in Int
    OBVIOUS
  <2> QED BY <2>1, FS_Interval, Zenon
<1>2. IsFiniteSet(AISessions)
  BY TurnAssumption
<1>3. IsFiniteSet(AISessions \X (1 .. 3))
  BY <1>1, <1>2, FS_Product
<1>4. Turns \subseteq AISessions \X (1 .. 3)
  BY DEF Turns
<1> SUFFICES ASSUME NEW U, U \subseteq Turns PROVE IsFiniteSet(U) /\ Cardinality(U) \in Nat
  OBVIOUS
<1>5. IsFiniteSet(U)
  BY <1>3, <1>4, FS_Subset
<1> QED BY <1>5, FS_CardinalityType

\* The request that has the lock of the quota has been admitted, alone, and may
\* count on what it has read.
QuotaInv ==
    /\ QuotaHolds
    /\ \A r \in TurnRequests : request[r].pc = "admitted" =>
         quotaLock = r /\ Cardinality(TurnsUsed) < TurnLimit

LEMMA FewerTurnsUsed ==
    ASSUME QuotaInv, TurnsUsed' \subseteq TurnsUsed,
           \A r \in TurnRequests : request'[r].pc = "admitted" =>
             request[r].pc = "admitted" /\ quotaLock' = quotaLock
    PROVE  QuotaInv'
<1>1. TurnsUsed \subseteq Turns /\ TurnLimit \in Nat
  BY TurnAssumption DEF TurnsUsed
<1>2. IsFiniteSet(TurnsUsed) /\ Cardinality(TurnsUsed) \in Nat
      /\ Cardinality(TurnsUsed') \in Nat
  BY <1>1, TurnsAreFinite
<1>3. Cardinality(TurnsUsed') <= Cardinality(TurnsUsed)
  BY <1>2, FS_Subset
<1> QED BY <1>1, <1>2, <1>3 DEF QuotaInv, QuotaHolds

LEMMA QuotaInvStep == AIInv /\ QuotaInv /\ [AINext]_aiVars => QuotaInv'
<1> SUFFICES ASSUME AIInv, QuotaInv, [AINext]_aiVars PROVE QuotaInv'
  OBVIOUS
<1>1. /\ request \in [TurnRequests -> RequestStates] /\ run \in [Turns -> RunStates]
      /\ aiRow \in [AISessions -> SessionRows] /\ lane \in [Lanes -> LaneStates]
  BY DEF AIInv, AITypes
<1>2. ASSUME UNCHANGED <<run, request, quotaLock>> PROVE QuotaInv'
  BY <1>2, FewerTurnsUsed DEF TurnsUsed
<1>3. ASSUME NEW r \in TurnRequests, StartAdmits(r) PROVE QuotaInv'
  <2>1. run' = run /\ TurnsUsed' = TurnsUsed
    BY <1>3 DEF StartAdmits, rowVars, TurnsUsed
  <2>2. CASE /\ Cardinality(TurnsUsed) < TurnLimit /\ quotaLock = "free" /\ quotaLock' = r
             /\ request' = [request EXCEPT ![r].pc = "admitted"]
    <3>1. \A q \in TurnRequests : request[q].pc # "admitted"
      BY <2>2, TurnAssumption DEF QuotaInv
    <3>2. \A q \in TurnRequests : request'[q].pc = "admitted" => q = r
      BY <1>1, <2>2, <3>1
    <3> QED BY <2>1, <2>2, <3>2 DEF QuotaInv, QuotaHolds
  <2>3. CASE request' = [request EXCEPT ![r] = [pc |-> "idle"]] /\ quotaLock' = quotaLock
    <3>1. \A q \in TurnRequests : request'[q].pc = "admitted" => request[q].pc = "admitted"
      BY <1>1, <2>3
    <3> QED BY <2>1, <2>3, <3>1, FewerTurnsUsed
  <2> QED BY <1>3, <2>2, <2>3 DEF StartAdmits
<1>4. ASSUME NEW r \in TurnRequests, StartCommits(r) PROVE QuotaInv'
  <2> DEFINE t == <<request[r].session, aiRow[request[r].session].turn + 1>>
  <2>1. /\ request[r].pc = "admitted"
        /\ \/ request' = [request EXCEPT ![r] = [pc |-> "idle"]] /\ run' = run
           \/ /\ t \in Turns /\ run' = [run EXCEPT ![t] = "running"]
              /\ request' = [request EXCEPT ![r] = [pc |-> "opened", turn |-> t]]
    BY <1>4 DEF StartCommits, rowVars
  <2> HIDE DEF t
  <2>2. Cardinality(TurnsUsed) < TurnLimit
        /\ \A q \in TurnRequests : request[q].pc = "admitted" => q = r
    BY <2>1 DEF QuotaInv
  <2>3. \A q \in TurnRequests : request'[q].pc # "admitted"
    BY <1>1, <2>1, <2>2
  <2>4. TurnsUsed' \subseteq TurnsUsed \cup {t}
    BY <1>1, <2>1 DEF TurnsUsed
  <2>5. TurnLimit \in Nat /\ IsFiniteSet(TurnsUsed) /\ Cardinality(TurnsUsed) \in Nat
        /\ Cardinality(TurnsUsed') \in Nat
    BY TurnAssumption, TurnsAreFinite DEF TurnsUsed
  <2>6. /\ Cardinality(TurnsUsed \cup {t}) <= Cardinality(TurnsUsed) + 1
        /\ Cardinality(TurnsUsed \cup {t}) \in Nat /\ IsFiniteSet(TurnsUsed \cup {t})
    <3>1. IsFiniteSet(TurnsUsed \cup {t})
          /\ Cardinality(TurnsUsed \cup {t})
               = IF t \in TurnsUsed THEN Cardinality(TurnsUsed)
                 ELSE Cardinality(TurnsUsed) + 1
      BY <2>5, FS_AddElement
    <3> QED BY <2>5, <3>1
  <2>7. Cardinality(TurnsUsed') <= Cardinality(TurnsUsed \cup {t})
    BY <2>4, <2>6, FS_Subset
  <2>8. Cardinality(TurnsUsed') <= TurnLimit
    BY <2>2, <2>5, <2>6, <2>7
  <2> QED BY <2>3, <2>8 DEF QuotaInv, QuotaHolds
<1>5. ASSUME NEW r \in TurnRequests,
             StartRegisters(r) \/ \E s \in AISessions : StartChecks(r, s)
      PROVE  QuotaInv'
  <2>1. /\ UNCHANGED <<run, quotaLock>>
        /\ \E x \in {[pc |-> "idle"]} \cup [pc : {"checked"}, session : AISessions] :
             request' = [request EXCEPT ![r] = x]
    BY <1>5 DEF StartRegisters, StartChecks, rowVars
  <2>2. \A q \in TurnRequests : request'[q].pc = "admitted" => request[q].pc = "admitted"
    BY <1>1, <2>1
  <2> QED BY <2>1, <2>2, FewerTurnsUsed DEF TurnsUsed
<1>6. ASSUME NEW l \in Lanes, FinishesTurn(l) PROVE QuotaInv'
  <2>1. UNCHANGED <<request, quotaLock>>
        /\ \/ run' = run
           \/ \E t, x : run[t] = "running" /\ run' = [run EXCEPT ![t] = x]
    BY <1>6 DEF FinishesTurn, startVars, rowVars
  <2>2. TurnsUsed' \subseteq TurnsUsed
    BY <1>1, <2>1 DEF TurnsUsed
  <2> QED BY <2>1, <2>2, FewerTurnsUsed
<1>7. ASSUME NEW s \in AISessions, DeleteSession(s) PROVE QuotaInv'
  <2>1. TurnsUsed' \subseteq TurnsUsed /\ UNCHANGED <<request, quotaLock>>
    BY <1>7 DEF DeleteSession, startVars, TurnsUsed
  <2> QED BY <2>1, FewerTurnsUsed
<1>8. CASE ServerDies
  <2>1. TurnsUsed' = TurnsUsed /\ \A r \in TurnRequests : request'[r].pc = "idle"
    BY <1>8 DEF ServerDies, rowVars, TurnsUsed
  <2> QED BY <2>1, FewerTurnsUsed
<1>9. CASE ServerStarts
  <2>1. TurnsUsed' \subseteq TurnsUsed /\ UNCHANGED <<request, quotaLock>>
    BY <1>9 DEF ServerStarts, startVars, TurnsUsed
  <2> QED BY <2>1, FewerTurnsUsed
<1>10. ASSUME NEW l \in Lanes,
              InLoop(l) \/ Delegates(l) \/ BranchesReturn(l) \/ ClosesToolTurn(l)
              \/ LeavesJobs(l) \/ \E d \in {"approved", "denied"} : Decide(l, d)
       PROVE  QuotaInv'
  BY <1>2, <1>10 DEF InLoop, LoopBegins, StepBegins, ModelAnswers, AdmitsCall,
     ApprovalEnds, RechecksUser, PerformsCall, Delegates, BranchesReturn, ClosesToolTurn,
     LeavesJobs, Decide, loopFrame, rowVars, startVars
<1>11. ASSUME NEW s \in AISessions,
              \/ CancelTurn(s) \/ ArchiveSession(s)
              \/ \E mode \in Modes : SwitchMode(s, mode)
       PROVE  QuotaInv'
  BY <1>2, <1>11 DEF CancelTurn, ArchiveSession, SwitchMode, rowVars, startVars
<1>12. CASE ChangesAccess \/ \E t \in Turns : TurnTimesOut(t)
  BY <1>2, <1>12 DEF ChangesAccess, TurnTimesOut, rowVars, startVars
<1>13. CASE UNCHANGED aiVars
  BY <1>2, <1>13 DEF aiVars, rowVars, startVars
<1> QED BY <1>3, <1>4, <1>5, <1>6, <1>7, <1>8, <1>9, <1>10, <1>11, <1>12, <1>13
        DEF AINext, RequestStep, LaneStep, InLoop

LEMMA QuotaInvInit == AIInit => QuotaInv
<1> SUFFICES ASSUME AIInit PROVE QuotaInv
  OBVIOUS
<1>1. TurnsUsed = {}
  BY DEF AIInit, TurnsUsed
<1>2. Cardinality(TurnsUsed) = 0
  BY <1>1, FS_EmptySet
<1>3. \A r \in TurnRequests : request[r].pc = "idle"
  BY DEF AIInit
<1> QED BY <1>2, <1>3, TurnAssumption DEF QuotaInv, QuotaHolds

-----------------------------------------------------------------------------
(* AITurns: calls, and what was decided about them.                          *)

Looping == {"step", "think", "admit", "parked", "recheck", "perform", "delegating"}
Calling == {"think", "admit", "parked", "recheck", "perform"}

Calls == [turn : Turns, branch : {"main"} \cup Branches, of : Nat, number : Nat]
Decisions == [call : Calls, decision : {"approved", "denied"}]
Performances == [call : Calls, kind : Kinds \cup {"read"}, mode : Modes]

Decided(c) == \E d \in decided : d.call = c
Performed(c) == \E p \in performed : p.call = c

\* A call is not later than where the lane that made it is now: a turn goes on to
\* larger steps, and a branch does while its turn stays at the step it delegates.
Before(c) ==
    LET main == lane[Main(c.turn)]
        branch == lane[<<c.turn, c.branch>>]
    IN
    /\ main.pc \notin {"none", "begin", "gone"}
    /\ c.branch = "main" => c.number = c.of
    /\ main.pc \in Looping =>
         /\ c.of <= main.step
         /\ c.of = main.step /\ c.branch # "main" =>
              /\ main.pc \in {"step", "delegating"}
              /\ main.pc = "delegating" /\ branch.pc # "done" => c.number <= branch.step

\* An approval stands for the call its lane is parked with.
Waiter(w) ==
    /\ w.lane \in Lanes /\ lane[w.lane].pc = "parked" /\ answer[w.lane] = "empty"
    /\ w = [id |-> QualifiedCallID(CallOf(w.lane)), lane |-> w.lane]

\* What the call a lane is about to make has behind it.
LaneCalls(l) ==
    /\ answer[l] # "empty" =>
         /\ lane[l].pc = "parked"
         /\ [call |-> CallOf(l), decision |-> answer[l]] \in decided
    /\ lane[l].pc \in {"think", "admit"} => ~Decided(CallOf(l))
    /\ lane[l].pc = "parked" /\ answer[l] = "empty" => ~Decided(CallOf(l))
    /\ lane[l].pc \in Calling => ~Performed(CallOf(l))
    /\ lane[l].pc \in {"recheck", "perform"} =>
         [call |-> CallOf(l), decision |-> "denied"] \notin decided
    /\ lane[l].pc = "recheck" =>
         [call |-> CallOf(l), decision |-> "approved"] \in decided
    /\ lane[l].pc = "perform" /\ RequiresApproval(lane[l].kind, lane[l].mode) =>
         [call |-> CallOf(l), decision |-> "approved"] \in decided

CallInv ==
    /\ decided \subseteq Decisions /\ performed \subseteq Performances
    /\ answer \in [Lanes -> {"empty", "approved", "denied"}]
    /\ \A d \in decided : Before(d.call)
    /\ \A p \in performed : Before(p.call)
    /\ \A w \in waiting : Waiter(w)
    /\ \A l \in Lanes : LaneCalls(l)
    /\ \A d, e \in decided : d.call = e.call => d = e
    /\ PerformedAsDecided

LEMMA CallFacts ==
    ASSUME AITypes, NEW l \in Lanes
    PROVE  /\ CallOf(l) \in Calls
           /\ CallOf(l).turn = TurnOf(l) /\ CallOf(l).branch = l[2]
           /\ CallOf(l).of = lane[Main(TurnOf(l))].step /\ CallOf(l).number = lane[l].step
           /\ <<CallOf(l).turn, CallOf(l).branch>> = l
<1>1. lane[l].step \in Nat /\ lane[Main(TurnOf(l))].step \in Nat
  BY LaneFacts DEF AITypes, LaneStates
<1>2. l = <<TurnOf(l), l[2]>>
  BY DEF Lanes, TurnOf
<1> QED BY <1>1, <1>2, LaneFacts DEF CallOf, Calls

LEMMA CallLane ==
    ASSUME NEW c \in Calls
    PROVE  /\ Main(c.turn) \in Lanes /\ <<c.turn, c.branch>> \in Lanes
           /\ TurnOf(<<c.turn, c.branch>>) = c.turn /\ TurnOf(Main(c.turn)) = c.turn
           /\ IsMain(Main(c.turn))
           /\ c.branch # "main" <=> ~IsMain(<<c.turn, c.branch>>)
BY DEF Calls, Main, Lanes, TurnOf, IsMain

\* Identifiers of calls are as good as the calls.
LEMMA IdentifiersDiffer ==
    \A c, e \in Calls : QualifiedCallID(c) = QualifiedCallID(e) => c = e
BY DEF Calls, QualifiedCallID

\* The step of one lane of a turn that does not delegate changes no call that another
\* lane is about to make.
LEMMA OtherCallsStay ==
    ASSUME AIInv, NEW l \in Lanes, OneLane(l), lane[l].pc # "delegating",
           NEW k \in Lanes, k # l, lane[k].pc \in Calling
    PROVE  CallOf(k)' = CallOf(k) /\ lane'[k] = lane[k]
<1>1. lane'[k] = lane[k]
  BY DEF OneLane
<1>2. Main(TurnOf(k)) \in Lanes /\ Main(TurnOf(k)) # l
  <2>1. CASE IsMain(k)
    BY <2>1, LaneFacts
  <2>2. CASE ~IsMain(k)
    BY <2>2, LaneFacts DEF AIInv, BranchesAreDelegated, Calling
  <2> QED BY <2>1, <2>2
<1>3. lane'[Main(TurnOf(k))] = lane[Main(TurnOf(k))]
  BY <1>2 DEF OneLane
<1> QED BY <1>1, <1>3, LaneNames DEF CallOf, Main

\* What holds of the calls of the other lanes still holds.
LEMMA OtherLanesKeepCalls ==
    ASSUME AIInv, CallInv, NEW l \in Lanes, OneLane(l), lane[l].pc # "delegating",
           \A k \in Lanes \ {l} : answer'[k] = answer[k],
           \A d : d.call.turn # TurnOf(l) => (d \in decided' <=> d \in decided),
           \A p \in performed' : p \in performed \/ p.call = CallOf(l),
           decided' = decided \/ \A k \in Lanes : TurnOf(k) = TurnOf(l) => lane[k].pc \notin Calling
    PROVE  \A k \in Lanes \ {l} : LaneCalls(k)'
<1> SUFFICES ASSUME NEW k \in Lanes, k # l PROVE LaneCalls(k)'
  OBVIOUS
<1>1. lane'[k] = lane[k] /\ answer'[k] = answer[k] /\ LaneCalls(k)
  BY DEF OneLane, CallInv
<1>2. CASE lane[k].pc \in Calling
  <2>1. CallOf(k)' = CallOf(k)
    BY <1>2, OtherCallsStay
  <2>2. CallOf(k) # CallOf(l) /\ CallOf(k).turn = TurnOf(k)
    BY CallFacts DEF AIInv
  <2>3. decided' = decided \/ CallOf(k).turn # TurnOf(l)
    BY <1>2, <2>2
  <2>4. PICK c : c = CallOf(k)
    OBVIOUS
  <2>5. \A p \in performed' : p.call = c => p \in performed
    BY <2>2, <2>4
  <2>6. \A d : d.call = c => (d \in decided' <=> d \in decided)
    BY <2>3, <2>4
  <2>7. Performed(CallOf(k))' => Performed(CallOf(k))
    BY <2>1, <2>4, <2>5 DEF Performed
  <2>8. Decided(CallOf(k))' <=> Decided(CallOf(k))
    BY <2>1, <2>4, <2>6 DEF Decided
  <2>9. \A x : [call |-> CallOf(k), decision |-> x]' \in decided'
               <=> [call |-> CallOf(k), decision |-> x] \in decided
    BY <2>1, <2>4, <2>6
  <2> QED BY <1>1, <2>1, <2>7, <2>8, <2>9 DEF LaneCalls
<1>3. CASE lane[k].pc \notin Calling
  <2>1. answer[k] = "empty"
    BY <1>1, <1>3 DEF LaneCalls, Calling
  <2> QED BY <1>1, <1>3, <2>1 DEF LaneCalls, Calling
<1> QED BY <1>2, <1>3

LEMMA OtherWaitersStay ==
    ASSUME AIInv, CallInv, NEW l \in Lanes, OneLane(l), lane[l].pc # "delegating",
           NEW w \in waiting, w.lane # l, answer'[w.lane] = answer[w.lane]
    PROVE  Waiter(w)'
<1>1. Waiter(w) /\ w.lane \in Lanes /\ lane[w.lane].pc \in Calling
  BY DEF CallInv, Waiter, Calling
<1>2. CallOf(w.lane)' = CallOf(w.lane) /\ lane'[w.lane] = lane[w.lane]
  BY <1>1, OtherCallsStay
<1> QED BY <1>1, <1>2 DEF Waiter, QualifiedCallID

LEMMA OwnCallStays ==
    ASSUME AITypes, NEW l \in Lanes, OneLane(l), lane'[l].step = lane[l].step
    PROVE  CallOf(l)' = CallOf(l)
<1>1. Main(TurnOf(l)) \in Lanes
  BY LaneFacts
<1>2. lane'[Main(TurnOf(l))].step = lane[Main(TurnOf(l))].step
  BY <1>1 DEF OneLane
<1> QED BY <1>2, LaneNames DEF CallOf, Main

\* A call that is being made is not later than its lane.
LEMMA CallIsBefore ==
    ASSUME AIInv, NEW l \in Lanes, lane[l].pc \in Calling
    PROVE  Before(CallOf(l))
<1>1. AITypes /\ lane[l].step \in Nat /\ lane[Main(TurnOf(l))].step \in Nat
  BY LaneFacts DEF AIInv, AITypes, LaneStates
<1>2. <<CallOf(l).turn, CallOf(l).branch>> = l
  BY <1>1, CallFacts
<1>3. CASE IsMain(l)
  <2>1. l = Main(TurnOf(l)) /\ l[2] = "main"
    BY <1>3, LaneFacts
  <2> QED BY <1>1, <1>2, <2>1, CallFacts DEF Before, Calling, Looping
<1>4. CASE ~IsMain(l)
  <2>1. lane[Main(TurnOf(l))].pc = "delegating" /\ l[2] # "main"
    BY <1>4, LaneFacts DEF AIInv, BranchesAreDelegated, Calling
  <2> QED BY <1>1, <1>2, <2>1, CallFacts DEF Before, Calling, Looping
<1> QED BY <1>3, <1>4

\* Steps of a lane are numbered by the steps of its loop.
StepMove(l) ==
    lane'[l].pc \in Looping =>
      \/ lane[l].pc # "step" /\ lane'[l].step = lane[l].step
      \/ lane[l].pc = "step" /\ lane'[l].pc = "think" /\ lane'[l].step = lane[l].step + 1

LEMMA StepMoves == ASSUME AITypes, NEW l \in Lanes, InLoop(l) PROVE StepMove(l)
<1> USE DEF AITypes
<1>1. ASSUME NEW pc \in LanePcs, Moves(l, pc), lane[l].pc # "step" PROVE StepMove(l)
  BY <1>1, MovesLane DEF StepMove
<1>2. ASSUME Repeats(l), lane[l].pc # "step" PROVE StepMove(l)
  BY <1>2, RepeatsLane DEF StepMove
<1>3. ASSUME Fails(l) PROVE StepMove(l)
  BY <1>3, FailsLane DEF StepMove, Looping
<1>4. ASSUME NEW how \in {"succeeded", "failed", "canceled"}, Ends(l, how)
      PROVE  StepMove(l)
  BY <1>4, EndsLane DEF StepMove, Looping
<1>5. CASE LoopBegins(l)
  BY <1>1, <1>4, <1>5 DEF LoopBegins, LanePcs
<1>6. CASE StepBegins(l)
  <2>1. ASSUME NEW mode \in {aiRow[SessionOf(l)].mode, "ask"},
               lane' = [lane EXCEPT ![l].pc = "think", ![l].mode = mode, ![l].step = @ + 1]
        PROVE  StepMove(l)
    <3>1. mode \in Modes
      BY LaneFacts DEF SessionRows, Modes
    <3> QED BY <1>6, <2>1, <3>1, ThinksLane DEF StepMove, StepBegins
  <2> QED BY <1>3, <1>4, <1>6, <2>1 DEF StepBegins
<1>7. CASE ModelAnswers(l)
  <2>1. ASSUME NEW kind \in (IF IsMain(l) THEN Kinds ELSE Kinds \ {"write", "delegate"}),
               lane' = [lane EXCEPT ![l].pc = "admit", ![l].kind = kind]
        PROVE  StepMove(l)
    <3>1. kind \in Kinds
      BY <2>1
    <3> QED BY <1>7, <2>1, <3>1, WantsLane DEF StepMove, ModelAnswers
  <2> QED BY <1>3, <1>4, <1>7, <2>1 DEF ModelAnswers
<1>8. CASE AdmitsCall(l)
  BY <1>1, <1>2, <1>8 DEF AdmitsCall, LanePcs
<1>9. CASE ApprovalEnds(l)
  BY <1>1, <1>2, <1>3, <1>4, <1>9 DEF ApprovalEnds, LanePcs
<1>10. CASE RechecksUser(l)
  BY <1>1, <1>4, <1>10 DEF RechecksUser, LanePcs
<1>11. CASE PerformsCall(l)
  BY <1>2, <1>11 DEF PerformsCall
<1> QED BY <1>5, <1>6, <1>7, <1>8, <1>9, <1>10, <1>11 DEF InLoop

LEMMA LoopGoesOn ==
    ASSUME AIInv, NEW l \in Lanes, LoopMove(l), StepMove(l), NEW c \in Calls, Before(c)
    PROVE  Before(c)'
<1> DEFINE m == Main(c.turn)
           b == <<c.turn, c.branch>>
<1>1. m \in Lanes /\ b \in Lanes /\ IsMain(m) /\ (c.branch # "main" <=> ~IsMain(b))
      /\ TurnOf(b) = c.turn
  BY CallLane
<1>2. lane[l].pc \in LoopPcs /\ \A k \in Lanes \ {l} : lane'[k] = lane[k]
  BY DEF LoopMove, OneLane
<1>3. lane[m].step \in Nat /\ lane[b].step \in Nat /\ c.of \in Nat /\ c.number \in Nat
  BY <1>1 DEF AIInv, AITypes, LaneStates, Calls
<1> HIDE DEF m, b
<1>4. /\ lane[m].pc \notin {"none", "begin", "gone"}
      /\ c.branch = "main" => c.number = c.of
      /\ lane[m].pc \in Looping =>
           /\ c.of <= lane[m].step
           /\ c.of = lane[m].step /\ c.branch # "main" =>
                /\ lane[m].pc \in {"step", "delegating"}
                /\ lane[m].pc = "delegating" /\ lane[b].pc # "done" =>
                     c.number <= lane[b].step
  BY DEF Before, m, b
<1> SUFFICES
      /\ lane'[m].pc \notin {"none", "begin", "gone"}
      /\ lane'[m].pc \in Looping =>
           /\ c.of <= lane'[m].step
           /\ c.of = lane'[m].step /\ c.branch # "main" =>
                /\ lane'[m].pc \in {"step", "delegating"}
                /\ lane'[m].pc = "delegating" /\ lane'[b].pc # "done" =>
                     c.number <= lane'[b].step
  BY <1>4, LaneNames DEF Before, m, b
<1>5. CASE l = m
  <2>1. lane'[m].pc \notin {"none", "begin", "gone"}
    BY <1>1, <1>5 DEF LoopMove, LoopPcs
  <2>2. lane[m].pc \in Looping /\ lane[m].pc # "delegating"
    BY <1>2, <1>4, <1>5 DEF LoopPcs, Looping
  <2>3. lane'[m].pc \in Looping =>
          \/ lane[m].pc # "step" /\ lane'[m].step = lane[m].step
          \/ lane'[m].step = lane[m].step + 1
    BY <1>5 DEF StepMove
  <2> QED BY <1>3, <1>4, <2>1, <2>2, <2>3
<1>6. CASE l # m /\ l = b
  <2>1. lane'[m] = lane[m] /\ lane[b].pc # "done"
    BY <1>1, <1>2, <1>6 DEF LoopPcs
  <2>2. ~IsMain(l)
    BY <1>1, <1>6, LaneFacts DEF m
  <2>3. lane'[b].pc = "done" \/ lane'[b].pc \in Looping
    BY <1>6, <2>2 DEF LoopMove, LoopPcs, Looping
  <2>4. lane'[b].pc \in Looping => lane'[b].step = lane[b].step
                                   \/ lane'[b].step = lane[b].step + 1
    BY <1>6 DEF StepMove
  <2> QED BY <1>3, <1>4, <2>1, <2>3, <2>4
<1>7. CASE l # m /\ l # b
  BY <1>1, <1>2, <1>4, <1>7
<1> QED BY <1>5, <1>6, <1>7

\* What the step of one lane has to show for the calls of all of them.
LEMMA OneLaneKeepsCalls ==
    ASSUME AIInv, CallInv, NEW l \in Lanes, OneLane(l), lane[l].pc # "delegating",
           decided' = decided,
           \A c \in Calls : Before(c) => Before(c)',
           answer' \in [Lanes -> {"empty", "approved", "denied"}],
           \A k \in Lanes \ {l} : answer'[k] = answer[k],
           \A w \in waiting' : (w \in waiting /\ w.lane # l) \/ Waiter(w)',
           \A p \in performed' : p \in performed \/
             /\ p \in Performances /\ p.call = CallOf(l) /\ Before(p.call)
             /\ RequiresApproval(p.kind, p.mode)
                  => [call |-> p.call, decision |-> "approved"] \in decided
             /\ [call |-> p.call, decision |-> "denied"] \notin decided,
           LaneCalls(l)'
    PROVE  CallInv'
<1>1. decided' \subseteq Decisions /\ performed' \subseteq Performances
  BY DEF CallInv
<1>2. (\A d \in decided : Before(d.call))'
  <2>1. \A d \in decided : d.call \in Calls /\ Before(d.call)
    BY DEF CallInv, Decisions
  <2> QED BY <2>1
<1>3. (\A p \in performed : Before(p.call))'
  <2>1. \A p \in performed' : p.call \in Calls /\ Before(p.call)
    BY DEF CallInv, Performances
  <2> QED BY <2>1
<1>4. (\A w \in waiting : Waiter(w))'
  <2> SUFFICES ASSUME NEW w \in waiting', w \in waiting, w.lane # l PROVE Waiter(w)'
    OBVIOUS
  <2>1. w.lane \in Lanes
    BY DEF CallInv, Waiter
  <2> QED BY <2>1, OtherWaitersStay
<1>5. (\A k \in Lanes : LaneCalls(k))'
  <2>1. \A p \in performed' : p \in performed \/ p.call = CallOf(l)
    OBVIOUS
  <2>2. \A k \in Lanes \ {l} : LaneCalls(k)'
    BY <2>1, OtherLanesKeepCalls
  <2> QED BY <2>2
<1>6. (\A d, e \in decided : d.call = e.call => d = e)'
  BY DEF CallInv
<1>7. PerformedAsDecided'
  BY DEF CallInv, PerformedAsDecided
<1> QED BY <1>1, <1>2, <1>3, <1>4, <1>5, <1>6, <1>7 DEF CallInv

LEMMA LoopLaneFacts ==
    ASSUME AIInv, NEW l \in Lanes, InLoop(l)
    PROVE  /\ OneLane(l) /\ lane[l].pc \in LoopPcs /\ lane[l].pc # "delegating"
           /\ AITypes /\ LoopMove(l) /\ StepMove(l)
           /\ \A c \in Calls : Before(c) => Before(c)'
<1>1. AITypes /\ LoopMove(l) /\ StepMove(l)
  BY LoopMoves, StepMoves DEF AIInv
<1>2. \A c \in Calls : Before(c) => Before(c)'
  BY <1>1, LoopGoesOn
<1> QED BY <1>1, <1>2 DEF LoopMove, LoopPcs

\* A step that leaves its call behind, or none.
LEMMA IdleLaneCalls ==
    ASSUME NEW l \in Lanes, lane'[l].pc \notin Calling, answer'[l] = "empty"
    PROVE  LaneCalls(l)'
BY DEF LaneCalls, Calling

\* A step begins with a call nobody has decided about, or made.
LEMMA StepBeginsKeepsCalls ==
    ASSUME AIInv, CallInv, NEW l \in Lanes, LoopBegins(l) \/ StepBegins(l)
    PROVE  CallInv'
<1>1. InLoop(l) /\ UNCHANGED <<approvalVars, performed>>
  BY DEF InLoop, LoopBegins, StepBegins
<1>2. UNCHANGED <<waiting, answer, decided, performed>>
  BY <1>1 DEF approvalVars
<1>3. /\ OneLane(l) /\ lane[l].pc \in {"begin", "step"} /\ AITypes
      /\ lane[l].pc # "delegating" /\ StepMove(l) /\ LoopMove(l)
      /\ \A c \in Calls : Before(c) => Before(c)'
  BY <1>1, LoopLaneFacts DEF LoopBegins, StepBegins
<1>4. answer[l] = "empty"
  BY <1>3 DEF CallInv, LaneCalls
<1>5. \A w \in waiting : w.lane # l
  BY <1>3 DEF CallInv, Waiter
<1>6. LaneCalls(l)'
  <2>1. CASE lane'[l].pc \notin Calling
    BY <1>2, <1>4, <2>1, IdleLaneCalls
  <2>2. CASE lane'[l].pc \in Calling
    <3>1. lane[l].pc = "step" /\ lane'[l].pc = "think" /\ lane'[l].step = lane[l].step + 1
      <4>1. lane[l].pc = "step"
        <5>1. ASSUME lane[l].pc = "begin" PROVE FALSE
          <6>1. Moves(l, "step") \/ Ends(l, "failed")
            BY <5>1 DEF LoopBegins, StepBegins
          <6>2. lane'[l].pc \in {"step", "finishing", "done"}
            BY <1>3, <6>1, MovesLane, EndsLane DEF AITypes, LanePcs
          <6> QED BY <2>2, <6>2 DEF Calling
        <5> QED BY <1>3, <5>1
      <4>2. lane'[l].pc \in Looping
        BY <2>2 DEF Calling, Looping
      <4> QED BY <1>3, <4>1, <4>2 DEF StepMove
    <3>2. PICK c : c = CallOf(l)'
      OBVIOUS
    <3>3. c.turn = TurnOf(l) /\ c.branch = l[2] /\ c.number = lane[l].step + 1
          /\ c.of = lane'[Main(TurnOf(l))].step /\ <<c.turn, c.branch>> = l
      <4>1. <<TurnOf(l), l[2]>> = l
        BY DEF Lanes, TurnOf
      <4> QED BY <3>1, <3>2, <4>1, LaneNames DEF CallOf, Main
    <3>4. ~Before(c)
      <4>1. lane[l].step \in Nat
        BY <1>3 DEF AITypes, LaneStates
      <4>2. CASE IsMain(l)
        <5>1. l = Main(TurnOf(l)) /\ c.of = lane[l].step + 1
          BY <3>1, <3>3, <4>2, LaneFacts
        <5> QED BY <3>1, <3>3, <4>1, <5>1 DEF Before, Looping
      <4>3. CASE ~IsMain(l)
        <5>1. /\ Main(TurnOf(l)) \in Lanes /\ Main(TurnOf(l)) # l
              /\ lane[Main(TurnOf(l))].pc = "delegating" /\ l[2] # "main"
          BY <3>1, <4>3, LaneFacts DEF AIInv, BranchesAreDelegated
        <5>2. c.of = lane[Main(TurnOf(l))].step
          BY <1>3, <3>3, <5>1 DEF OneLane
        <5> QED BY <3>1, <3>3, <4>1, <5>1, <5>2 DEF Before, Looping
      <4> QED BY <4>2, <4>3
    <3>5. ~Decided(c) /\ ~Performed(c)
      BY <3>4 DEF CallInv, Decided, Performed
    <3>6. ~Decided(CallOf(l))' /\ ~Performed(CallOf(l))'
      BY <1>2, <3>2, <3>5 DEF Decided, Performed
    <3> QED BY <1>2, <1>4, <3>1, <3>6 DEF LaneCalls
  <2> QED BY <2>1, <2>2
<1>7. /\ decided' = decided /\ waiting' = waiting /\ performed' = performed
      /\ answer' \in [Lanes -> {"empty", "approved", "denied"}]
      /\ \A k \in Lanes \ {l} : answer'[k] = answer[k]
  BY <1>2 DEF CallInv
<1> QED BY <1>3, <1>5, <1>6, <1>7, OneLaneKeepsCalls

\* The call of a lane that stays in its step is the same call.
LEMMA SameCall ==
    ASSUME AIInv, NEW l \in Lanes, InLoop(l), lane[l].pc # "step", lane'[l].pc \in Calling
    PROVE  CallOf(l)' = CallOf(l)
<1>1. OneLane(l) /\ AITypes /\ StepMove(l)
  BY LoopLaneFacts
<1>2. lane'[l].step = lane[l].step
  BY <1>1 DEF StepMove, Calling, Looping
<1> QED BY <1>1, <1>2, OwnCallStays

LEMMA AnswerKeepsCalls ==
    ASSUME AIInv, CallInv, NEW l \in Lanes, ModelAnswers(l) \/ RechecksUser(l)
    PROVE  CallInv'
<1>1. InLoop(l) /\ UNCHANGED <<waiting, answer, decided, performed>>
  BY DEF InLoop, ModelAnswers, RechecksUser, approvalVars
<1>2. /\ OneLane(l) /\ lane[l].pc \in {"think", "recheck"} /\ AITypes
      /\ lane[l].pc # "delegating" /\ \A c \in Calls : Before(c) => Before(c)'
  BY <1>1, LoopLaneFacts DEF ModelAnswers, RechecksUser
<1>3. answer[l] = "empty" /\ LaneCalls(l)
  BY <1>2 DEF CallInv, LaneCalls
<1>4. \A w \in waiting : w.lane # l
  BY <1>2 DEF CallInv, Waiter
<1>5. LaneCalls(l)'
  <2>1. CASE lane'[l].pc \notin Calling
    BY <1>1, <1>3, <2>1, IdleLaneCalls
  <2>2. CASE lane'[l].pc \in Calling
    <3>1. CallOf(l)' = CallOf(l)
      BY <1>1, <1>2, <2>2, SameCall
    <3>2. /\ Decided(CallOf(l))' <=> Decided(CallOf(l))
          /\ Performed(CallOf(l))' <=> Performed(CallOf(l))
      BY <1>1, <3>1 DEF Decided, Performed
    <3>3. \/ lane[l].pc = "think" /\ lane'[l].pc = "admit"
          \/ lane[l].pc = "recheck" /\ lane'[l].pc = "perform"
      <4>1. CASE ModelAnswers(l)
        <5>1. lane[l].pc = "think" /\ lane[l] \in LaneStates
          BY <1>2, <4>1 DEF ModelAnswers, AITypes
        <5>2. ~Ends(l, "succeeded") /\ ~Fails(l)
          BY <1>2, <2>2, EndsLane, FailsLane DEF AITypes, Calling
        <5>3. PICK kind \in Kinds : lane' = [lane EXCEPT ![l].pc = "admit", ![l].kind = kind]
          BY <4>1, <5>2 DEF ModelAnswers
        <5> QED BY <1>2, <5>1, <5>3, WantsLane DEF AITypes
      <4>2. CASE RechecksUser(l)
        <5>1. lane[l].pc = "recheck" /\ (Moves(l, "perform") \/ Ends(l, "failed"))
          BY <4>2 DEF RechecksUser
        <5>2. ~Ends(l, "failed")
          BY <1>2, <2>2, EndsLane DEF AITypes, Calling
        <5> QED BY <1>2, <5>1, <5>2, MovesLane DEF AITypes, LanePcs
      <4> QED BY <4>1, <4>2
    <3>4. ~Performed(CallOf(l)) /\ answer'[l] = "empty"
      BY <1>1, <1>2, <1>3 DEF LaneCalls, Calling
    <3>5. CASE lane[l].pc = "think" /\ lane'[l].pc = "admit"
      <4>1. ~Decided(CallOf(l))
        BY <1>3, <3>5 DEF LaneCalls
      <4> QED BY <3>2, <3>4, <3>5, <4>1 DEF LaneCalls
    <3>6. CASE lane[l].pc = "recheck" /\ lane'[l].pc = "perform"
      <4>1. /\ [call |-> CallOf(l), decision |-> "approved"] \in decided
            /\ [call |-> CallOf(l), decision |-> "denied"] \notin decided
        BY <1>3, <3>6 DEF LaneCalls
      <4>2. ([call |-> CallOf(l), decision |-> "approved"] \in decided
            /\ [call |-> CallOf(l), decision |-> "denied"] \notin decided)'
        BY <1>1, <3>1, <4>1
      <4> QED BY <3>2, <3>4, <3>6, <4>2 DEF LaneCalls
    <3> QED BY <3>3, <3>5, <3>6
  <2> QED BY <2>1, <2>2
<1>6. /\ decided' = decided /\ waiting' = waiting /\ performed' = performed
      /\ answer' \in [Lanes -> {"empty", "approved", "denied"}]
      /\ \A k \in Lanes \ {l} : answer'[k] = answer[k]
  BY <1>1 DEF CallInv
<1> QED BY <1>2, <1>4, <1>5, <1>6, OneLaneKeepsCalls

\* An approval is opened for the call of the lane, in the place of no other.
LEMMA AdmissionKeepsCalls ==
    ASSUME AIInv, CallInv, NEW l \in Lanes, AdmitsCall(l)
    PROVE  CallInv'
<1>1. InLoop(l) /\ UNCHANGED <<answer, decided, performed>> /\ lane[l].pc = "admit"
  BY DEF InLoop, AdmitsCall
<1>2. /\ OneLane(l) /\ lane[l].pc = "admit" /\ AITypes
      /\ lane[l].pc # "delegating" /\ \A c \in Calls : Before(c) => Before(c)'
  BY <1>1, LoopLaneFacts
<1>3. answer[l] = "empty" /\ ~Decided(CallOf(l)) /\ ~Performed(CallOf(l))
  BY <1>2 DEF CallInv, LaneCalls, Calling
<1>4. \A w \in waiting : w.lane # l
  BY <1>2 DEF CallInv, Waiter
<1>5. \/ Repeats(l) /\ waiting' = waiting
      \/ /\ Moves(l, "parked")
         /\ waiting' = {w \in waiting : w.id # QualifiedCallID(CallOf(l))}
                         \cup {[id |-> QualifiedCallID(CallOf(l)), lane |-> l]}
      \/ /\ Moves(l, "perform") /\ waiting' = waiting
         /\ ~RequiresApproval(lane[l].kind, lane[l].mode)
  BY DEF AdmitsCall
<1>6. CASE Repeats(l) /\ waiting' = waiting
  <2>1. lane'[l].pc = "step"
    BY <1>2, <1>6, RepeatsLane DEF AITypes
  <2>2. LaneCalls(l)'
    BY <1>1, <1>3, <2>1, IdleLaneCalls DEF Calling
  <2>3. /\ decided' = decided /\ performed' = performed
        /\ answer' \in [Lanes -> {"empty", "approved", "denied"}]
        /\ \A k \in Lanes \ {l} : answer'[k] = answer[k]
    BY <1>1 DEF CallInv
  <2> QED BY <1>2, <1>4, <1>6, <2>2, <2>3, OneLaneKeepsCalls
<1>7. CASE ~(Repeats(l) /\ waiting' = waiting)
  <2>1. /\ lane'[l].pc \in {"parked", "perform"}
        /\ lane'[l].kind = lane[l].kind /\ lane'[l].mode = lane[l].mode
    BY <1>2, <1>5, <1>7, MovesLane DEF AITypes, LanePcs
  <2>2. CallOf(l)' = CallOf(l)
    BY <1>1, <1>2, <2>1, SameCall DEF Calling
  <2>3. ~Decided(CallOf(l))' /\ ~Performed(CallOf(l))'
    BY <1>1, <1>3, <2>2 DEF Decided, Performed
  <2>4. [call |-> CallOf(l), decision |-> "denied"] \notin decided
    BY <1>3 DEF Decided
  <2>5. lane'[l].pc = "perform" => ~RequiresApproval(lane[l].kind, lane[l].mode)
    BY <1>2, <1>5, <1>7, MovesLane DEF AITypes, LanePcs
  <2>6. LaneCalls(l)'
    <3>1. (lane[l].pc = "perform" => ~RequiresApproval(lane[l].kind, lane[l].mode))'
      BY <2>1, <2>5 DEF RequiresApproval
    <3>2. ([call |-> CallOf(l), decision |-> "denied"] \notin decided)'
      BY <1>1, <2>2, <2>4
    <3>3. answer'[l] = "empty" /\ lane'[l].pc \in {"parked", "perform"}
      BY <1>1, <1>3, <2>1
    <3> QED BY <2>3, <3>1, <3>2, <3>3 DEF LaneCalls
  <2>7. \A w \in waiting' : (w \in waiting /\ w.lane # l) \/ Waiter(w)'
    <3> SUFFICES ASSUME NEW w \in waiting', w \notin waiting PROVE Waiter(w)'
      BY <1>4
    <3>1. lane'[l].pc = "parked" /\ w = [id |-> QualifiedCallID(CallOf(l)), lane |-> l]
      BY <1>2, <1>5, <1>7, MovesLane DEF AITypes, LanePcs
    <3>2. QualifiedCallID(CallOf(l))' = QualifiedCallID(CallOf(l))
      BY <2>2 DEF QualifiedCallID
    <3> QED BY <1>1, <1>3, <3>1, <3>2 DEF Waiter
  <2>8. /\ decided' = decided /\ performed' = performed
        /\ answer' \in [Lanes -> {"empty", "approved", "denied"}]
        /\ \A k \in Lanes \ {l} : answer'[k] = answer[k]
    BY <1>1 DEF CallInv
  <2> QED BY <1>2, <2>6, <2>7, <2>8, OneLaneKeepsCalls
<1> QED BY <1>6, <1>7

\* What was answered is taken with it, or dropped.
LEMMA ApprovalKeepsCalls ==
    ASSUME AIInv, CallInv, NEW l \in Lanes, ApprovalEnds(l)
    PROVE  CallInv'
<1>1. InLoop(l) /\ UNCHANGED <<decided, performed>> /\ lane[l].pc = "parked"
      /\ answer' = [answer EXCEPT ![l] = "empty"]
      /\ waiting' = {w \in waiting : w.id # QualifiedCallID(CallOf(l))}
  BY DEF InLoop, ApprovalEnds
<1>2. /\ OneLane(l) /\ lane[l].pc = "parked" /\ AITypes
      /\ lane[l].pc # "delegating" /\ \A c \in Calls : Before(c) => Before(c)'
  BY <1>1, LoopLaneFacts
<1>3. LaneCalls(l) /\ answer \in [Lanes -> {"empty", "approved", "denied"}]
  BY DEF CallInv
<1>4. \A w \in waiting' : w \in waiting /\ w.lane # l
  <2>1. \A w \in waiting : w.lane = l => w.id = QualifiedCallID(CallOf(l))
    BY DEF CallInv, Waiter
  <2> QED BY <1>1, <2>1
<1>5. answer'[l] = "empty"
  BY <1>1, <1>3
<1>6. LaneCalls(l)'
  <2>1. CASE lane'[l].pc \notin Calling
    BY <1>5, <2>1, IdleLaneCalls
  <2>2. CASE lane'[l].pc \in Calling
    <3>1. CallOf(l)' = CallOf(l)
      BY <1>1, <2>2, SameCall
    <3>2. answer[l] = "approved" /\ Moves(l, "recheck")
      <4>1. ~Repeats(l) /\ ~Fails(l) /\ ~Ends(l, "failed")
        BY <1>2, <2>2, RepeatsLane, FailsLane, EndsLane DEF AITypes, Calling
      <4> QED BY <4>1 DEF ApprovalEnds
    <3>3. lane'[l].pc = "recheck"
      BY <1>2, <3>2, MovesLane DEF AITypes, LanePcs
    <3>4. [call |-> CallOf(l), decision |-> "approved"] \in decided /\ ~Performed(CallOf(l))
      BY <1>2, <1>3, <3>2 DEF LaneCalls, Calling
    <3>5. [call |-> CallOf(l), decision |-> "denied"] \notin decided
      <4>1. \A d, e \in decided : d.call = e.call => d = e
        BY DEF CallInv
      <4> QED BY <3>4, <4>1
    <3>6. ~Performed(CallOf(l))'
      BY <1>1, <3>1, <3>4 DEF Performed
    <3> QED BY <1>1, <1>5, <3>1, <3>3, <3>4, <3>5, <3>6 DEF LaneCalls
  <2> QED BY <2>1, <2>2
<1>7. /\ decided' = decided /\ performed' = performed
      /\ answer' \in [Lanes -> {"empty", "approved", "denied"}]
      /\ \A k \in Lanes \ {l} : answer'[k] = answer[k]
  BY <1>1, <1>3
<1> QED BY <1>2, <1>4, <1>6, <1>7, OneLaneKeepsCalls

\* A call that is made was approved, if it had to be, and never denied.
LEMMA PerformanceKeepsCalls ==
    ASSUME AIInv, CallInv, NEW l \in Lanes, PerformsCall(l)
    PROVE  CallInv'
<1>1. InLoop(l) /\ UNCHANGED <<waiting, answer, decided>> /\ lane[l].pc = "perform"
      /\ Repeats(l)
  BY DEF InLoop, PerformsCall, approvalVars
<1>2. /\ OneLane(l) /\ lane[l].pc = "perform" /\ AITypes
      /\ lane[l].pc # "delegating" /\ \A c \in Calls : Before(c) => Before(c)'
  BY <1>1, LoopLaneFacts
<1>3. LaneCalls(l) /\ answer[l] = "empty"
  BY <1>2 DEF CallInv, LaneCalls
<1>4. \A w \in waiting : w.lane # l
  BY <1>2 DEF CallInv, Waiter
<1>5. lane'[l].pc = "step"
  BY <1>1, <1>2, RepeatsLane DEF AITypes
<1>6. LaneCalls(l)'
  BY <1>1, <1>3, <1>5, IdleLaneCalls DEF Calling
<1>7. \A p \in performed' : p \in performed \/
             /\ p \in Performances /\ p.call = CallOf(l) /\ Before(p.call)
             /\ RequiresApproval(p.kind, p.mode)
                  => [call |-> p.call, decision |-> "approved"] \in decided
             /\ [call |-> p.call, decision |-> "denied"] \notin decided
  <2> DEFINE new == [call |-> CallOf(l), kind |-> lane[l].kind, mode |-> lane[l].mode]
  <2>1. \A p \in performed' : p \in performed \/ p = new
    BY DEF PerformsCall
  <2>2. new \in Performances
    <3>1. lane[l] \in LaneStates
      BY <1>2 DEF AITypes
    <3> QED BY <1>2, <3>1, CallFacts DEF Performances, LaneStates
  <2>3. Before(CallOf(l))
    BY <1>2, CallIsBefore DEF Calling
  <2>4. /\ RequiresApproval(lane[l].kind, lane[l].mode)
             => [call |-> CallOf(l), decision |-> "approved"] \in decided
        /\ [call |-> CallOf(l), decision |-> "denied"] \notin decided
    BY <1>2, <1>3 DEF LaneCalls
  <2> QED BY <2>1, <2>2, <2>3, <2>4
<1>8. /\ decided' = decided /\ waiting' = waiting
      /\ answer' \in [Lanes -> {"empty", "approved", "denied"}]
      /\ \A k \in Lanes \ {l} : answer'[k] = answer[k]
  BY <1>1 DEF CallInv
<1> QED BY <1>2, <1>4, <1>6, <1>7, <1>8, OneLaneKeepsCalls

\* A delegation starts branches whose calls come after those of earlier delegations,
\* and it ends when all of them are done.
LEMMA DelegationKeepsCalls ==
    ASSUME AIInv, CallInv, NEW l \in Lanes, Delegates(l) \/ BranchesReturn(l)
    PROVE  CallInv'
<1> DEFINE t == TurnOf(l)
<1>1. UNCHANGED <<waiting, answer, decided, performed>>
  BY DEF Delegates, BranchesReturn, approvalVars
<1>2. AITypes /\ t \in Turns /\ IsMain(l) /\ l = Main(t)
  BY LaneFacts DEF AIInv, BranchesAreDelegated, BranchPcs, Delegates, BranchesReturn
<1>3. \A k \in Lanes : TurnOf(k) # t => lane'[k] = lane[k]
  BY DEF Delegates, BranchesReturn
<1>4. \A k \in Lanes : TurnOf(k) = t => lane[k].pc \notin (Calling \ {"perform"})
                                         /\ lane'[k].pc \notin Calling
  <2> SUFFICES ASSUME NEW k \in Lanes, TurnOf(k) = t
               PROVE  lane[k].pc \notin (Calling \ {"perform"}) /\ lane'[k].pc \notin Calling
    OBVIOUS
  <2>1. CASE Delegates(l)
    <3>1. k # l => ~IsMain(k)
      BY <1>2, LaneFacts
    <3>2. k # l => lane[k].pc \in {"none", "gone"}
      BY <1>2, <2>1, <3>1 DEF AIInv, BranchesAreDelegated, Delegates
    <3>3. lane'[k].pc \in {"delegating", "step"}
      BY <1>2, <2>1 DEF Delegates, NoLane, AITypes, LaneStates
    <3> QED BY <2>1, <3>2, <3>3 DEF Calling, Delegates
  <2>2. CASE BranchesReturn(l)
    <3>1. k # l => k = <<t, k[2]>> /\ k[2] \in Branches
      BY <1>2 DEF Lanes, TurnOf, Main
    <3>2. k # l => lane[k].pc = "done"
      BY <2>2, <3>1 DEF BranchesReturn
    <3>3. lane'[k].pc \in {"step", "none"}
      BY <2>2 DEF BranchesReturn, NoLane
    <3> QED BY <2>2, <3>2, <3>3 DEF Calling, BranchesReturn
  <2> QED BY <2>1, <2>2
<1>5. \A k \in Lanes : TurnOf(k) # t => CallOf(k)' = CallOf(k)
  <2> SUFFICES ASSUME NEW k \in Lanes, TurnOf(k) # t PROVE CallOf(k)' = CallOf(k)
    OBVIOUS
  <2>1. Main(TurnOf(k)) \in Lanes /\ TurnOf(Main(TurnOf(k))) # t
    BY LaneFacts
  <2> QED BY <1>3, <2>1, LaneNames DEF CallOf, Main
<1>6. lane'[l].step = lane[l].step /\ lane[l].step \in Nat
      /\ \/ lane[l].pc = "perform" /\ lane'[l].pc = "delegating"
         \/ lane[l].pc = "delegating" /\ lane'[l].pc = "step"
  <2>1. lane[l] \in LaneStates
    BY <1>2 DEF AITypes
  <2> QED BY <2>1 DEF Delegates, BranchesReturn, LaneStates, NoLane
<1> HIDE DEF t
<1>7. ASSUME NEW c \in Calls, Before(c) PROVE Before(c)'
  <2>1. Main(c.turn) \in Lanes /\ <<c.turn, c.branch>> \in Lanes
        /\ TurnOf(<<c.turn, c.branch>>) = c.turn /\ TurnOf(Main(c.turn)) = c.turn
    BY CallLane
  <2>2. CASE c.turn # t
    BY <1>3, <1>7, <2>1, <2>2, LaneNames DEF Before
  <2>3. CASE c.turn = t
    <3>1. lane[l].pc \in Looping /\ lane[l].pc # "step"
      BY <1>6 DEF Looping
    <3>2. c.of <= lane[l].step /\ (c.branch = "main" => c.number = c.of)
      BY <1>2, <1>7, <2>3, <3>1 DEF Before
    <3>3. lane[l].pc = "perform" => c.of # lane[l].step \/ c.branch = "main"
      BY <1>2, <1>7, <2>3, <3>1 DEF Before
    <3> QED BY <1>2, <1>6, <2>3, <3>2, <3>3, LaneNames DEF Before
  <2> QED BY <2>2, <2>3
<1>8. ASSUME NEW k \in Lanes PROVE LaneCalls(k)'
  <2>1. LaneCalls(k)
    BY DEF CallInv
  <2>2. CASE TurnOf(k) = t
    <3>1. answer'[k] = "empty" /\ lane'[k].pc \notin Calling
      BY <1>1, <1>4, <2>1, <2>2 DEF LaneCalls, Calling
    <3> QED BY <3>1, IdleLaneCalls
  <2>3. CASE TurnOf(k) # t
    <3>1. CallOf(k)' = CallOf(k) /\ lane'[k] = lane[k]
      BY <1>3, <1>5, <2>3
    <3> QED BY <1>1, <2>1, <3>1 DEF LaneCalls, Decided, Performed, RequiresApproval
  <2> QED BY <2>2, <2>3
<1>9. ASSUME NEW w \in waiting PROVE Waiter(w)'
  <2>1. Waiter(w) /\ w.lane \in Lanes /\ lane[w.lane].pc = "parked"
    BY DEF CallInv, Waiter
  <2>2. TurnOf(w.lane) # t
    BY <1>4, <2>1 DEF Calling
  <2>3. CallOf(w.lane)' = CallOf(w.lane) /\ lane'[w.lane] = lane[w.lane]
    BY <1>3, <1>5, <2>1, <2>2
  <2> QED BY <1>1, <2>1, <2>3 DEF Waiter, QualifiedCallID
<1>10. \A d \in decided : d.call \in Calls /\ Before(d.call)
  BY DEF CallInv, Decisions
<1>11. \A p \in performed : p.call \in Calls /\ Before(p.call)
  BY DEF CallInv, Performances
<1>12. (\A d \in decided : Before(d.call))' /\ (\A p \in performed : Before(p.call))'
  BY <1>1, <1>7, <1>10, <1>11
<1>13. PerformedAsDecided'
  BY <1>1 DEF CallInv, PerformedAsDecided, RequiresApproval
<1> QED BY <1>1, <1>8, <1>9, <1>12, <1>13 DEF CallInv

\* A turn that has left its loop, or has not reached it, has no call to make.
LEMMA MainKeepsCalls ==
    ASSUME AIInv, CallInv, NEW l \in Lanes, IsMain(l), NEW pc \in LanePcs, Moves(l, pc),
           pc \notin Looping \cup {"none", "begin", "gone"},
           lane[l].pc \notin Looping,
           UNCHANGED <<waiting, answer, decided, performed>>
    PROVE  CallInv'
<1>1. AITypes /\ OneLane(l) /\ lane'[l].pc = pc
  BY MovesLane DEF AIInv, AITypes
<1>2. lane[l].pc # "delegating" /\ lane[l].pc # "parked" /\ lane'[l].pc \notin Calling
  BY <1>1 DEF Looping, Calling
<1>3. \A w \in waiting : w.lane # l
  BY <1>2 DEF CallInv, Waiter
<1>4. LaneCalls(l)'
  <2>1. answer'[l] = "empty"
    BY <1>2 DEF CallInv, LaneCalls
  <2> QED BY <1>2, <2>1, IdleLaneCalls
<1>5. \A c \in Calls : Before(c) => Before(c)'
  <2> SUFFICES ASSUME NEW c \in Calls, Before(c) PROVE Before(c)'
    OBVIOUS
  <2>1. Main(c.turn) \in Lanes /\ <<c.turn, c.branch>> \in Lanes /\ IsMain(Main(c.turn))
        /\ (c.branch # "main" <=> ~IsMain(<<c.turn, c.branch>>))
    BY CallLane
  <2>2. CASE Main(c.turn) = l
    BY <1>1, <2>2, LaneNames DEF Before
  <2>3. CASE Main(c.turn) # l
    <3>1. lane'[Main(c.turn)] = lane[Main(c.turn)]
      BY <1>1, <2>1, <2>3 DEF OneLane
    <3>2. c.branch # "main" => lane'[<<c.turn, c.branch>>] = lane[<<c.turn, c.branch>>]
      BY <1>1, <2>1 DEF OneLane
    <3> QED BY <3>1, <3>2, LaneNames DEF Before
  <2> QED BY <2>2, <2>3
<1>6. /\ decided' = decided /\ waiting' = waiting /\ performed' = performed
      /\ answer' \in [Lanes -> {"empty", "approved", "denied"}]
      /\ \A k \in Lanes \ {l} : answer'[k] = answer[k]
  BY DEF CallInv
<1> QED BY <1>1, <1>2, <1>3, <1>4, <1>5, <1>6, OneLaneKeepsCalls

\* What was decided for a turn is forgotten when the turn is gone.
LEMMA LeavingKeepsCalls ==
    ASSUME AIInv, CallInv, NEW l \in Lanes, LeavesJobs(l)
    PROVE  CallInv'
<1> DEFINE t == TurnOf(l)
<1>1. UNCHANGED <<waiting, answer>> /\ lane[l].pc = "leaving"
      /\ decided' = {d \in decided : d.call.turn # t}
      /\ performed' = {p \in performed : p.call.turn # t}
  BY DEF LeavesJobs
<1>2. AITypes /\ t \in Turns /\ IsMain(l) /\ l = Main(t)
  BY <1>1, LaneFacts DEF AIInv, BranchesAreDelegated, BranchPcs
<1>3. OneLane(l) /\ lane'[l].pc = "gone"
  <2>1. lane' = [lane EXCEPT ![l] = [NoLane EXCEPT !.pc = "gone"]]
    BY DEF LeavesJobs
  <2>2. [NoLane EXCEPT !.pc = "gone"] \in LaneStates
        /\ [NoLane EXCEPT !.pc = "gone"].pc = "gone"
    BY DEF NoLane, LaneStates, LanePcs, Modes
  <2> QED BY <1>2, <2>1, <2>2 DEF OneLane, AITypes
<1>4. \A k \in Lanes : TurnOf(k) = t => lane[k].pc \notin Calling
  <2> SUFFICES ASSUME NEW k \in Lanes, TurnOf(k) = t, k # l
               PROVE  lane[k].pc \notin Calling
    BY <1>1 DEF Calling
  <2>1. ~IsMain(k)
    BY <1>2, LaneFacts
  <2> QED BY <1>1, <1>2, <2>1 DEF AIInv, BranchesAreDelegated, Calling
<1>5. \A k \in Lanes : LaneCalls(k)'
  <2>1. LaneCalls(l)'
    <3>1. answer'[l] = "empty"
      BY <1>1 DEF CallInv, LaneCalls
    <3> QED BY <1>3, <3>1, IdleLaneCalls DEF Calling
  <2>2. \A d : d.call.turn # TurnOf(l) => (d \in decided' <=> d \in decided)
    BY <1>1
  <2>3. \A p \in performed' : p \in performed
    BY <1>1
  <2>4. \A k \in Lanes \ {l} : LaneCalls(k)'
    BY <1>1, <1>3, <1>4, <2>2, <2>3, OtherLanesKeepCalls
  <2> QED BY <2>1, <2>4
<1>6. (\A w \in waiting : Waiter(w))'
  <2> SUFFICES ASSUME NEW w \in waiting PROVE Waiter(w)'
    BY <1>1
  <2>1. w.lane \in Lanes /\ lane[w.lane].pc = "parked"
    BY DEF CallInv, Waiter
  <2> QED BY <1>1, <1>3, <2>1, OtherWaitersStay
<1> HIDE DEF t
<1>7. ASSUME NEW c \in Calls, Before(c), c.turn # t PROVE Before(c)'
  <2>1. Main(c.turn) \in Lanes /\ <<c.turn, c.branch>> \in Lanes
        /\ TurnOf(<<c.turn, c.branch>>) = c.turn /\ TurnOf(Main(c.turn)) = c.turn
    BY CallLane
  <2>2. lane'[Main(c.turn)] = lane[Main(c.turn)]
        /\ lane'[<<c.turn, c.branch>>] = lane[<<c.turn, c.branch>>]
    BY <1>3, <1>7, <2>1 DEF OneLane, t
  <2> QED BY <1>7, <2>2, LaneNames DEF Before
<1>8. (\A d \in decided : Before(d.call))' /\ (\A p \in performed : Before(p.call))'
  <2>1. \A d \in decided : d.call \in Calls /\ Before(d.call)
    BY DEF CallInv, Decisions
  <2>2. \A p \in performed : p.call \in Calls /\ Before(p.call)
    BY DEF CallInv, Performances
  <2> QED BY <1>1, <1>7, <2>1, <2>2
<1>9. PerformedAsDecided'
  <2> SUFFICES ASSUME NEW p \in performed'
               PROVE  /\ RequiresApproval(p.kind, p.mode)
                           => [call |-> p.call, decision |-> "approved"] \in decided'
                      /\ [call |-> p.call, decision |-> "denied"] \notin decided'
    BY DEF PerformedAsDecided, RequiresApproval
  <2>1. p \in performed /\ p.call.turn # t
    BY <1>1
  <2> QED BY <1>1, <2>1 DEF CallInv, PerformedAsDecided
<1> QED BY <1>1, <1>5, <1>6, <1>8, <1>9 DEF CallInv

LEMMA EndKeepsCalls ==
    ASSUME AIInv, CallInv, NEW l \in Lanes, FinishesTurn(l) \/ ClosesToolTurn(l)
    PROVE  CallInv'
<1>1. UNCHANGED <<waiting, answer, decided, performed>>
      /\ lane[l].pc \in {"finishing", "cleanup"}
  BY DEF FinishesTurn, ClosesToolTurn, approvalVars
<1>2. IsMain(l)
  BY <1>1 DEF AIInv, BranchesAreDelegated, BranchPcs
<1>3. PICK pc \in {"cleanup", "leaving"} : Moves(l, pc)
  BY DEF FinishesTurn, ClosesToolTurn
<1> QED BY <1>1, <1>2, <1>3, MainKeepsCalls DEF LanePcs, Looping

\* A loop that is set going has made no calls yet, nor has any of its branches.
LEMMA RegisterKeepsCalls ==
    ASSUME AIInv, CallInv, NEW r \in TurnRequests, StartRegisters(r)
    PROVE  CallInv'
<1> DEFINE t == request[r].turn
<1>1. UNCHANGED <<waiting, answer, decided, performed>> /\ request[r].pc = "opened"
      /\ Moves(Main(t), "begin")
  BY DEF StartRegisters, approvalVars, Moves
<1>2. AITypes /\ t \in Turns
  <2>1. AITypes /\ request[r] \in RequestStates
    BY DEF AIInv, AITypes
  <2> QED BY <1>1, <2>1 DEF RequestStates
<1>3. PICK l \in Lanes : l = Main(t) /\ TurnOf(l) = t
  BY <1>2, LaneFacts
<1>4. \A k \in Lanes : TurnOf(k) = t => lane[k].pc = "none"
  BY <1>1 DEF AIInv, OpenedTurnsWait
<1> HIDE DEF t
<1>5. OneLane(l) /\ lane'[l].pc = "begin"
  BY <1>1, <1>2, <1>3, MovesLane DEF AITypes, LanePcs
<1>6. lane[l].pc = "none"
  BY <1>3, <1>4
<1>7. LaneCalls(l)'
  <2>1. answer'[l] = "empty"
    BY <1>1, <1>3, <1>6 DEF CallInv, LaneCalls
  <2> QED BY <1>3, <1>5, <2>1, IdleLaneCalls DEF Calling
<1>8. \A c \in Calls : Before(c) => Before(c)'
  <2> SUFFICES ASSUME NEW c \in Calls, Before(c) PROVE Before(c)'
    OBVIOUS
  <2>1. Main(c.turn) \in Lanes /\ <<c.turn, c.branch>> \in Lanes
        /\ TurnOf(<<c.turn, c.branch>>) = c.turn /\ TurnOf(Main(c.turn)) = c.turn
    BY CallLane
  <2>2. c.turn # t
    BY <1>4, <2>1 DEF Before
  <2>3. lane'[Main(c.turn)] = lane[Main(c.turn)]
        /\ lane'[<<c.turn, c.branch>>] = lane[<<c.turn, c.branch>>]
    BY <1>3, <1>5, <2>1, <2>2 DEF OneLane
  <2> QED BY <2>3, LaneNames DEF Before
<1>9. /\ decided' = decided /\ waiting' = waiting /\ performed' = performed
      /\ answer' \in [Lanes -> {"empty", "approved", "denied"}]
      /\ \A k \in Lanes \ {l} : answer'[k] = answer[k]
  BY <1>1 DEF CallInv
<1>10. \A w \in waiting : w.lane # l
  BY <1>6 DEF CallInv, Waiter
<1> QED BY <1>3, <1>5, <1>6, <1>7, <1>8, <1>9, <1>10, OneLaneKeepsCalls

\* A person decides about a call that nobody has decided about, through an approval
\* which is that call's.
LEMMA DecisionKeepsCalls ==
    ASSUME AIInv, CallInv, NEW l \in Lanes, NEW decision \in {"approved", "denied"},
           Decide(l, decision)
    PROVE  CallInv'
<1>1. UNCHANGED <<lane, performed>> /\ lane[l].pc = "parked"
      /\ decided' = decided \cup {[call |-> CallOf(l), decision |-> decision]}
  BY DEF Decide
<1>2. PICK w \in waiting : /\ w.id = QualifiedCallID(CallOf(l))
                           /\ waiting' = waiting \ {w}
                           /\ answer' = [answer EXCEPT ![w.lane] = decision]
  BY DEF Decide
<1>3. AITypes /\ \A k \in Lanes : CallOf(k) \in Calls
  BY CallFacts DEF AIInv
<1>4. Waiter(w) /\ w.lane \in Lanes /\ w.id = QualifiedCallID(CallOf(w.lane))
      /\ answer[w.lane] = "empty"
  BY DEF CallInv, Waiter
<1>5. \A k \in Lanes : CallOf(k) = CallOf(l) => k = l
  BY <1>3, CallFacts
<1>6. w.lane = l
  BY <1>2, <1>3, <1>4, <1>5, IdentifiersDiffer
<1>7. answer[l] = "empty" /\ ~Decided(CallOf(l)) /\ ~Performed(CallOf(l))
  BY <1>1, <1>4, <1>6 DEF CallInv, LaneCalls, Calling
<1>8. answer \in [Lanes -> {"empty", "approved", "denied"}]
      /\ answer' = [answer EXCEPT ![l] = decision]
  BY <1>2, <1>6 DEF CallInv
<1>9. \A k : CallOf(k)' = CallOf(k)
  BY <1>1 DEF CallOf, TurnOf, Main
<1>10. \A c : Before(c)' <=> Before(c)
  BY <1>1, LaneNames DEF Before
<1>11. decided' \subseteq Decisions
  BY <1>1, <1>3 DEF CallInv, Decisions
<1>12. (\A d \in decided : Before(d.call))' /\ (\A p \in performed : Before(p.call))'
  <2>1. Before(CallOf(l))
    BY <1>1, CallIsBefore DEF Calling
  <2>2. \A d \in decided' : Before(d.call)
    BY <1>1, <2>1 DEF CallInv
  <2> QED BY <1>1, <1>10, <2>2 DEF CallInv
<1>13. (\A v \in waiting : Waiter(v))'
  <2> SUFFICES ASSUME NEW v \in waiting, v # w PROVE Waiter(v)'
    BY <1>2
  <2>1. Waiter(v) /\ v.lane \in Lanes
    BY DEF CallInv, Waiter
  <2>2. v.lane # l
    BY <1>4, <1>6, <2>1 DEF Waiter
  <2>3. answer'[v.lane] = answer[v.lane]
    BY <1>8, <2>1, <2>2
  <2> QED BY <1>1, <1>9, <2>1, <2>3 DEF Waiter, QualifiedCallID
<1>14. (\A k \in Lanes : LaneCalls(k))'
  <2> SUFFICES ASSUME NEW k \in Lanes PROVE LaneCalls(k)'
    OBVIOUS
  <2>1. LaneCalls(k)
    BY DEF CallInv
  <2>2. Performed(CallOf(k))' <=> Performed(CallOf(k))
    BY <1>1, <1>9 DEF Performed
  <2>3. CASE k = l
    <3>1. answer'[l] = decision /\ decision # "empty"
      BY <1>8
    <3>2. ([call |-> CallOf(l), decision |-> answer[l]] \in decided)'
      BY <1>1, <1>9, <3>1
    <3> QED BY <1>1, <1>7, <2>2, <2>3, <3>1, <3>2 DEF LaneCalls
  <2>4. CASE k # l
    <3>1. answer'[k] = answer[k]
      BY <1>8, <2>4
    <3>2. CallOf(k) # CallOf(l)
      BY <1>5, <2>4
    <3>3. Decided(CallOf(k))' <=> Decided(CallOf(k))
      <4>1. PICK c : c = CallOf(k)
        OBVIOUS
      <4>2. \A d : d.call = c => (d \in decided' <=> d \in decided)
        BY <1>1, <3>2, <4>1
      <4> QED BY <1>9, <4>1, <4>2 DEF Decided
    <3>4. \A x : [call |-> CallOf(k), decision |-> x]' \in decided'
                   <=> [call |-> CallOf(k), decision |-> x] \in decided
      BY <1>1, <1>9, <3>2
    <3> QED BY <1>1, <2>1, <2>2, <3>1, <3>3, <3>4 DEF LaneCalls, RequiresApproval
  <2> QED BY <2>3, <2>4
<1>15. (\A d, e \in decided : d.call = e.call => d = e)'
  <2>1. \A d \in decided : d.call # CallOf(l)
    BY <1>7 DEF Decided
  <2>2. \A d, e \in decided : d.call = e.call => d = e
    BY DEF CallInv
  <2> QED BY <1>1, <2>1, <2>2
<1>16. PerformedAsDecided'
  <2> SUFFICES ASSUME NEW p \in performed
               PROVE  /\ RequiresApproval(p.kind, p.mode)
                           => [call |-> p.call, decision |-> "approved"] \in decided'
                      /\ [call |-> p.call, decision |-> "denied"] \notin decided'
    BY <1>1 DEF PerformedAsDecided, RequiresApproval
  <2>1. p.call # CallOf(l)
    BY <1>7 DEF Performed
  <2> QED BY <1>1, <2>1 DEF CallInv, PerformedAsDecided
<1> QED BY <1>1, <1>8, <1>11, <1>12, <1>13, <1>14, <1>15, <1>16 DEF CallInv

\* Whatever moves no lane and decides nothing leaves calls alone.
LEMMA RestKeepsCalls ==
    ASSUME CallInv, UNCHANGED <<lane, approvalVars, performed>>
    PROVE  CallInv'
<1>1. UNCHANGED <<lane, waiting, answer, decided, performed>>
  BY DEF approvalVars
<1>2. \A k : CallOf(k)' = CallOf(k)
  BY <1>1 DEF CallOf, TurnOf, Main
<1>3. \A c : Before(c)' <=> Before(c)
  BY <1>1, LaneNames DEF Before
<1>4. \A w : Waiter(w)' <=> Waiter(w)
  BY <1>1, <1>2 DEF Waiter, QualifiedCallID
<1>5. \A k : LaneCalls(k)' <=> LaneCalls(k)
  BY <1>1, <1>2 DEF LaneCalls, Decided, Performed, RequiresApproval
<1>6. PerformedAsDecided' <=> PerformedAsDecided
  BY <1>1 DEF PerformedAsDecided, RequiresApproval
<1> QED BY <1>1, <1>3, <1>4, <1>5, <1>6 DEF CallInv

\* Nothing of a process that dies is left.
LEMMA DeathKeepsCalls == ASSUME ServerDies PROVE CallInv'
<1>1. /\ waiting' = {} /\ decided' = {} /\ performed' = {}
      /\ answer' = [l \in Lanes |-> "empty"]
      /\ \A l \in Lanes : lane'[l].pc \in {"none", "gone"}
  BY DEF ServerDies, NoLane
<1>2. \A l \in Lanes : LaneCalls(l)'
  BY <1>1, IdleLaneCalls DEF Calling
<1> QED BY <1>1, <1>2 DEF CallInv, PerformedAsDecided

LEMMA CallInvInit == AIInit => CallInv
<1> SUFFICES ASSUME AIInit PROVE CallInv
  OBVIOUS
<1>1. \A l \in Lanes : lane[l].pc = "none" /\ answer[l] = "empty"
  BY NoLaneTyped DEF AIInit
<1>2. \A l \in Lanes : LaneCalls(l)
  BY <1>1 DEF LaneCalls, Calling
<1> QED BY <1>2 DEF AIInit, CallInv, PerformedAsDecided

LEMMA CallInvStep == AIInv /\ CallInv /\ [AINext]_aiVars => CallInv'
<1> SUFFICES ASSUME AIInv, CallInv, [AINext]_aiVars PROVE CallInv'
  OBVIOUS
<1>1. ASSUME NEW r \in TurnRequests, RequestStep(r) PROVE CallInv'
  <2>1. CASE StartRegisters(r)
    BY <2>1, RegisterKeepsCalls
  <2>2. CASE StartAdmits(r) \/ StartCommits(r)
    BY <2>2, RestKeepsCalls DEF StartAdmits, StartCommits
  <2> QED BY <1>1, <2>1, <2>2 DEF RequestStep
<1>2. ASSUME NEW l \in Lanes, LaneStep(l) PROVE CallInv'
  BY <1>2, StepBeginsKeepsCalls, AnswerKeepsCalls, AdmissionKeepsCalls,
     ApprovalKeepsCalls, PerformanceKeepsCalls, DelegationKeepsCalls, EndKeepsCalls,
     LeavingKeepsCalls DEF LaneStep
<1>3. ASSUME NEW l \in Lanes, NEW d \in {"approved", "denied"}, Decide(l, d)
      PROVE  CallInv'
  BY <1>3, DecisionKeepsCalls
<1>4. ASSUME NEW r \in TurnRequests, NEW s \in AISessions, StartChecks(r, s)
      PROVE  CallInv'
  BY <1>4, RestKeepsCalls DEF StartChecks
<1>5. ASSUME NEW s \in AISessions,
             \/ CancelTurn(s) \/ ArchiveSession(s) \/ DeleteSession(s)
             \/ \E mode \in Modes : SwitchMode(s, mode)
      PROVE  CallInv'
  BY <1>5, RestKeepsCalls DEF CancelTurn, ArchiveSession, DeleteSession, SwitchMode
<1>6. ASSUME NEW t \in Turns, TurnTimesOut(t) PROVE CallInv'
  BY <1>6, RestKeepsCalls DEF TurnTimesOut
<1>7. CASE ChangesAccess
  BY <1>7, RestKeepsCalls DEF ChangesAccess
<1>8. CASE ServerDies
  BY <1>8, DeathKeepsCalls
<1>9. CASE ServerStarts
  BY <1>9, RestKeepsCalls DEF ServerStarts
<1>10. CASE UNCHANGED aiVars
  BY <1>10, RestKeepsCalls DEF aiVars, approvalVars
<1> QED BY <1>1, <1>2, <1>3, <1>4, <1>5, <1>6, <1>7, <1>8, <1>9, <1>10 DEF AINext

(* AITurns: the map of cancel functions, and the contexts of turns.          *)

Contexts ==
    /\ jobs \in [AISessions -> Nat]
    /\ turnCtx \in [Turns -> {"live", "canceled", "deadline"}]

LEMMA ContextsStep == AIInv /\ Contexts /\ [AINext]_aiVars => Contexts'
<1> SUFFICES ASSUME AIInv, Contexts, [AINext]_aiVars PROVE Contexts'
  OBVIOUS
<1>1. CASE UNCHANGED <<jobs, turnCtx>>
  BY <1>1 DEF Contexts
<1>2. ASSUME NEW r \in TurnRequests, RequestStep(r) PROVE Contexts'
  <2>1. CASE StartRegisters(r)
    <3>1. request[r].turn \in Turns
      BY <2>1 DEF StartRegisters, AIInv, AITypes, RequestStates
    <3>2. request[r].turn[2] \in Nat
      BY <3>1 DEF Turns
    <3> QED BY <2>1, <3>2 DEF StartRegisters, Contexts
  <2>2. CASE StartAdmits(r) \/ StartCommits(r)
    BY <1>1, <2>2 DEF StartAdmits, StartCommits
  <2> QED BY <1>2, <2>1, <2>2 DEF RequestStep
<1>3. ASSUME NEW l \in Lanes, LaneStep(l) PROVE Contexts'
  <2>1. CASE LeavesJobs(l)
    BY <2>1 DEF LeavesJobs, Contexts, NoTurn
  <2>2. CASE \/ LoopBegins(l) \/ StepBegins(l) \/ ModelAnswers(l) \/ AdmitsCall(l)
             \/ ApprovalEnds(l) \/ RechecksUser(l) \/ PerformsCall(l)
             \/ Delegates(l) \/ BranchesReturn(l) \/ FinishesTurn(l) \/ ClosesToolTurn(l)
    <3>1. UNCHANGED <<jobs, turnCtx>>
      BY <2>2 DEF LoopBegins, StepBegins, ModelAnswers, AdmitsCall, ApprovalEnds,
         RechecksUser, PerformsCall, Delegates, BranchesReturn, FinishesTurn,
         ClosesToolTurn, loopFrame
    <3> QED BY <1>1, <3>1
  <2> QED BY <1>3, <2>1, <2>2 DEF LaneStep
<1>4. ASSUME NEW s \in AISessions, CancelTurn(s) PROVE Contexts'
  BY <1>4 DEF CancelTurn, Contexts
<1>5. ASSUME NEW t \in Turns, TurnTimesOut(t) PROVE Contexts'
  BY <1>5 DEF TurnTimesOut, Contexts
<1>6. CASE ServerDies
  BY <1>6 DEF ServerDies, Contexts, NoTurn
<1>7. CASE \/ \E r \in TurnRequests, s \in AISessions : StartChecks(r, s)
           \/ \E l \in Lanes, d \in {"approved", "denied"} : Decide(l, d)
           \/ \E s \in AISessions :
                \/ ArchiveSession(s) \/ DeleteSession(s)
                \/ \E mode \in Modes : SwitchMode(s, mode)
           \/ ChangesAccess \/ ServerStarts \/ UNCHANGED aiVars
  BY <1>1, <1>7 DEF StartChecks, Decide, ArchiveSession, DeleteSession, SwitchMode,
     ChangesAccess, ServerStarts, aiVars
<1> QED BY <1>2, <1>3, <1>4, <1>5, <1>6, <1>7 DEF AINext

LEMMA TurnTypes == AIInv /\ CallInv /\ Contexts => AITypeOK
<1> SUFFICES ASSUME AIInv, CallInv, Contexts PROVE AITypeOK
  OBVIOUS
<1>1. \A w \in waiting : lane[w.lane].pc = "parked"
  BY DEF CallInv, Waiter
<1>2. AITypes /\ answer \in [Lanes -> {"empty", "approved", "denied"}]
  BY DEF AIInv, CallInv
<1> QED
  BY <1>1, <1>2 DEF AITypeOK, AITypes, Contexts, SessionRows, RunStates, LaneStates, LanePcs

-----------------------------------------------------------------------------
(* AITurns: the theorems.                                                    *)

\* No fairness is needed for what is safe.
LEMMA TurnsSafe ==
    AIInit /\ [][AINext]_aiVars =>
        [](AITypeOK /\ WorkBelongsToRunningTurn /\ QuotaHolds /\ PerformedAsDecided)
<1>1. AIInit => Contexts
  BY DEF AIInit, Contexts, NoTurn
<1>2. AIInv => WorkBelongsToRunningTurn
  BY DEF AIInv
<1>3. QuotaInv => QuotaHolds
  BY DEF QuotaInv
<1>4. CallInv => PerformedAsDecided
  BY DEF CallInv
<1> QED
  BY <1>1, <1>2, <1>3, <1>4, AIInvariant, QuotaInvInit, QuotaInvStep, CallInvInit,
     CallInvStep, ContextsStep, TurnTypes, PTL

\* Whatever works for a turn works for the one running turn of its session, however
\* many requests race to start one, and however many branches it has.
THEOREM TurnsWorkAlone == AISpec => []WorkBelongsToRunningTurn
BY TurnsSafe, PTL DEF AISpec

\* Any number of requests, of any sessions, together start no more turns than the
\* quota allows.
THEOREM QuotaIsRespected == AISpec => []QuotaHolds
BY TurnsSafe, PTL DEF AISpec

\* A call that needs a person is made after that person approved this very call, and
\* never after a refusal, with any number of branches that are parked at a time,
\* whatever their models call their calls, and whatever is dropped, repeated or
\* withdrawn meanwhile.
THEOREM ApprovalsAreKept == AISpec => []PerformedAsDecided
BY TurnsSafe, PTL DEF AISpec

\* Rows, cancel functions, contexts, lanes and approvals stay in their ranges, and only a
\* lane that is parked has an approval pending.
THEOREM TurnTypeCorrect == AISpec => []AITypeOK
BY TurnsSafe, PTL DEF AISpec

-----------------------------------------------------------------------------
(* MetricsForwarding: the types.                                            *)

ForwardRecords ==
    [phase : Answered \cup {"acquire", "open", "send", "exchange", "discard"},
     stream : IngestStreams \cup {NoStream}, retried : BOOLEAN, large : BOOLEAN]

StreamRecords ==
    [agent : {"opening", "open", "closed"}, server : {"none", "serving", "over"},
     sender : Forwards \cup {NoForward}, batch : {"none", "sent", "acknowledged"},
     lost : BOOLEAN, broken : BOOLEAN, carried : BOOLEAN, unsent : BOOLEAN]

\* A request has a Stream from the moment it opens or joins one until it is discarded.
ForwardTypes ==
    /\ forward \in [Forwards -> ForwardRecords]
    /\ ingestStream \in [IngestStreams -> StreamRecords]
    /\ attached \in BOOLEAN /\ linkUp \in BOOLEAN
    /\ {ingestSession, aborting} \subseteq IngestStreams \cup {NoStream}
    /\ opener \in Forwards \cup {NoForward}
    /\ gone \subseteq Forwards /\ forwardFaults \in 0 .. MaxForwardFaults
    /\ \A r \in Forwards :
         /\ forward[r].phase = "open" <=> opener = r
         /\ forward[r].phase \in {"open", "send", "exchange", "discard"} =>
              forward[r].stream \in IngestStreams

-----------------------------------------------------------------------------
(* MetricsForwarding: the inductive invariant.                              *)

\* Who opens a session has a Stream to itself, while there is no other session; what is
\* being opened is nobody else's, and not the session that others find.
OpenersAreAlone ==
    /\ opener # NoForward => ingestSession = NoStream
    /\ \A r \in Forwards : forward[r].phase = "open" =>
         ingestStream[forward[r].stream].agent = "opening"
    /\ \A s \in IngestStreams : ingestStream[s].agent = "opening" =>
         /\ s \notin {ingestSession, aborting}
         /\ \A r \in Forwards : forward[r].stream = s => forward[r].phase = "open"

\* A session is open only after the Server's handler has taken its Stream.
OpenIsTaken ==
    \A s \in IngestStreams :
        ingestStream[s].agent = "open" => ingestStream[s].server # "none"

\* Who gives a session up has closed it, or has not written to it.
DiscardedAreClosed ==
    \A r \in Forwards : forward[r].phase = "discard" =>
        LET st == ingestStream[forward[r].stream] IN
        st.agent = "closed" \/ st.unsent

\* What is open while the Connection is down is lost with it.
LostWithLink ==
    ~linkUp => \A s \in IngestStreams :
        ingestStream[s].agent = "closed" \/ ingestStream[s].lost

ForwardInv ==
    /\ ForwardTypes /\ OpenersAreAlone /\ OpenIsTaken /\ DiscardedAreClosed /\ LostWithLink
    /\ OnlyUnsentAreOrphaned

-----------------------------------------------------------------------------
(* MetricsForwarding: records.                                              *)

LEMMA StreamValues ==
    ASSUME linkUp \in BOOLEAN
    PROVE  /\ NewStream \in StreamRecords /\ NewStream.agent = "opening"
           /\ ~linkUp => NewStream.lost
           /\ UnusedStream \in StreamRecords /\ UnusedStream.agent = "closed"
<1>1. NewStream.agent = "opening" /\ NewStream.lost = ~linkUp
  BY Zenon DEF NewStream
<1>2. NewStream \in StreamRecords
  <2>1. CASE linkUp
    <3>1. ~linkUp = FALSE
      BY <2>1
    <3>2. NewStream = [agent |-> "opening", server |-> "none", sender |-> NoForward,
                       batch |-> "none", lost |-> FALSE, broken |-> FALSE,
                       carried |-> FALSE, unsent |-> FALSE]
      BY <3>1, Zenon DEF NewStream
    <3> QED BY <3>2 DEF StreamRecords
  <2>2. CASE ~linkUp
    <3>1. ~linkUp = TRUE
      BY <2>2
    <3>2. NewStream = [agent |-> "opening", server |-> "none", sender |-> NoForward,
                       batch |-> "none", lost |-> TRUE, broken |-> FALSE,
                       carried |-> FALSE, unsent |-> FALSE]
      BY <3>1, Zenon DEF NewStream
    <3> QED BY <3>2 DEF StreamRecords
  <2> QED BY <2>1, <2>2
<1>3. UnusedStream \in StreamRecords /\ UnusedStream.agent = "closed"
  BY <1>2 DEF UnusedStream, StreamRecords
<1> QED BY <1>1, <1>2, <1>3

\* A Stream that is changed is as it should be, unless it is given up.
LEMMA ChangesStream ==
    ASSUME ForwardTypes, NEW s \in IngestStreams, NEW st \in StreamRecords, Change(s, st)
    PROVE  /\ ingestStream' \in [IngestStreams -> StreamRecords]
           /\ \A t \in IngestStreams : t # s => ingestStream'[t] = ingestStream[t]
           /\ ingestStream'[s].agent = st.agent
           /\ st.agent # "closed" => ingestStream'[s] = st
<1>1. CASE st.agent = "closed" /\ st.server = "over"
  <2>1. ingestStream' = [ingestStream EXCEPT ![s] = UnusedStream]
    BY <1>1 DEF Change
  <2>2. UnusedStream \in StreamRecords /\ UnusedStream.agent = "closed"
    BY StreamValues DEF ForwardTypes
  <2> QED BY <1>1, <2>1, <2>2 DEF ForwardTypes
<1>2. CASE ~(st.agent = "closed" /\ st.server = "over")
  <2>1. ingestStream' = [ingestStream EXCEPT ![s] = st]
    BY <1>2 DEF Change
  <2> QED BY <2>1 DEF ForwardTypes
<1> QED BY <1>1, <1>2

\* A request whose attempt has failed has no Stream, and is not opening one.
LEMMA FailsAttempt ==
    ASSUME ForwardTypes, NEW r \in Forwards, AttemptFails(r)
    PROVE  /\ forward' \in [Forwards -> ForwardRecords]
           /\ \A q \in Forwards : q # r => forward'[q] = forward[q]
           /\ forward'[r].phase \in {"refused", "acquire"}
           /\ forward'[r].stream = NoStream
<1>1. forward[r] \in ForwardRecords /\ forward \in [Forwards -> ForwardRecords]
  BY DEF ForwardTypes
<1>2. PICK f \in {[forward[r] EXCEPT !.phase = "refused", !.stream = NoStream],
                  [forward[r] EXCEPT !.phase = "acquire", !.stream = NoStream,
                                     !.retried = TRUE]} :
        forward' = [forward EXCEPT ![r] = f]
  BY DEF AttemptFails
<1>3. f \in ForwardRecords /\ f.phase \in {"refused", "acquire"} /\ f.stream = NoStream
  BY <1>1, <1>2 DEF ForwardRecords, Answered
<1> QED BY <1>1, <1>2, <1>3

LEMMA MovesRequest ==
    ASSUME ForwardTypes, NEW r \in Forwards, NEW phase \in {"send", "exchange", "discard"},
           To(r, phase)
    PROVE  /\ forward' \in [Forwards -> ForwardRecords]
           /\ \A q \in Forwards : q # r => forward'[q] = forward[q]
           /\ forward'[r].phase = phase
           /\ forward'[r].stream = forward[r].stream
BY DEF ForwardTypes, ForwardRecords, To

-----------------------------------------------------------------------------
(* MetricsForwarding: the steps.                                            *)

\* A Stream that stays with its side of the Agent, and loses nothing that excuses it.
StreamStays(s) ==
    /\ ingestStream'[s].agent = ingestStream[s].agent
    /\ ingestStream[s].agent # "closed" =>
         /\ ingestStream'[s].server = "none" => ingestStream[s].server = "none"
         /\ ingestStream'[s].server = "serving" => ingestStream[s].server \in {"none", "serving"}
         /\ ingestStream[s].lost => ingestStream'[s].lost
         /\ ingestStream[s].broken => ingestStream'[s].broken
         /\ ingestStream[s].unsent => ingestStream'[s].unsent

LEMMA StreamsKeep ==
    ASSUME ForwardInv, UNCHANGED <<forwarderVars, forward, linkUp>>,
           ingestStream' \in [IngestStreams -> StreamRecords],
           gone' \subseteq Forwards, forwardFaults' \in 0 .. MaxForwardFaults,
           \A s \in IngestStreams : StreamStays(s)
    PROVE  ForwardInv'
<1>1. ForwardTypes'
  BY DEF ForwardInv, ForwardTypes, forwarderVars
<1>2. OpenersAreAlone'
  BY DEF ForwardInv, ForwardTypes, OpenersAreAlone, forwarderVars, StreamStays
<1>3. OpenIsTaken'
  BY DEF ForwardInv, OpenIsTaken, StreamStays
<1>4. DiscardedAreClosed'
  <2> SUFFICES ASSUME NEW r \in Forwards, forward[r].phase = "discard"
               PROVE  LET st == ingestStream'[forward[r].stream] IN
                      st.agent = "closed" \/ st.unsent
    BY DEF DiscardedAreClosed
  <2>1. forward[r].stream \in IngestStreams
    BY DEF ForwardInv, ForwardTypes
  <2> QED BY <2>1 DEF ForwardInv, DiscardedAreClosed, StreamStays
<1>5. LostWithLink'
  BY DEF ForwardInv, LostWithLink, StreamStays
<1>6. OnlyUnsentAreOrphaned'
  BY DEF ForwardInv, OnlyUnsentAreOrphaned, OpenIsTaken, StreamStays, forwarderVars
<1> QED BY <1>1, <1>2, <1>3, <1>4, <1>5, <1>6 DEF ForwardInv

\* What the Server and the deadline do to a Stream.
LEMMA ServerKeeps ==
    ASSUME ForwardInv, NEW s \in IngestStreams, Serves(s) \/ ServerFails(s)
    PROVE  ForwardInv'
<1>1. ForwardTypes /\ ingestStream[s] \in StreamRecords
  BY DEF ForwardInv, ForwardTypes
<1>2. UNCHANGED <<forwarderVars, forward, linkUp, gone>>
  BY DEF Serves, ServerTakes, ServerAcknowledges, ServerEnds, StreamExpires, ServerFails,
         forwardVars
<1>3. forwardFaults' \in 0 .. MaxForwardFaults
  BY <1>1, ForwardAssumption DEF Serves, ServerTakes, ServerAcknowledges, ServerEnds,
     StreamExpires, ServerFails, ForwardFault, ForwardTypes
<1>4. PICK st \in StreamRecords :
        /\ Change(s, st) /\ st.agent = ingestStream[s].agent
        /\ st.server = "none" => ingestStream[s].server = "none"
        /\ st.server = "serving" => ingestStream[s].server \in {"none", "serving"}
        /\ st.lost = ingestStream[s].lost /\ st.unsent = ingestStream[s].unsent
        /\ ingestStream[s].broken => st.broken
  <2>1. CASE ServerTakes(s)
    <3>1. PICK v \in {"over", "serving"} :
            Change(s, [ingestStream[s] EXCEPT !.server = v])
          /\ ingestStream[s].server = "none"
      BY <2>1 DEF ServerTakes
    <3>2. [ingestStream[s] EXCEPT !.server = v] \in StreamRecords
      BY <1>1 DEF StreamRecords
    <3> QED BY <1>1, <3>1, <3>2 DEF StreamRecords
  <2>2. CASE ServerAcknowledges(s)
    <3>1. Change(s, [ingestStream[s] EXCEPT !.batch = "acknowledged"])
      BY <2>2 DEF ServerAcknowledges
    <3>2. [ingestStream[s] EXCEPT !.batch = "acknowledged"] \in StreamRecords
      BY <1>1 DEF StreamRecords
    <3> QED BY <1>1, <3>1, <3>2 DEF StreamRecords
  <2>3. CASE ServerEnds(s) \/ ServerFails(s)
    <3>1. Change(s, [ingestStream[s] EXCEPT !.server = "over"])
      BY <2>3 DEF ServerEnds, ServerFails
    <3>2. [ingestStream[s] EXCEPT !.server = "over"] \in StreamRecords
      BY <1>1 DEF StreamRecords
    <3> QED BY <1>1, <3>1, <3>2 DEF StreamRecords
  <2>4. CASE StreamExpires(s)
    <3>1. Change(s, [ingestStream[s] EXCEPT !.broken = TRUE])
      BY <2>4 DEF StreamExpires
    <3>2. [ingestStream[s] EXCEPT !.broken = TRUE] \in StreamRecords
      BY <1>1 DEF StreamRecords
    <3> QED BY <1>1, <3>1, <3>2 DEF StreamRecords
  <2> QED BY <2>1, <2>2, <2>3, <2>4 DEF Serves
<1>5. /\ ingestStream' \in [IngestStreams -> StreamRecords]
      /\ \A t \in IngestStreams : StreamStays(t)
  BY <1>1, <1>4, ChangesStream DEF StreamStays
<1>6. gone' \subseteq Forwards
  BY <1>1, <1>2 DEF ForwardTypes
<1> QED BY <1>2, <1>3, <1>5, <1>6, StreamsKeep

\* The requests that neither take nor give up a Stream.
LEMMA ArriveKeeps ==
    ASSUME ForwardInv, NEW r \in Forwards, Arrive(r)
    PROVE  ForwardInv'
<1>1. PICK large \in BOOLEAN :
        /\ forward' = [forward EXCEPT ![r] = [IdleForward EXCEPT !.phase = "acquire",
                                                           !.large = large]]
        /\ ForwardFault(IF large THEN 1 ELSE 0)
  BY DEF Arrive
<1>2. UNCHANGED <<forwarderVars, linkUp, ingestStream>> /\ forward[r].phase \in Answered
      /\ gone' \subseteq gone
  BY DEF Arrive
<1>3. /\ forward' \in [Forwards -> ForwardRecords]
      /\ \A q \in Forwards : q # r => forward'[q] = forward[q]
      /\ forward'[r].phase = "acquire" /\ forward'[r].stream = NoStream
  <2>1. [IdleForward EXCEPT !.phase = "acquire", !.large = large] \in ForwardRecords
    BY DEF IdleForward, ForwardRecords, Answered
  <2> QED BY <1>1, <2>1 DEF ForwardInv, ForwardTypes, IdleForward
<1>4. forwardFaults' \in 0 .. MaxForwardFaults
  BY <1>1, ForwardAssumption DEF ForwardFault, ForwardInv, ForwardTypes
<1>5. ForwardTypes'
  BY <1>2, <1>3, <1>4 DEF ForwardInv, ForwardTypes, forwarderVars, Answered
<1>6. OpenersAreAlone'
  BY <1>2, <1>3, ForwardAssumption DEF ForwardInv, OpenersAreAlone, forwarderVars
<1>7. DiscardedAreClosed'
  BY <1>2, <1>3 DEF ForwardInv, DiscardedAreClosed
<1> QED BY <1>2, <1>5, <1>6, <1>7 DEF ForwardInv, OpenIsTaken, LostWithLink,
        OnlyUnsentAreOrphaned, forwarderVars

\* acquire: the session there is, none without a Connection, or a new one.
LEMMA AcquireKeeps ==
    ASSUME ForwardInv, NEW r \in Forwards, Acquire(r)
    PROVE  ForwardInv'
<1>1. /\ UNCHANGED <<attached, ingestSession, aborting, gone, linkUp, forwardFaults>>
      /\ forward[r].phase = "acquire" /\ opener = NoForward
  BY DEF Acquire
<1>2. ForwardTypes /\ forward[r] \in ForwardRecords
  BY DEF ForwardInv, ForwardTypes
<1>3. CASE ingestSession # NoStream /\ UNCHANGED <<opener, ingestStream>>
           /\ forward' = [forward EXCEPT ![r].phase = "send", ![r].stream = ingestSession]
  <2>1. /\ forward' \in [Forwards -> ForwardRecords]
        /\ \A q \in Forwards : q # r => forward'[q] = forward[q]
        /\ forward'[r].phase = "send" /\ forward'[r].stream = ingestSession
        /\ ingestSession \in IngestStreams
    BY <1>2, <1>3 DEF ForwardTypes, ForwardRecords
  <2>2. ForwardTypes'
    BY <1>1, <1>2, <1>3, <2>1 DEF ForwardTypes
  <2>3. OpenersAreAlone'
    BY <1>1, <1>3, <2>1 DEF ForwardInv, OpenersAreAlone
  <2>4. DiscardedAreClosed'
    BY <1>3, <2>1 DEF ForwardInv, DiscardedAreClosed
  <2> QED BY <1>1, <1>3, <2>2, <2>3, <2>4 DEF ForwardInv, OpenIsTaken, LostWithLink,
          OnlyUnsentAreOrphaned
<1>4. CASE AttemptFails(r) /\ UNCHANGED <<opener, ingestStream>>
  <2>1. /\ forward' \in [Forwards -> ForwardRecords]
        /\ \A q \in Forwards : q # r => forward'[q] = forward[q]
        /\ forward'[r].phase \in {"refused", "acquire"} /\ forward'[r].stream = NoStream
    BY <1>2, <1>4, FailsAttempt
  <2>2. ForwardTypes'
    BY <1>1, <1>2, <1>4, <2>1 DEF ForwardTypes
  <2>3. OpenersAreAlone'
    BY <1>1, <1>4, <2>1, ForwardAssumption DEF ForwardInv, OpenersAreAlone
  <2>4. DiscardedAreClosed'
    BY <1>4, <2>1 DEF ForwardInv, DiscardedAreClosed
  <2> QED BY <1>1, <1>4, <2>2, <2>3, <2>4 DEF ForwardInv, OpenIsTaken, LostWithLink,
          OnlyUnsentAreOrphaned
<1>5. CASE \E s \in IngestStreams :
             /\ Forgotten(s) /\ ingestSession = NoStream
             /\ forward' = [forward EXCEPT ![r].phase = "open", ![r].stream = s]
             /\ ingestStream' = [ingestStream EXCEPT ![s] = NewStream]
             /\ opener' = r
  <2>1. PICK s \in IngestStreams :
             /\ Forgotten(s) /\ ingestSession = NoStream
             /\ forward' = [forward EXCEPT ![r].phase = "open", ![r].stream = s]
             /\ ingestStream' = [ingestStream EXCEPT ![s] = NewStream]
             /\ opener' = r
    BY <1>5
  <2>2. /\ forward' \in [Forwards -> ForwardRecords]
        /\ \A q \in Forwards : q # r => forward'[q] = forward[q]
        /\ forward'[r].phase = "open" /\ forward'[r].stream = s
    BY <1>2, <2>1 DEF ForwardTypes, ForwardRecords
  <2>3. /\ ingestStream' \in [IngestStreams -> StreamRecords]
        /\ \A t \in IngestStreams : t # s => ingestStream'[t] = ingestStream[t]
        /\ ingestStream'[s].agent = "opening"
        /\ ~linkUp => ingestStream'[s].lost
    <3>1. linkUp \in BOOLEAN
      BY <1>2 DEF ForwardTypes
    <3> QED BY <1>2, <2>1, <3>1, StreamValues DEF ForwardTypes
  <2>4. s # aborting /\ s # ingestSession /\ \A q \in Forwards : forward[q].stream # s
    BY <2>1 DEF Forgotten
  <2>5. ForwardTypes'
    BY <1>1, <1>2, <2>1, <2>2, <2>3, ForwardAssumption DEF ForwardTypes
  <2>6. OpenersAreAlone'
    BY <1>1, <1>2, <2>1, <2>2, <2>3, <2>4 DEF ForwardInv, ForwardTypes, OpenersAreAlone
  <2>7. DiscardedAreClosed'
    BY <1>2, <2>2, <2>3, <2>4 DEF ForwardInv, ForwardTypes, DiscardedAreClosed
  <2> QED BY <1>1, <2>3, <2>5, <2>6, <2>7 DEF ForwardInv, OpenIsTaken, LostWithLink,
          OnlyUnsentAreOrphaned
<1> QED BY <1>3, <1>4, <1>5 DEF Acquire

LEMMA OpensKeeps ==
    ASSUME ForwardInv, NEW r \in Forwards, SessionOpens(r)
    PROVE  ForwardInv'
<1> DEFINE s == forward[r].stream
<1>1. /\ UNCHANGED <<attached, aborting, gone, linkUp, forwardFaults>>
      /\ forward[r].phase = "open" /\ ingestSession' = s /\ opener' = NoForward
      /\ ingestStream[s].server = "serving" /\ To(r, "send")
  BY DEF SessionOpens
<1>2. ForwardTypes /\ s \in IngestStreams /\ ingestStream[s] \in StreamRecords
  BY <1>1 DEF ForwardInv, ForwardTypes
<1>3. /\ ingestStream' \in [IngestStreams -> StreamRecords]
      /\ \A t \in IngestStreams : t # s => ingestStream'[t] = ingestStream[t]
      /\ ingestStream'[s].agent = "open" /\ ingestStream'[s].server = "serving"
      /\ ingestStream'[s].lost = ingestStream[s].lost
  <2>1. PICK late \in BOOLEAN :
          Change(s, [ingestStream[s] EXCEPT !.agent = "open", !.broken = @ \/ late])
    BY DEF SessionOpens, Late
  <2> DEFINE st == [ingestStream[s] EXCEPT !.agent = "open", !.broken = @ \/ late]
  <2>2. st \in StreamRecords /\ st.agent = "open" /\ st.server = "serving"
        /\ st.lost = ingestStream[s].lost
    <3>1. PICK broken \in BOOLEAN : broken = (ingestStream[s].broken \/ late)
      BY Zenon
    <3>2. st = [ingestStream[s] EXCEPT !.agent = "open", !.broken = broken]
      BY <3>1, Zenon
    <3> QED BY <1>1, <1>2, <3>2 DEF StreamRecords
  <2>3. Change(s, st)
    BY <2>1
  <2> HIDE DEF st
  <2> QED BY <1>2, <2>2, <2>3, ChangesStream
<1>4. /\ forward' \in [Forwards -> ForwardRecords]
      /\ \A q \in Forwards : q # r => forward'[q] = forward[q]
      /\ forward'[r].phase = "send" /\ forward'[r].stream = s
  BY <1>1, <1>2, MovesRequest
<1>5. ingestStream[s].agent = "opening" /\ ingestSession = NoStream /\ opener = r
      /\ s # aborting /\ \A q \in Forwards : q # r => forward[q].stream # s
  BY <1>1, <1>2, ForwardAssumption DEF ForwardInv, OpenersAreAlone, ForwardTypes
<1>6. ForwardTypes'
  BY <1>1, <1>2, <1>3, <1>4, <1>5, ForwardAssumption DEF ForwardTypes
<1>7. OpenersAreAlone'
  BY <1>1, <1>2, <1>3, <1>4, <1>5 DEF ForwardInv, OpenersAreAlone, ForwardTypes
<1>8. DiscardedAreClosed'
  BY <1>2, <1>3, <1>4, <1>5 DEF ForwardInv, DiscardedAreClosed, ForwardTypes
<1>9. OpenIsTaken' /\ LostWithLink'
  BY <1>1, <1>2, <1>3, <1>5 DEF ForwardInv, OpenIsTaken, LostWithLink
<1>10. OnlyUnsentAreOrphaned'
  BY <1>1, <1>2, <1>3, <1>5, ForwardAssumption DEF ForwardInv, OnlyUnsentAreOrphaned
<1> QED BY <1>6, <1>7, <1>8, <1>9, <1>10 DEF ForwardInv

LEMMA OpeningFailureKeeps ==
    ASSUME ForwardInv, NEW r \in Forwards, OpeningFails(r)
    PROVE  ForwardInv'
<1> DEFINE s == forward[r].stream
<1>1. /\ UNCHANGED <<attached, ingestSession, aborting, gone, linkUp, forwardFaults>>
      /\ forward[r].phase = "open" /\ opener' = NoForward /\ AttemptFails(r)
      /\ Change(s, [ingestStream[s] EXCEPT !.agent = "closed"])
  BY DEF OpeningFails
<1>2. ForwardTypes /\ s \in IngestStreams /\ ingestStream[s] \in StreamRecords
  BY <1>1 DEF ForwardInv, ForwardTypes
<1>3. /\ ingestStream' \in [IngestStreams -> StreamRecords]
      /\ \A t \in IngestStreams : t # s => ingestStream'[t] = ingestStream[t]
      /\ ingestStream'[s].agent = "closed"
  <2>1. /\ [ingestStream[s] EXCEPT !.agent = "closed"] \in StreamRecords
        /\ [ingestStream[s] EXCEPT !.agent = "closed"].agent = "closed"
    BY <1>2 DEF StreamRecords
  <2> QED BY <1>1, <1>2, <2>1, ChangesStream
<1>4. /\ forward' \in [Forwards -> ForwardRecords]
      /\ \A q \in Forwards : q # r => forward'[q] = forward[q]
      /\ forward'[r].phase \in {"refused", "acquire"} /\ forward'[r].stream = NoStream
  BY <1>1, <1>2, FailsAttempt
<1>5. opener = r
  BY <1>1, <1>2 DEF ForwardTypes
<1>6. ForwardTypes'
  BY <1>1, <1>2, <1>3, <1>4, <1>5, ForwardAssumption DEF ForwardTypes
<1>7. OpenersAreAlone'
  BY <1>1, <1>2, <1>3, <1>4, <1>5, ForwardAssumption DEF ForwardInv, OpenersAreAlone, ForwardTypes
<1>8. DiscardedAreClosed'
  BY <1>2, <1>3, <1>4 DEF ForwardInv, DiscardedAreClosed, ForwardTypes
<1>9. OpenIsTaken' /\ LostWithLink' /\ OnlyUnsentAreOrphaned'
  BY <1>1, <1>2, <1>3 DEF ForwardInv, OpenIsTaken, LostWithLink, OnlyUnsentAreOrphaned
<1> QED BY <1>6, <1>7, <1>8, <1>9 DEF ForwardInv

\* A request uses the session it has found: what is not closed stays as usable as it was,
\* and who gives it up has closed it or not written to it.
LEMMA SendingKeeps ==
    ASSUME ForwardInv, NEW r \in Forwards,
           SendRefuses(r) \/ Send(r) \/ ExchangeSucceeds(r) \/ ExchangeFails(r)
    PROVE  ForwardInv'
<1> DEFINE s == forward[r].stream
<1>1. /\ UNCHANGED <<forwarderVars, gone, linkUp, forwardFaults>>
      /\ forward[r].phase \in {"send", "exchange"}
  BY DEF SendRefuses, Send, ExchangeSucceeds, ExchangeFails
<1>2. ForwardTypes /\ s \in IngestStreams /\ ingestStream[s] \in StreamRecords
      /\ forward[r] \in ForwardRecords
  BY <1>1 DEF ForwardInv, ForwardTypes
<1>3. opener # r /\ ingestStream[s].agent # "opening"
  BY <1>1, <1>2 DEF ForwardTypes, ForwardInv, OpenersAreAlone
<1>4. PICK st \in StreamRecords, phase \in {"exchange", "discard", "acknowledged"} :
        /\ Change(s, st)
        /\ st.agent \in {ingestStream[s].agent, "closed"} /\ st.server = ingestStream[s].server
        /\ st.lost = ingestStream[s].lost
        /\ ingestStream[s].broken => st.broken
        /\ ingestStream[s].unsent => st.unsent
        /\ phase = "discard" => st.agent = "closed" \/ st.unsent
        /\ IF phase = "acknowledged"
           THEN forward' = [forward EXCEPT ![r].phase = phase, ![r].stream = NoStream]
           ELSE To(r, phase)
  <2>1. CASE SendRefuses(r)
    <3>1. PICK unsent \in BOOLEAN :
            unsent = (ingestStream[s].unsent \/ ingestStream[s].agent = "open")
      BY Zenon
    <3>2. Change(s, [ingestStream[s] EXCEPT !.unsent = unsent]) /\ To(r, "discard")
      <4>1. Change(s, [ingestStream[s] EXCEPT !.unsent =
                         @ \/ ingestStream[s].agent = "open"]) /\ To(r, "discard")
        BY <2>1, Zenon DEF SendRefuses
      <4> QED BY <4>1, <3>1, Zenon
    <3>3. [ingestStream[s] EXCEPT !.unsent = unsent] \in StreamRecords
      BY <1>2 DEF StreamRecords
    <3> QED BY <1>2, <1>3, <3>1, <3>2, <3>3 DEF StreamRecords
  <2>2. CASE Send(r)
    <3>1. Change(s, [ingestStream[s] EXCEPT !.sender = r, !.batch = "sent"])
          /\ To(r, "exchange")
      BY <2>2 DEF Send
    <3>2. [ingestStream[s] EXCEPT !.sender = r, !.batch = "sent"] \in StreamRecords
      BY <1>2 DEF StreamRecords
    <3> QED BY <1>2, <3>1, <3>2 DEF StreamRecords
  <2>3. CASE ExchangeSucceeds(r)
    <3>1. PICK late \in BOOLEAN :
            Change(s, [ingestStream[s] EXCEPT !.sender = NoForward, !.batch = "none",
                                              !.carried = TRUE, !.broken = @ \/ late])
      BY <2>3 DEF ExchangeSucceeds, Late
    <3>2. PICK broken \in BOOLEAN : broken = (ingestStream[s].broken \/ late)
      BY Zenon
    <3>3. Change(s, [ingestStream[s] EXCEPT !.sender = NoForward, !.batch = "none",
                                            !.carried = TRUE, !.broken = broken])
      BY <3>1, <3>2, Zenon
    <3>4. PICK next \in StreamRecords :
            /\ Change(s, next)
            /\ next.agent = ingestStream[s].agent /\ next.server = ingestStream[s].server
            /\ next.lost = ingestStream[s].lost /\ next.unsent = ingestStream[s].unsent
            /\ next.broken = broken
      <4>1. [ingestStream[s] EXCEPT !.sender = NoForward, !.batch = "none",
                                    !.carried = TRUE, !.broken = broken] \in StreamRecords
        BY <1>2 DEF StreamRecords
      <4> QED BY <1>2, <3>3, <4>1 DEF StreamRecords
    <3>5. forward' = [forward EXCEPT ![r].phase = "acknowledged", ![r].stream = NoStream]
      BY <2>3 DEF ExchangeSucceeds
    <3>6. ingestStream[s].broken => next.broken
      BY <3>2, <3>4, Zenon
    <3> WITNESS next \in StreamRecords,
                "acknowledged" \in {"exchange", "discard", "acknowledged"}
    <3> QED BY <3>4, <3>5, <3>6, Zenon
  <2>4. CASE ExchangeFails(r)
    <3>1. Change(s, [ingestStream[s] EXCEPT !.sender = NoForward, !.batch = "none",
                                            !.agent = "closed"]) /\ To(r, "discard")
      BY <2>4 DEF ExchangeFails
    <3>2. [ingestStream[s] EXCEPT !.sender = NoForward, !.batch = "none",
                                  !.agent = "closed"] \in StreamRecords
      BY <1>2 DEF StreamRecords
    <3> QED BY <1>2, <3>1, <3>2 DEF StreamRecords
  <2> QED BY <2>1, <2>2, <2>3, <2>4
<1>5. /\ ingestStream' \in [IngestStreams -> StreamRecords]
      /\ \A t \in IngestStreams : t # s => ingestStream'[t] = ingestStream[t]
      /\ ingestStream'[s].agent = st.agent
      /\ st.agent # "closed" => ingestStream'[s] = st
  BY <1>2, <1>4, ChangesStream
<1>6. /\ forward' \in [Forwards -> ForwardRecords]
      /\ \A q \in Forwards : q # r => forward'[q] = forward[q]
      /\ forward'[r].phase = phase
      /\ phase # "acknowledged" => forward'[r].stream = s
      /\ phase = "acknowledged" => forward'[r].stream = NoStream
  <2>1. CASE phase = "acknowledged"
    BY <1>2, <1>4, <2>1 DEF ForwardTypes, ForwardRecords, Answered
  <2>2. CASE phase # "acknowledged"
    BY <1>2, <1>4, <2>2, MovesRequest
  <2> QED BY <2>1, <2>2
<1>7. ForwardTypes'
  BY <1>1, <1>2, <1>3, <1>5, <1>6 DEF ForwardTypes, forwarderVars
<1>8. OpenersAreAlone'
  BY <1>1, <1>2, <1>3, <1>4, <1>5, <1>6, ForwardAssumption
     DEF ForwardInv, OpenersAreAlone, ForwardTypes, forwarderVars
<1>9. DiscardedAreClosed'
  <2> SUFFICES ASSUME NEW q \in Forwards, forward'[q].phase = "discard"
               PROVE  LET st1 == ingestStream'[forward'[q].stream] IN
                      st1.agent = "closed" \/ st1.unsent
    BY DEF DiscardedAreClosed
  <2>1. CASE q = r
    BY <1>4, <1>5, <1>6, <2>1
  <2>2. CASE q # r
    <3>1. forward[q].stream \in IngestStreams /\ forward[q].phase = "discard"
          /\ forward'[q] = forward[q]
      BY <1>2, <1>6, <2>2 DEF ForwardTypes
    <3> QED BY <1>4, <1>5, <3>1 DEF ForwardInv, DiscardedAreClosed
  <2> QED BY <2>1, <2>2
<1>10. OpenIsTaken' /\ LostWithLink' /\ OnlyUnsentAreOrphaned'
  BY <1>1, <1>2, <1>4, <1>5
     DEF ForwardInv, OpenIsTaken, LostWithLink, OnlyUnsentAreOrphaned, forwarderVars
<1> QED BY <1>7, <1>8, <1>9, <1>10 DEF ForwardInv

\* Only the session that is given up leaves its place, and it is closed or unsent.
LEMMA DiscardKeeps ==
    ASSUME ForwardInv, NEW r \in Forwards, Discard(r)
    PROVE  ForwardInv'
<1> DEFINE s == forward[r].stream
<1>1. /\ UNCHANGED <<attached, opener, aborting, gone, linkUp, ingestStream, forwardFaults>>
      /\ forward[r].phase = "discard" /\ opener = NoForward /\ AttemptFails(r)
      /\ ingestSession' = IF ingestSession = s THEN NoStream ELSE ingestSession
  BY DEF Discard
<1>2. ForwardTypes /\ s \in IngestStreams
  BY <1>1 DEF ForwardInv, ForwardTypes
<1>3. /\ forward' \in [Forwards -> ForwardRecords]
      /\ \A q \in Forwards : q # r => forward'[q] = forward[q]
      /\ forward'[r].phase \in {"refused", "acquire"} /\ forward'[r].stream = NoStream
  BY <1>1, <1>2, FailsAttempt
<1>4. ForwardTypes'
  BY <1>1, <1>2, <1>3 DEF ForwardTypes
<1>5. OpenersAreAlone'
  BY <1>1, <1>2, <1>3, ForwardAssumption DEF ForwardInv, OpenersAreAlone, ForwardTypes
<1>6. DiscardedAreClosed'
  BY <1>1, <1>3 DEF ForwardInv, DiscardedAreClosed
<1>7. OnlyUnsentAreOrphaned'
  BY <1>1, <1>2 DEF ForwardInv, OnlyUnsentAreOrphaned, DiscardedAreClosed
<1> QED BY <1>1, <1>4, <1>5, <1>6, <1>7 DEF ForwardInv, OpenIsTaken, LostWithLink

\* The Connection.
LEMMA LinkFailureKeeps == ASSUME ForwardInv, LinkFails PROVE ForwardInv'
<1>1. /\ UNCHANGED <<forwarderVars, forwardVars>> /\ linkUp' = FALSE
      /\ ingestStream' = [s \in IngestStreams |->
           IF ingestStream[s] = UnusedStream THEN UnusedStream
           ELSE [ingestStream[s] EXCEPT !.lost = TRUE]]
  BY DEF LinkFails
<1>2. ForwardTypes
  BY DEF ForwardInv
<1>3. forwardFaults' \in 0 .. MaxForwardFaults
  BY <1>2, ForwardAssumption DEF LinkFails, ForwardFault, ForwardTypes
<1>4. UnusedStream \in StreamRecords /\ UnusedStream.agent = "closed"
  BY <1>2, StreamValues DEF ForwardTypes
<1>5. ASSUME NEW s \in IngestStreams
      PROVE  /\ ingestStream'[s] \in StreamRecords
             /\ ingestStream'[s].agent = ingestStream[s].agent
             /\ ingestStream'[s].agent # "closed" =>
                  /\ ingestStream'[s].lost
                  /\ ingestStream'[s].server = ingestStream[s].server
             /\ ingestStream'[s].unsent = ingestStream[s].unsent
  <2>1. ingestStream[s] \in StreamRecords
    BY <1>2 DEF ForwardTypes
  <2>2. CASE ingestStream[s] = UnusedStream
    BY <1>1, <1>4, <2>2
  <2>3. CASE ingestStream[s] # UnusedStream
    <3>1. ingestStream'[s] = [ingestStream[s] EXCEPT !.lost = TRUE]
      BY <1>1, <2>3
    <3> QED BY <2>1, <3>1 DEF StreamRecords
  <2> QED BY <2>2, <2>3
<1>6. ForwardTypes'
  <2>1. ingestStream' \in [IngestStreams -> StreamRecords]
    BY <1>1, <1>5
  <2> QED BY <1>1, <1>2, <1>3, <2>1 DEF ForwardTypes, forwarderVars, forwardVars
<1>7. OpenersAreAlone'
  BY <1>1, <1>2, <1>5 DEF ForwardInv, ForwardTypes, OpenersAreAlone, forwarderVars, forwardVars
<1>8. DiscardedAreClosed'
  <2> SUFFICES ASSUME NEW r \in Forwards, forward[r].phase = "discard"
               PROVE  LET st == ingestStream'[forward[r].stream] IN
                      st.agent = "closed" \/ st.unsent
    BY <1>1 DEF DiscardedAreClosed, forwardVars
  <2>1. forward[r].stream \in IngestStreams
    BY <1>2 DEF ForwardTypes
  <2> QED BY <1>5, <2>1 DEF ForwardInv, DiscardedAreClosed
<1>9. OpenIsTaken' /\ LostWithLink' /\ OnlyUnsentAreOrphaned'
  BY <1>1, <1>5 DEF ForwardInv, OpenIsTaken, LostWithLink, OnlyUnsentAreOrphaned
<1> QED BY <1>6, <1>7, <1>8, <1>9 DEF ForwardInv

LEMMA DetachKeeps == ASSUME ForwardInv, Detach \/ Attach PROVE ForwardInv'
<1>1. UNCHANGED <<opener, forwardVars, ingestStream>> /\ ForwardTypes
  BY DEF Detach, Attach, ForwardInv
<1>2. CASE Detach
  <2>1. attached' = FALSE /\ ingestSession' = NoStream /\ aborting' = ingestSession
        /\ linkUp' = linkUp
    BY <1>2 DEF Detach
  <2>2. forwardFaults' \in 0 .. MaxForwardFaults
    BY <1>1, <1>2, ForwardAssumption DEF Detach, ForwardFault, ForwardTypes
  <2>3. ForwardTypes'
    BY <1>1, <2>1, <2>2 DEF ForwardTypes, forwardVars
  <2>4. OpenersAreAlone' /\ DiscardedAreClosed'
    BY <1>1, <2>1, ForwardAssumption
       DEF ForwardInv, OpenersAreAlone, DiscardedAreClosed, forwardVars
  <2> QED BY <1>1, <2>1, <2>3, <2>4 DEF ForwardInv, OpenIsTaken, LostWithLink,
          OnlyUnsentAreOrphaned
<1>3. CASE Attach
  <2>1. /\ attached' = TRUE /\ ingestSession' = NoStream /\ aborting' = aborting
        /\ ~linkUp /\ linkUp' = TRUE /\ forwardFaults' = forwardFaults
    BY <1>3 DEF Attach
  <2>2. ForwardTypes'
    BY <1>1, <2>1 DEF ForwardTypes, forwardVars
  <2>3. OpenersAreAlone' /\ DiscardedAreClosed'
    BY <1>1, <2>1, ForwardAssumption
       DEF ForwardInv, OpenersAreAlone, DiscardedAreClosed, forwardVars
  <2> QED BY <1>1, <2>1, <2>2, <2>3 DEF ForwardInv, OpenIsTaken, LostWithLink,
          OnlyUnsentAreOrphaned
<1> QED BY <1>2, <1>3

LEMMA AbortKeeps == ASSUME ForwardInv, AbortDetached PROVE ForwardInv'
<1>1. /\ UNCHANGED <<attached, ingestSession, opener, forwardVars, linkUp, forwardFaults>>
      /\ aborting # NoStream /\ aborting' = NoStream
      /\ Change(aborting, [ingestStream[aborting] EXCEPT !.agent = "closed"])
  BY DEF AbortDetached
<1>2. ForwardTypes /\ aborting \in IngestStreams /\ ingestStream[aborting] \in StreamRecords
  BY <1>1 DEF ForwardInv, ForwardTypes
<1>3. /\ ingestStream' \in [IngestStreams -> StreamRecords]
      /\ \A t \in IngestStreams : t # aborting => ingestStream'[t] = ingestStream[t]
      /\ ingestStream'[aborting].agent = "closed"
  <2>1. /\ [ingestStream[aborting] EXCEPT !.agent = "closed"] \in StreamRecords
        /\ [ingestStream[aborting] EXCEPT !.agent = "closed"].agent = "closed"
    BY <1>2 DEF StreamRecords
  <2> QED BY <1>1, <1>2, <2>1, ChangesStream
<1>4. ForwardTypes'
  BY <1>1, <1>2, <1>3 DEF ForwardTypes, forwardVars
<1>5. OpenersAreAlone'
  BY <1>1, <1>2, <1>3, ForwardAssumption
     DEF ForwardInv, ForwardTypes, OpenersAreAlone, forwardVars
<1>6. DiscardedAreClosed'
  BY <1>1, <1>2, <1>3 DEF ForwardInv, ForwardTypes, DiscardedAreClosed, forwardVars
<1>7. OpenIsTaken' /\ LostWithLink' /\ OnlyUnsentAreOrphaned'
  BY <1>1, <1>2, <1>3 DEF ForwardInv, OpenIsTaken, LostWithLink, OnlyUnsentAreOrphaned
<1> QED BY <1>4, <1>5, <1>6, <1>7 DEF ForwardInv

LEMMA ForwardInvInit == MFInit => ForwardInv
<1> SUFFICES ASSUME MFInit PROVE ForwardInv
  OBVIOUS
<1>1. UnusedStream \in StreamRecords /\ UnusedStream.agent = "closed"
  BY StreamValues DEF MFInit
<1>2. IdleForward \in ForwardRecords /\ IdleForward.phase = "idle"
      /\ IdleForward.stream = NoStream
  BY DEF IdleForward, ForwardRecords, Answered
<1>3. \A s \in IngestStreams : ingestStream[s] = UnusedStream
  BY DEF MFInit
<1>4. \A r \in Forwards : forward[r] = IdleForward
  BY DEF MFInit
<1>5. ForwardTypes
  BY <1>1, <1>2, <1>4, ForwardAssumption DEF ForwardTypes, MFInit
<1> QED BY <1>1, <1>2, <1>3, <1>4, <1>5 DEF MFInit, ForwardInv, OpenersAreAlone, OpenIsTaken,
        DiscardedAreClosed, LostWithLink, OnlyUnsentAreOrphaned

LEMMA ForwardInvStep == ForwardInv /\ [MFNext]_mfVars => ForwardInv'
<1> SUFFICES ASSUME ForwardInv, [MFNext]_mfVars PROVE ForwardInv'
  OBVIOUS
<1>1. CASE \E r \in Forwards : Arrive(r)
  BY <1>1, ArriveKeeps
<1>2. ASSUME NEW r \in Forwards, CollectorGivesUp(r) PROVE ForwardInv'
  <2>1. UNCHANGED <<forwarderVars, forward, linkUp, ingestStream>> /\ gone' = gone \cup {r}
    BY <1>2 DEF CollectorGivesUp
  <2>2. forwardFaults' \in 0 .. MaxForwardFaults /\ gone' \subseteq Forwards
    BY <1>2, <2>1, ForwardAssumption DEF CollectorGivesUp, ForwardFault, ForwardInv, ForwardTypes
  <2>3. ingestStream' \in [IngestStreams -> StreamRecords]
        /\ \A s \in IngestStreams : StreamStays(s)
    BY <2>1 DEF StreamStays, ForwardInv, ForwardTypes
  <2> QED BY <2>1, <2>2, <2>3, StreamsKeep
<1>3. ASSUME NEW r \in Forwards, Works(r) PROVE ForwardInv'
  BY <1>3, AcquireKeeps, OpensKeeps, OpeningFailureKeeps, SendingKeeps, DiscardKeeps DEF Works
<1>4. CASE \E s \in IngestStreams : Serves(s) \/ ServerFails(s)
  BY <1>4, ServerKeeps
<1>5. CASE Reconnects
  BY <1>5, DetachKeeps, AbortKeeps, LinkFailureKeeps DEF Reconnects
<1>6. CASE UNCHANGED mfVars
  BY <1>6 DEF mfVars, forwarderVars, forwardVars, ForwardInv, ForwardTypes, OpenersAreAlone,
     OpenIsTaken, DiscardedAreClosed, LostWithLink, OnlyUnsentAreOrphaned
<1> QED BY <1>1, <1>2, <1>3, <1>4, <1>5, <1>6 DEF MFNext

\* No fairness is needed for what is safe.
LEMMA ForwardSafe == MFInit /\ [][MFNext]_mfVars => [](MFTypeOK /\ OnlyUnsentAreOrphaned)
<1>1. ForwardInv => MFTypeOK
  BY DEF ForwardInv, ForwardTypes, ForwardRecords, StreamRecords, MFTypeOK
<1>2. ForwardInv => OnlyUnsentAreOrphaned
  BY DEF ForwardInv
<1> QED BY <1>1, <1>2, ForwardInvInit, ForwardInvStep, PTL

\* metricsIngestForwarder and the Server's handler: every variable stays in its range.
THEOREM ForwardTypeCorrect == MFSpec => []MFTypeOK
BY ForwardSafe, PTL DEF MFSpec

\* acquire, discard and detach: however many requests share a session, fail and replace
\* it, none that is usable is left behind, except one that was dropped unwritten.
THEOREM NoSessionIsLost == MFSpec => []OnlyUnsentAreOrphaned
BY ForwardSafe, PTL DEF MFSpec

-----------------------------------------------------------------------------
(* ClusterLimiter: the inductive invariant.                                 *)

Since(t) == {x \in Series : reported[x] >= t}

\* What a budget holds at the moment it is looked at: the series of its window have been
\* reported since that began, and those that it counts for the one before since
\* less than two windows earlier.
BudgetHolds(b) ==
    /\ b \in Budgets
    /\ b.tokensAt <= clock /\ b.startedAt <= clock /\ b.lastSeenAt <= clock
    /\ b.sketch \subseteq Since(b.startedAt)
    /\ b.previous <= Cardinality(Since(b.startedAt - 2 * SeriesWindow + 1))

LimiterInv ==
    /\ clock \in 0 .. MaxTime
    /\ prunedAt \in {-SeriesWindow} \cup 0 .. clock
    /\ reply \in [reason : {"", "none", "cardinality", "sample_rate"}, samples : Nat]
    /\ reported \in [Series -> Int] /\ \A x \in Series : reported[x] <= clock
    /\ accepted \in [0 .. MaxTime -> Nat]
    /\ budget # NoBudget => BudgetHolds(budget)
    /\ CardinalityIsJustified

\* What may still be accepted, for all that was since t.
Available(t) == Allowed(t) - accepted[t]

\* The moments that count for a Cluster that came back at s.
CountsFrom(t, s) == FullWhenForgotten \/ s <= t

\* The samples a budget has for a batch are no fewer than what is available since some
\* moment, and no more than what is since any that counts.
Exact(b, s) ==
    /\ b.tokensAt <= b.lastSeenAt
    /\ \A t \in 0 .. clock : CountsFrom(t, s) => Refilled(b) <= Available(t)
    /\ \E t \in 0 .. clock : Available(t) <= Refilled(b)

\* The budget has seen all that the Cluster sent.
LastSeen(b) ==
    /\ \A x \in Series : reported[x] <= b.lastSeenAt
    /\ \A t \in 0 .. clock : t > b.lastSeenAt => accepted[t] = 0

\* A Cluster without a budget has been silent, and what it had was full if the windows
\* see to that.
NothingOwed ==
    /\ Silent /\ accepted[clock] = 0
    /\ FullWhenForgotten => \A t \in 0 .. clock : Burst <= Available(t)

TokensAreExact ==
    /\ returned \in 0 .. clock
    /\ \A t \in (clock + 1) .. MaxTime : accepted[t] = 0
    /\ budget # NoBudget => Exact(budget, returned) /\ LastSeen(budget)
    /\ budget = NoBudget => NothingOwed

-----------------------------------------------------------------------------
(* ClusterLimiter: numbers and sets.                                        *)

LEMMA Parameters ==
    /\ Burst \in Nat /\ SeriesWindow \in Nat /\ SeriesWindow > 0
    /\ MaxActiveSeries \in Nat /\ SampleRate \in Nat
    /\ Cardinality(Series) \in Nat
BY LimiterAssumption, FS_CardinalityType DEF Burst

LEMMA Clock == ASSUME LimiterInv PROVE clock \in Nat
<1>1. clock \in 0 .. MaxTime
  BY DEF LimiterInv
<1> QED BY <1>1, LimiterAssumption

\* A part of a window counts for no more than the whole.
LEMMA PartOfWhole ==
    ASSUME NEW p \in Nat, NEW m \in Nat, NEW w \in Nat, w > 0, m <= w
    PROVE  (p * m) \div w \in Nat /\ (p * m) \div w <= p
<1>1. p * m \in Nat /\ p * m <= p * w
  OBVIOUS
<1>2. PICK q \in Int : q = (p * m) \div w
  BY <1>1
<1>3. w * q <= p * m /\ q >= 0
  BY <1>1, <1>2
<1>4. ASSUME q >= p + 1 PROVE FALSE
  <2>1. w * q >= w * (p + 1)
    BY <1>4
  <2>2. w * (p + 1) = p * w + w
    OBVIOUS
  <2> QED BY <1>1, <1>3, <2>1, <2>2
<1> QED BY <1>2, <1>3, <1>4

LEMMA MinOfTwo ==
    ASSUME NEW a \in Int, NEW b \in Int
    PROVE  Min({a, b}) = IF a <= b THEN a ELSE b
BY DEF Min

LEMMA SomeIsLeft ==
    ASSUME NEW r \in Nat, NEW n \in Nat, NEW m \in Nat, n <= r, r <= m
    PROVE  r - n \in 0 .. m /\ r - n \in Nat
OBVIOUS

LEMMA NothingIsGained ==
    ASSUME NEW t \in Nat, NEW rate \in Nat
    PROVE  rate * (t - t) = 0
OBVIOUS

LEMMA WhatIsBelow ==
    ASSUME NEW m \in Nat, NEW x \in 0 .. m
    PROVE  x \in Nat /\ x <= m /\ x + 0 = x
OBVIOUS

LEMMA EnoughIsThere ==
    ASSUME NEW r \in Nat, NEW samples \in Nat, ~(r < samples)
    PROVE  samples <= r
OBVIOUS

\* What was reported since a moment is finite, and no more than since an earlier one.
LEMMA SinceEarlier ==
    ASSUME LimiterInv, NEW t \in Int, NEW u \in Int, u <= t
    PROVE  /\ IsFiniteSet(Since(t)) /\ Cardinality(Since(t)) \in Nat
           /\ Since(t) \subseteq Since(u)
           /\ Cardinality(Since(t)) <= Cardinality(Since(u))
<1>1. Since(t) \subseteq Since(u)
  <2>1. \A x \in Series : reported[x] \in Int
    BY DEF LimiterInv
  <2> QED BY <2>1 DEF Since
<1>2. IsFiniteSet(Since(t)) /\ IsFiniteSet(Since(u))
  BY LimiterAssumption, FS_Subset DEF Since
<1> QED BY <1>1, <1>2, FS_Subset, FS_CardinalityType

LEMMA SketchCounts ==
    ASSUME NEW S, S \subseteq Series
    PROVE  IsFiniteSet(S) /\ Cardinality(S) \in 0 .. Cardinality(Series)
<1>1. IsFiniteSet(Series)
  BY LimiterAssumption
<1>2. IsFiniteSet(S) /\ Cardinality(S) <= Cardinality(Series)
  BY <1>1, FS_Subset
<1> QED BY <1>1, <1>2, FS_CardinalityType

-----------------------------------------------------------------------------
(* ClusterLimiter: the steps.                                               *)

\* A window that is turned over.
LEMMA RotationHolds ==
    ASSUME LimiterInv, NEW b, BudgetHolds(b)
    PROVE  BudgetHolds(Rotated(b)) /\ clock - Rotated(b).startedAt < SeriesWindow
<1>1. clock \in Nat /\ SeriesWindow \in Nat /\ SeriesWindow > 0 /\ b.startedAt \in Nat
      /\ b.startedAt <= clock /\ b \in Budgets
  BY Parameters, Clock DEF BudgetHolds, Budgets
<1>2. CASE clock - b.startedAt < SeriesWindow
  BY <1>2 DEF Rotated
<1>3. CASE ~(clock - b.startedAt < SeriesWindow)
  <2>1. PICK p : p = IF clock - b.startedAt >= 2 * SeriesWindow THEN 0
                     ELSE Cardinality(b.sketch)
    OBVIOUS
  <2>2. Rotated(b) = [b EXCEPT !.previous = p, !.sketch = {}, !.startedAt = clock]
    BY <1>3, <2>1 DEF Rotated
  <2>3. Cardinality(b.sketch) \in 0 .. Cardinality(Series)
    BY <1>1, SketchCounts DEF Budgets
  <2>4. p \in 0 .. Cardinality(Series) /\ p <= Cardinality(Since(clock - 2 * SeriesWindow + 1))
    <3> DEFINE u == clock - 2 * SeriesWindow + 1
    <3>1. u \in Int /\ Cardinality(Since(u)) \in Nat /\ IsFiniteSet(Since(u))
      BY <1>1, SinceEarlier
    <3>2. CASE clock - b.startedAt >= 2 * SeriesWindow
      BY <2>1, <3>1, <3>2, Parameters
    <3>3. CASE ~(clock - b.startedAt >= 2 * SeriesWindow)
      <4>1. p = Cardinality(b.sketch) /\ u <= b.startedAt
        BY <1>1, <2>1, <3>3
      <4>2. b.sketch \subseteq Since(u)
        BY <1>1, <3>1, <4>1, SinceEarlier DEF BudgetHolds
      <4>3. Cardinality(b.sketch) <= Cardinality(Since(u))
        BY <3>1, <4>2, FS_Subset
      <4> QED BY <2>3, <4>1, <4>3
    <3> QED BY <3>2, <3>3
  <2>5. Rotated(b) \in Budgets /\ Rotated(b).startedAt = clock /\ Rotated(b).sketch = {}
        /\ Rotated(b).previous = p /\ Rotated(b).tokensAt = b.tokensAt
        /\ Rotated(b).lastSeenAt = b.lastSeenAt
    BY <1>1, <2>2, <2>4 DEF Budgets
  <2> QED BY <1>1, <2>4, <2>5 DEF BudgetHolds
<1> QED BY <1>2, <1>3

\* A budget that is made anew.
LEMMA NewBudgetHolds ==
    ASSUME LimiterInv
    PROVE  BudgetHolds(NewBudget) /\ clock - NewBudget.startedAt < SeriesWindow
<1>1. clock \in Nat /\ SeriesWindow \in Nat /\ SeriesWindow > 0 /\ Burst \in Nat
      /\ Cardinality(Series) \in Nat
  BY Parameters, Clock
<1>2. Cardinality(Since(clock - 2 * SeriesWindow + 1)) \in Nat
  BY <1>1, SinceEarlier
<1> QED BY <1>1, <1>2 DEF NewBudget, Budgets, BudgetHolds

-----------------------------------------------------------------------------
(* ClusterLimiter: the tokens.                                              *)

LEMMA RefillIs ==
    ASSUME LimiterInv, NEW b, BudgetHolds(b)
    PROVE  /\ SampleRate * (clock - b.tokensAt) \in Nat
           /\ Refilled(b) = IF Burst <= b.tokens + SampleRate * (clock - b.tokensAt)
                            THEN Burst ELSE b.tokens + SampleRate * (clock - b.tokensAt)
           /\ Refilled(b) \in 0 .. Burst
<1>1. /\ clock \in Nat /\ Burst \in Nat /\ SampleRate \in Nat
      /\ b.tokens \in 0 .. Burst /\ b.tokensAt \in Nat /\ b.tokensAt <= clock
  BY Parameters, Clock DEF BudgetHolds, Budgets
<1>2. PICK d \in Nat : d = clock - b.tokensAt
  BY <1>1
<1>3. SampleRate * d \in Nat
  BY <1>1
<1>4. PICK gain \in Nat : gain = SampleRate * (clock - b.tokensAt)
  BY <1>2, <1>3
<1>5. Refilled(b) = Min({Burst, b.tokens + gain})
  BY <1>4 DEF Refilled
<1>6. Min({Burst, b.tokens + gain}) = IF Burst <= b.tokens + gain THEN Burst
                                      ELSE b.tokens + gain
  BY <1>1, <1>4, MinOfTwo
<1>7. Refilled(b) \in 0 .. Burst
  BY <1>1, <1>5, <1>6
<1> QED BY <1>4, <1>5, <1>6, <1>7

LEMMA AvailableIs ==
    ASSUME LimiterInv, NEW t \in 0 .. clock
    PROVE  /\ accepted[t] \in Nat /\ Allowed(t) \in Int /\ Available(t) \in Int
           /\ Available(t) = Allowed(t) - accepted[t]
           /\ Allowed(clock) = Burst
<1>1. clock \in 0 .. MaxTime /\ clock \in Nat /\ Burst \in Nat /\ SampleRate \in Nat
      /\ t \in 0 .. MaxTime
  <2>1. clock \in 0 .. MaxTime
    BY DEF LimiterInv
  <2>2. MaxTime \in Nat
    BY LimiterAssumption
  <2>3. clock \in Nat /\ Burst \in Nat /\ SampleRate \in Nat
    BY Parameters, Clock
  <2> QED BY <2>1, <2>2, <2>3
<1>2. accepted[t] \in Nat
  BY <1>1 DEF LimiterInv
<1>3. PICK d \in Nat : d = clock - t
  BY <1>1
<1>4. SampleRate * d \in Nat /\ SampleRate * (clock - clock) = 0
  BY <1>1
<1>5. Allowed(t) \in Int /\ Allowed(clock) = Burst
  BY <1>1, <1>3, <1>4 DEF Allowed
<1> QED BY <1>2, <1>5 DEF Available

\* What turning over the window leaves alone.
LEMMA RotationKeepsTokens ==
    ASSUME LimiterInv, NEW b, BudgetHolds(b), NEW s, Exact(b, s)
    PROVE  Exact(Rotated(b), s) /\ Rotated(b).lastSeenAt = b.lastSeenAt
<1>1. b \in Budgets
  BY DEF BudgetHolds
<1>2. /\ Rotated(b).tokens = b.tokens /\ Rotated(b).tokensAt = b.tokensAt
      /\ Rotated(b).lastSeenAt = b.lastSeenAt
  BY <1>1 DEF Rotated, Budgets
<1>3. Refilled(Rotated(b)) = Refilled(b)
  BY <1>2 DEF Refilled
<1> QED BY <1>2, <1>3 DEF Exact

\* A later return leaves fewer moments that count.
LEMMA ExactSinceLater ==
    ASSUME LimiterInv, NEW b, NEW s \in Nat, NEW u \in Nat, s <= u, Exact(b, s)
    PROVE  Exact(b, u)
<1>1. clock \in Nat
  BY Clock
<1>2. \A t \in 0 .. clock : CountsFrom(t, u) => CountsFrom(t, s)
  BY <1>1 DEF CountsFrom
<1> QED BY <1>2 DEF Exact

\* A new budget is full: the burst is available since now, and since any moment if what
\* was forgotten was full.
LEMMA NewBudgetIsExact ==
    ASSUME LimiterInv, NothingOwed
    PROVE  Exact(NewBudget, clock)
<1>1. clock \in Nat /\ Burst \in Nat /\ clock \in 0 .. clock
  BY Parameters, Clock
<1>2. Refilled(NewBudget) = Burst
  <2>1. BudgetHolds(NewBudget) /\ NewBudget.tokens = Burst
    BY NewBudgetHolds DEF NewBudget
  <2>2. /\ SampleRate * (clock - NewBudget.tokensAt) \in Nat
        /\ Refilled(NewBudget) =
             IF Burst <= NewBudget.tokens + SampleRate * (clock - NewBudget.tokensAt)
             THEN Burst ELSE NewBudget.tokens + SampleRate * (clock - NewBudget.tokensAt)
    BY <2>1, RefillIs
  <2> QED BY <1>1, <2>1, <2>2
<1>3. Available(clock) <= Burst
  <2>1. Available(clock) = Allowed(clock) - accepted[clock] /\ accepted[clock] \in Nat
        /\ Allowed(clock) = Burst
    BY <1>1, AvailableIs
  <2> QED BY <1>1, <2>1
<1>4. NewBudget.tokensAt <= NewBudget.lastSeenAt
  BY <1>1 DEF NewBudget
<1>5. ASSUME NEW t \in 0 .. clock, CountsFrom(t, clock)
      PROVE  Burst <= Available(t)
  <2>1. CASE FullWhenForgotten
    BY <2>1 DEF NothingOwed
  <2>2. CASE clock <= t
    <3>1. t = clock /\ accepted[clock] = 0
      BY <1>1, <2>2 DEF NothingOwed
    <3>2. Available(clock) = Allowed(clock) - accepted[clock] /\ Allowed(clock) = Burst
      BY <1>1, AvailableIs
    <3> QED BY <1>1, <3>1, <3>2
  <2> QED BY <1>5, <2>1, <2>2 DEF CountsFrom
<1> QED BY <1>1, <1>2, <1>3, <1>4, <1>5 DEF Exact

\* A budget that is forgotten has been silent for two windows, by which it is full if the
\* burst is no longer than that.
LEMMA ForgottenWasFull ==
    ASSUME LimiterInv, TokensAreExact, budget # NoBudget, Kept = NoBudget, FullWhenForgotten
    PROVE  \A t \in 0 .. clock : Burst <= Available(t)
<1>1. clock - budget.lastSeenAt > 2 * SeriesWindow
  BY DEF Kept
<1>2. BudgetHolds(budget) /\ Exact(budget, returned)
  BY DEF LimiterInv, TokensAreExact
<1>3. /\ budget.tokensAt \in Nat /\ budget.lastSeenAt \in Nat /\ budget.tokens \in Nat
      /\ budget.tokensAt <= budget.lastSeenAt
      /\ clock \in Nat /\ Burst \in Nat /\ SampleRate \in Nat /\ SampleRate > 0
  <2>1. budget.tokensAt \in Nat /\ budget.lastSeenAt \in Nat /\ budget.tokens \in 0 .. Burst
    BY <1>2 DEF BudgetHolds, Budgets
  <2>2. budget.tokensAt <= budget.lastSeenAt
    BY <1>2 DEF Exact
  <2>3. clock \in Nat /\ Burst \in Nat
    BY Parameters, Clock
  <2>4. SampleRate \in Nat /\ SampleRate > 0
    BY LimiterAssumption
  <2> QED BY <2>1, <2>2, <2>3, <2>4
<1>4. PICK d \in Nat : d = clock - budget.tokensAt /\ BurstWindow \in Nat /\ BurstWindow <= d
  BY <1>1, <1>3, LimiterAssumption DEF FullWhenForgotten
<1>5. SampleRate * BurstWindow <= SampleRate * d
  BY <1>3, <1>4
<1>6. Burst <= SampleRate * (clock - budget.tokensAt)
  BY <1>4, <1>5 DEF Burst
<1>7. Refilled(budget) = Burst
  <2>1. /\ SampleRate * (clock - budget.tokensAt) \in Nat
        /\ Refilled(budget) =
             IF Burst <= budget.tokens + SampleRate * (clock - budget.tokensAt)
             THEN Burst ELSE budget.tokens + SampleRate * (clock - budget.tokensAt)
    BY <1>2, RefillIs
  <2> QED BY <1>3, <1>6, <2>1
<1> QED BY <1>2, <1>7 DEF Exact, CountsFrom

LEMMA NothingKept ==
    ASSUME LimiterInv, TokensAreExact, Kept = NoBudget
    PROVE  NothingOwed
<1>1. CASE budget = NoBudget
  BY <1>1 DEF TokensAreExact
<1>2. CASE budget # NoBudget
  <2>1. clock - budget.lastSeenAt > 2 * SeriesWindow /\ LastSeen(budget)
    BY <1>2 DEF Kept, TokensAreExact
  <2>2. budget.lastSeenAt \in Nat
    BY <1>2 DEF LimiterInv, BudgetHolds, Budgets
  <2>3. clock \in 0 .. clock /\ clock \in Nat /\ SeriesWindow \in Nat
    BY Clock, Parameters
  <2>4. \A x \in Series : reported[x] \in Int
    BY DEF LimiterInv
  <2>5. Silent
    BY <2>1, <2>2, <2>3, <2>4 DEF Silent, LastSeen
  <2>6. accepted[clock] = 0
    BY <2>1, <2>2, <2>3 DEF LastSeen
  <2> QED BY <1>2, <2>5, <2>6, ForgottenWasFull DEF NothingOwed
<1> QED BY <1>1, <1>2

-----------------------------------------------------------------------------
(* ClusterLimiter: a batch.                                                 *)

\* The budget a batch is charged to, before what it reports is observed.
LEMMA BudgetFound ==
    ASSUME LimiterInv, TokensAreExact, NEW s, s = IF Silent THEN clock ELSE returned
    PROVE  LET b == Rotated(IF Kept = NoBudget THEN NewBudget ELSE Kept) IN
           BudgetHolds(b) /\ Exact(b, s) /\ clock - b.startedAt < SeriesWindow
<1>1. CASE Kept = NoBudget
  <2>1. NothingOwed /\ s = clock
    BY <1>1, NothingKept DEF NothingOwed
  <2>2. BudgetHolds(NewBudget) /\ Exact(NewBudget, s)
    BY <2>1, NewBudgetHolds, NewBudgetIsExact
  <2> QED BY <1>1, <2>2, RotationHolds, RotationKeepsTokens
<1>2. CASE Kept # NoBudget
  <2>1. Kept = budget /\ budget # NoBudget
    BY <1>2 DEF Kept
  <2>2. BudgetHolds(budget) /\ Exact(budget, returned)
    BY <2>1 DEF LimiterInv, TokensAreExact
  <2>3. returned \in Nat /\ s \in Nat /\ returned <= s
    <3>1. returned \in 0 .. clock
      BY DEF TokensAreExact
    <3> QED BY <3>1, Clock
  <2>4. Exact(budget, s)
    BY <2>2, <2>3, ExactSinceLater
  <2> QED BY <1>2, <2>1, <2>2, <2>4, RotationHolds, RotationKeepsTokens
<1> QED BY <1>1, <1>2

LEMMA BatchObserved ==
    ASSUME LimiterInv, TokensAreExact, NEW batch \in SUBSET Series,
           NEW s, s = IF Silent THEN clock ELSE returned
    PROVE  /\ Observed(batch) \in Budgets /\ Exact(Observed(batch), s)
           /\ Observed(batch).tokensAt <= clock /\ Observed(batch).startedAt <= clock
           /\ Observed(batch).lastSeenAt = clock
           /\ Observed(batch).sketch \subseteq Since(Observed(batch).startedAt) \cup batch
           /\ Observed(batch).previous
                <= Cardinality(Since(Observed(batch).startedAt - 2 * SeriesWindow + 1))
           /\ clock - Observed(batch).startedAt < SeriesWindow
           /\ SampleRate * (clock - Observed(batch).tokensAt) \in Nat
           /\ Refilled(Observed(batch)) \in 0 .. Burst
<1> DEFINE b == Rotated(IF Kept = NoBudget THEN NewBudget ELSE Kept)
<1>1. BudgetHolds(b) /\ Exact(b, s) /\ clock - b.startedAt < SeriesWindow /\ clock \in Nat
  BY BudgetFound, Clock
<1> DEFINE o == [b EXCEPT !.lastSeenAt = clock, !.sketch = @ \cup batch]
<1>2. Observed(batch) = o
  BY DEF Observed
<1>3. /\ o \in Budgets /\ o.tokens = b.tokens /\ o.tokensAt = b.tokensAt
      /\ o.startedAt = b.startedAt /\ o.previous = b.previous
      /\ o.lastSeenAt = clock /\ o.sketch = b.sketch \cup batch
  <2>1. b \in Budgets
    BY <1>1 DEF BudgetHolds
  <2> HIDE DEF b
  <2> QED BY <1>1, <2>1 DEF Budgets
<1> HIDE DEF b, o
<1>4. Refilled(o) = Refilled(b)
  BY <1>3 DEF Refilled
<1>5. /\ b.tokensAt <= clock /\ b.startedAt <= clock /\ b.sketch \subseteq Since(b.startedAt)
      /\ b.previous <= Cardinality(Since(b.startedAt - 2 * SeriesWindow + 1))
  BY <1>1 DEF BudgetHolds
<1>6. Exact(o, s)
  BY <1>1, <1>3, <1>4, <1>5 DEF Exact
<1>7. SampleRate * (clock - b.tokensAt) \in Nat /\ Refilled(b) \in 0 .. Burst
  BY <1>1, RefillIs
<1> QED BY <1>1, <1>2, <1>3, <1>4, <1>5, <1>6, <1>7

\* A batch that is refused for its series comes from a Cluster that has more than half
\* of the limit: what the windows hold is all recent, and counted twice at most.
LEMMA RefusedForSeries ==
    ASSUME LimiterInv, NEW b \in Budgets, NEW reports,
           reports \subseteq Series, IsFiniteSet(reports),
           b.sketch \subseteq reports, b.previous <= Cardinality(reports),
           b.startedAt <= clock, clock - b.startedAt < SeriesWindow,
           ActiveSeries(b) > MaxActiveSeries
    PROVE  2 * Cardinality(reports) > MaxActiveSeries
<1>1. /\ clock \in Nat /\ SeriesWindow \in Nat /\ SeriesWindow > 0 /\ MaxActiveSeries \in Nat
      /\ Cardinality(Series) \in Nat
  BY Parameters, Clock
<1>2. b.startedAt \in Nat /\ b.previous \in Nat
  <2>1. b.startedAt \in Nat /\ b.previous \in 0 .. Cardinality(Series)
    BY DEF Budgets
  <2> QED BY <1>1, <2>1
<1>3. PICK m \in Nat : m = SeriesWindow - (clock - b.startedAt) /\ m > 0 /\ m <= SeriesWindow
  BY <1>1, <1>2
<1>4. Cardinality(reports) \in Nat
  BY FS_CardinalityType
<1>5. Cardinality(b.sketch) \in Nat /\ Cardinality(b.sketch) <= Cardinality(reports)
  BY FS_Subset, FS_CardinalityType
<1>6. (b.previous * m) \div SeriesWindow \in Nat
      /\ (b.previous * m) \div SeriesWindow <= b.previous
  BY <1>1, <1>2, <1>3, PartOfWhole
<1>7. PICK part \in Nat : part = (b.previous * m) \div SeriesWindow /\ part <= b.previous
  BY <1>6
<1>8. ActiveSeries(b) = Cardinality(b.sketch) + part
  BY <1>3, <1>7 DEF ActiveSeries
<1> QED BY <1>1, <1>2, <1>4, <1>5, <1>7, <1>8

\* What a batch changes of what was reported and accepted.
LEMMA SinceAfterBatch ==
    ASSUME LimiterInv, NEW batch \in SUBSET Series,
           reported' = [x \in Series |-> IF x \in batch THEN clock ELSE reported[x]],
           NEW t \in Int, t <= clock
    PROVE  /\ Since(t)' = Since(t) \cup batch
           /\ IsFiniteSet(Since(t)') /\ Cardinality(Since(t)') \in Nat
           /\ Cardinality(Since(t)) <= Cardinality(Since(t)')
<1>1. clock \in Nat /\ \A x \in Series : reported[x] \in Int
  <2>1. \A x \in Series : reported[x] \in Int
    BY DEF LimiterInv
  <2> QED BY <2>1, Clock
<1>2. Since(t)' = Since(t) \cup batch
  BY <1>1 DEF Since
<1>3. IsFiniteSet(Since(t)')
  <2>1. Since(t)' \subseteq Series
    BY DEF Since
  <2> QED BY <2>1, SketchCounts
<1> QED BY <1>2, <1>3, FS_Subset, FS_CardinalityType

\* What a batch leaves for the next one.
LEMMA RefillAfterBatch ==
    ASSUME LimiterInv, clock' = clock,
           NEW b \in Budgets, NEW c \in Budgets, NEW n \in Nat, NEW r \in Nat,
           r = Refilled(b),
           \/ c.tokensAt = b.tokensAt /\ c.tokens = b.tokens /\ n = 0
           \/ c.tokensAt = clock /\ c.tokens = r - n
    PROVE  Refilled(c)' = r - n
<1>1. CASE c.tokensAt = b.tokensAt /\ c.tokens = b.tokens /\ n = 0
  <2>1. Refilled(c)' = Refilled(b)
    BY <1>1 DEF Refilled
  <2> QED BY <1>1, <2>1
<1>2. CASE c.tokensAt = clock /\ c.tokens = r - n
  <2>1. c.tokens \in 0 .. Burst
    BY DEF Budgets
  <2>2. PICK left : left = c.tokens
    OBVIOUS
  <2>3. SampleRate * (clock - clock) = 0 /\ Burst \in Nat
    BY Clock, Parameters, NothingIsGained
  <2>4. left \in Nat /\ left <= Burst /\ left + 0 = left
    BY <2>1, <2>2, <2>3, WhatIsBelow
  <2>5. Refilled(c)' = Min({Burst, left + 0})
    BY <1>2, <2>2, <2>3 DEF Refilled
  <2>6. Min({Burst, left}) = IF Burst <= left THEN Burst ELSE left
    BY <2>3, <2>4, MinOfTwo
  <2>7. Burst <= left => Burst = left
    BY <2>3, <2>4
  <2> QED BY <1>2, <2>2, <2>4, <2>5, <2>6, <2>7
<1> QED BY <1>1, <1>2

\* What Admit does: it finds b with r tokens, answers reason and spends n of them,
\* which leaves c; the moments since s count.
AdmitDoes(batch, samples, b, c, r, n, reason, s) ==
    /\ s = (IF Silent THEN clock ELSE returned) /\ returned' = s
    /\ b \in Budgets /\ Exact(b, s) /\ r \in Nat /\ r = Refilled(b)
    /\ b.tokensAt <= clock /\ b.startedAt <= clock /\ b.lastSeenAt = clock
    /\ b.sketch \subseteq Since(b.startedAt) \cup batch
    /\ b.previous <= Cardinality(Since(b.startedAt - 2 * SeriesWindow + 1))
    /\ clock - b.startedAt < SeriesWindow
    /\ reason \in {"", "cardinality", "sample_rate"}
    /\ reason = "cardinality" => ActiveSeries(b) > MaxActiveSeries
    /\ reason = "sample_rate" => r < samples
    /\ n \in Nat /\ n <= r /\ n = IF reason = "" THEN samples ELSE 0
    /\ c \in Budgets /\ c.startedAt = b.startedAt /\ c.lastSeenAt = b.lastSeenAt
    /\ c.sketch = b.sketch /\ c.previous = b.previous
    /\ reason = "cardinality" => c.tokensAt = b.tokensAt /\ c.tokens = b.tokens
    /\ reason # "cardinality" => c.tokensAt = clock /\ c.tokens = r - n
    /\ budget' = c /\ clock' = clock
    /\ prunedAt' = IF PruneIsDue THEN clock ELSE prunedAt
    /\ reply' = [reason |-> reason, samples |-> samples]
    /\ reported' = [x \in Series |-> IF x \in batch THEN clock ELSE reported[x]]
    /\ accepted' = [t \in 0..MaxTime |-> accepted[t] + IF t <= clock THEN n ELSE 0]

LEMMA AdmitIs ==
    ASSUME LimiterInv, TokensAreExact, NEW batch \in SUBSET Series, NEW samples \in BatchSizes,
           Admit(batch, samples)
    PROVE  \E b, c, r, n, reason, s : AdmitDoes(batch, samples, b, c, r, n, reason, s)
<1>1. PICK b, s : b = Observed(batch) /\ s = IF Silent THEN clock ELSE returned
  OBVIOUS
<1>2. /\ b \in Budgets /\ Exact(b, s)
      /\ b.tokensAt <= clock /\ b.startedAt <= clock /\ b.lastSeenAt = clock
      /\ b.sketch \subseteq Since(b.startedAt) \cup batch
      /\ b.previous <= Cardinality(Since(b.startedAt - 2 * SeriesWindow + 1))
      /\ clock - b.startedAt < SeriesWindow
      /\ Refilled(b) \in 0 .. Burst
  BY <1>1, BatchObserved
<1>3. PICK r \in Nat : r = Refilled(b) /\ r <= Burst
  BY <1>2, Parameters
<1>4. PICK reason : reason = Reason(b, samples)
  OBVIOUS
<1>5. /\ reason \in {"", "cardinality", "sample_rate"}
      /\ reason = "cardinality" => ActiveSeries(b) > MaxActiveSeries
      /\ reason = "sample_rate" => r < samples
      /\ reason = "" => ~(r < samples)
  BY <1>3, <1>4 DEF Reason
<1>6. samples \in Nat
  BY LimiterAssumption
<1>7. PICK n \in Nat : n = IF reason = "" THEN samples ELSE 0
  BY <1>6
<1>8. n <= r
  <2>1. CASE reason = ""
    BY <1>3, <1>5, <1>6, <1>7, <2>1, EnoughIsThere
  <2>2. CASE reason # ""
    <3>1. n = 0
      BY <1>7, <2>2
    <3> QED BY <1>3, <3>1
  <2> QED BY <2>1, <2>2
<1>9. PICK c : c = Charged(b, samples, reason)
  OBVIOUS
<1>10. /\ c \in Budgets
       /\ c.startedAt = b.startedAt /\ c.lastSeenAt = b.lastSeenAt
       /\ c.sketch = b.sketch /\ c.previous = b.previous
       /\ reason = "cardinality" => c.tokensAt = b.tokensAt /\ c.tokens = b.tokens
       /\ reason # "cardinality" => c.tokensAt = clock /\ c.tokens = r - n
  <2>1. b \in Budgets /\ reason \in {"", "cardinality", "sample_rate"}
    BY <1>2, <1>5
  <2>2. CASE reason = "cardinality"
    <3>1. c = [b EXCEPT !.reason = reason]
      BY <1>9, <2>2 DEF Charged
    <3> QED BY <2>1, <2>2, <3>1 DEF Budgets
  <2>3. CASE reason # "cardinality"
    <3>1. PICK left : left = r - n
      OBVIOUS
    <3>2. left \in 0 .. Burst
      BY <1>3, <1>8, <3>1, SomeIsLeft, Parameters
    <3>3. c = [b EXCEPT !.reason = reason, !.tokensAt = clock, !.tokens = left]
      BY <1>3, <1>7, <1>9, <2>3, <3>1 DEF Charged
    <3>4. clock \in Nat
      BY Clock
    <3>5. /\ c \in Budgets /\ c.tokens = left /\ c.tokensAt = clock
          /\ c.startedAt = b.startedAt /\ c.lastSeenAt = b.lastSeenAt
          /\ c.sketch = b.sketch /\ c.previous = b.previous
      BY <2>1, <3>2, <3>3, <3>4 DEF Budgets
    <3> QED BY <2>3, <3>1, <3>5
  <2> QED BY <2>2, <2>3
<1>11. /\ budget' = c /\ clock' = clock /\ returned' = s
       /\ prunedAt' = (IF PruneIsDue THEN clock ELSE prunedAt)
       /\ reply' = [reason |-> reason, samples |-> samples]
       /\ reported' = [x \in Series |-> IF x \in batch THEN clock ELSE reported[x]]
       /\ accepted' = [t \in 0..MaxTime |->
                         accepted[t] + IF t <= clock /\ reason = "" THEN samples ELSE 0]
  BY <1>1, <1>4, <1>9 DEF Admit
<1>12. accepted' = [t \in 0..MaxTime |-> accepted[t] + IF t <= clock THEN n ELSE 0]
  <2>1. \A t \in 0 .. MaxTime : (IF t <= clock /\ reason = "" THEN samples ELSE 0)
                                = (IF t <= clock THEN n ELSE 0)
    BY <1>7
  <2> QED BY <1>11, <2>1
<1> QED
  <2>1. Exact(b, s) /\ r = Refilled(b) /\ s = IF Silent THEN clock ELSE returned
    BY <1>1, <1>2, <1>3
  <2>2. c \in Budgets /\ b \in Budgets /\ reason \in {"", "cardinality", "sample_rate"}
    BY <1>2, <1>5, <1>10
  <2> WITNESS b, c, r, n, reason, s
  <2> QED BY <2>2, <1>2, <1>5, <1>7, <1>8, <1>10, <1>11, <1>12, <2>1 DEF AdmitDoes

\* The window a batch leaves holds what was reported.
LEMMA BatchKeepsSeries ==
    ASSUME LimiterInv, NEW batch \in SUBSET Series, NEW b \in Budgets, NEW c \in Budgets,
           b.tokensAt <= clock, b.startedAt <= clock, b.lastSeenAt = clock,
           b.sketch \subseteq Since(b.startedAt) \cup batch,
           b.previous <= Cardinality(Since(b.startedAt - 2 * SeriesWindow + 1)),
           c.startedAt = b.startedAt, c.lastSeenAt = b.lastSeenAt,
           c.sketch = b.sketch, c.previous = b.previous,
           c.tokensAt = b.tokensAt \/ c.tokensAt = clock,
           budget' = c, clock' = clock,
           reported' = [x \in Series |-> IF x \in batch THEN clock ELSE reported[x]]
    PROVE  BudgetHolds(budget)'
<1>1. clock \in Nat /\ SeriesWindow \in Nat /\ SeriesWindow > 0
  BY Clock, Parameters
<1>2. b.startedAt \in Nat
  BY DEF Budgets
<1>3. b.previous \in Int
  <2>1. b.previous \in 0 .. Cardinality(Series)
    BY DEF Budgets
  <2> QED BY <2>1, Parameters
<1>4. PICK u \in Int : u = b.startedAt - 2 * SeriesWindow + 1 /\ u <= clock
  BY <1>1, <1>2
<1>5. Cardinality(Since(u)) \in Nat /\ Cardinality(Since(u)') \in Nat
      /\ Cardinality(Since(u)) <= Cardinality(Since(u)')
  <2>1. Cardinality(Since(u)) \in Nat
    BY <1>4, SinceEarlier
  <2>2. Cardinality(Since(u)') \in Nat /\ Cardinality(Since(u)) <= Cardinality(Since(u)')
    BY <1>4, SinceAfterBatch
  <2> QED BY <2>1, <2>2
<1>6. c.previous <= Cardinality(Since(u)')
  BY <1>3, <1>4, <1>5
<1>7. c.sketch \subseteq Since(c.startedAt)'
  <2>1. b.startedAt \in Int
    BY <1>2
  <2> QED BY <1>2, <2>1, SinceAfterBatch
<1>8. c.tokensAt <= clock /\ c.startedAt <= clock /\ c.lastSeenAt <= clock
  BY <1>1
<1>9. Since(c.startedAt - 2 * SeriesWindow + 1)' = Since(u)'
  BY <1>4
<1> QED BY <1>6, <1>7, <1>8, <1>9 DEF BudgetHolds, Since

\* A batch that is refused for its series is refused with reason.
LEMMA BatchIsJudged ==
    ASSUME LimiterInv, NEW batch \in SUBSET Series, NEW b \in Budgets,
           b.startedAt <= clock, clock - b.startedAt < SeriesWindow,
           b.sketch \subseteq Since(b.startedAt) \cup batch,
           b.previous <= Cardinality(Since(b.startedAt - 2 * SeriesWindow + 1)),
           ActiveSeries(b) > MaxActiveSeries, clock' = clock,
           reported' = [x \in Series |-> IF x \in batch THEN clock ELSE reported[x]]
    PROVE  2 * Cardinality(Recent') > MaxActiveSeries
<1>1. clock \in Nat /\ SeriesWindow \in Nat /\ SeriesWindow > 0
  BY Clock, Parameters
<1>2. b.startedAt \in Nat
  BY DEF Budgets
<1>3. b.previous \in Int
  <2>1. b.previous \in 0 .. Cardinality(Series)
    BY DEF Budgets
  <2> QED BY <2>1, Parameters
<1>4. PICK u \in Int : u = b.startedAt - 2 * SeriesWindow + 1 /\ u <= clock
  BY <1>1, <1>2
<1>5. PICK longAgo \in Int : longAgo = clock - 3 * SeriesWindow + 1
  BY <1>1
<1>6. longAgo <= clock /\ longAgo <= u /\ longAgo <= b.startedAt /\ b.startedAt \in Int
  BY <1>1, <1>2, <1>4, <1>5
<1>7. Recent' = Since(longAgo)'
  <2>1. \A x \in Series : reported[x] \in Int
    BY DEF LimiterInv
  <2>2. \A x \in Series : reported'[x] \in Int
    BY <1>1, <2>1
  <2>3. \A t \in Int : clock - t < 3 * SeriesWindow <=> t >= longAgo
    BY <1>1, <1>5
  <2> QED BY <2>2, <2>3 DEF Recent, Since
<1>8. Since(u) \subseteq Since(longAgo) /\ Since(b.startedAt) \subseteq Since(longAgo)
      /\ Cardinality(Since(u)) <= Cardinality(Since(longAgo))
      /\ Cardinality(Since(u)) \in Nat /\ Cardinality(Since(longAgo)) \in Nat
  BY <1>6, SinceEarlier
<1>9. /\ Since(longAgo)' = Since(longAgo) \cup batch /\ IsFiniteSet(Since(longAgo)')
      /\ Cardinality(Since(longAgo)') \in Nat
      /\ Cardinality(Since(longAgo)) <= Cardinality(Since(longAgo)')
  BY <1>6, SinceAfterBatch
<1>10. PICK reports : reports = Since(longAgo)'
  OBVIOUS
<1>11. reports \subseteq Series /\ IsFiniteSet(reports)
  BY <1>9, <1>10 DEF Since
<1>12. b.sketch \subseteq reports
  BY <1>8, <1>9, <1>10
<1>13. b.previous <= Cardinality(reports)
  BY <1>3, <1>4, <1>8, <1>9, <1>10
<1>14. 2 * Cardinality(reports) > MaxActiveSeries
  BY <1>11, <1>12, <1>13, RefusedForSeries
<1> QED BY <1>7, <1>10, <1>14

\* What a batch does to what is available.
LEMMA BatchIsSpent ==
    ASSUME LimiterInv, NEW n \in Nat, clock' = clock,
           accepted' = [t \in 0..MaxTime |-> accepted[t] + IF t <= clock THEN n ELSE 0]
    PROVE  /\ accepted' \in [0 .. MaxTime -> Nat]
           /\ \A t \in (clock + 1) .. MaxTime : accepted'[t] = accepted[t]
           /\ \A t \in 0 .. clock : /\ Available(t) \in Int /\ Available(t)' = Available(t) - n
                                    /\ accepted[t] \in Nat /\ accepted'[t] = accepted[t] + n
                                    /\ Allowed(t) \in Int /\ Allowed(t)' = Allowed(t)
                                    /\ Available(t) = Allowed(t) - accepted[t]
<1>1. clock \in 0 .. MaxTime /\ clock \in Nat /\ MaxTime \in Nat
      /\ accepted \in [0 .. MaxTime -> Nat]
  BY Clock, LimiterAssumption DEF LimiterInv
<1>2. ASSUME NEW t \in 0 .. MaxTime
      PROVE  /\ accepted[t] \in Nat /\ accepted'[t] \in Nat
             /\ t <= clock => accepted'[t] = accepted[t] + n
             /\ ~(t <= clock) => accepted'[t] = accepted[t]
  <2>1. accepted[t] \in Nat
    BY <1>1
  <2>2. accepted'[t] = accepted[t] + IF t <= clock THEN n ELSE 0
    OBVIOUS
  <2>3. CASE t <= clock
    BY <2>1, <2>2, <2>3
  <2>4. CASE ~(t <= clock)
    BY <2>1, <2>2, <2>4
  <2> QED BY <2>1, <2>3, <2>4
<1>3. accepted' \in [0 .. MaxTime -> Nat]
  BY <1>2
<1>4. ASSUME NEW t \in (clock + 1) .. MaxTime
      PROVE  accepted'[t] = accepted[t]
  <2>1. t \in 0 .. MaxTime /\ ~(t <= clock)
    BY <1>1
  <2> QED BY <1>2, <2>1
<1>5. ASSUME NEW t \in 0 .. clock
      PROVE  /\ Available(t) \in Int /\ Available(t)' = Available(t) - n
             /\ accepted[t] \in Nat /\ accepted'[t] = accepted[t] + n
             /\ Allowed(t) \in Int /\ Allowed(t)' = Allowed(t)
             /\ Available(t) = Allowed(t) - accepted[t]
  <2>1. t \in 0 .. MaxTime /\ t <= clock
    BY <1>1
  <2>2. /\ accepted[t] \in Nat /\ Allowed(t) \in Int /\ Available(t) \in Int
        /\ Available(t) = Allowed(t) - accepted[t]
    BY AvailableIs
  <2>3. Allowed(t)' = Allowed(t)
    BY DEF Allowed
  <2>4. accepted'[t] = accepted[t] + n
    BY <1>2, <2>1
  <2>5. Available(t)' = Allowed(t)' - accepted'[t]
    BY DEF Available
  <2> QED BY <2>2, <2>3, <2>4, <2>5
<1> QED BY <1>3, <1>4, <1>5

LEMMA AdmitKeeps ==
    ASSUME LimiterInv, TokensAreExact, NEW batch \in SUBSET Series, NEW samples \in BatchSizes,
           Admit(batch, samples)
    PROVE  LimiterInv' /\ TokensAreExact' /\ RefusalsAreJustified'
<1>1. PICK b, c, r, n, reason, s : AdmitDoes(batch, samples, b, c, r, n, reason, s)
  BY AdmitIs
<1>2. /\ b \in Budgets /\ c \in Budgets /\ r \in Nat /\ n \in Nat /\ n <= r
      /\ samples \in Nat /\ clock \in Nat
  BY <1>1, LimiterAssumption, Clock DEF AdmitDoes
<1>3. reply'.reason = reason /\ reply'.samples = samples
      /\ reply' \in [reason : {"", "none", "cardinality", "sample_rate"}, samples : Nat]
  BY <1>1, <1>2 DEF AdmitDoes
<1>4. c.tokensAt = b.tokensAt \/ c.tokensAt = clock
  BY <1>1 DEF AdmitDoes
<1>5. BudgetHolds(budget)'
  <2>1. /\ b.tokensAt <= clock /\ b.startedAt <= clock /\ b.lastSeenAt = clock
        /\ b.sketch \subseteq Since(b.startedAt) \cup batch
        /\ b.previous <= Cardinality(Since(b.startedAt - 2 * SeriesWindow + 1))
        /\ c.startedAt = b.startedAt /\ c.lastSeenAt = b.lastSeenAt
        /\ c.sketch = b.sketch /\ c.previous = b.previous
        /\ budget' = c /\ clock' = clock
        /\ reported' = [x \in Series |-> IF x \in batch THEN clock ELSE reported[x]]
    BY <1>1 DEF AdmitDoes
  <2> QED BY <1>2, <1>4, <2>1, BatchKeepsSeries
<1>6. CardinalityIsJustified'
  <2>1. ASSUME reason = "cardinality"
        PROVE  2 * Cardinality(Recent') > MaxActiveSeries
    <3>1. /\ b.startedAt <= clock /\ clock - b.startedAt < SeriesWindow
          /\ b.sketch \subseteq Since(b.startedAt) \cup batch
          /\ b.previous <= Cardinality(Since(b.startedAt - 2 * SeriesWindow + 1))
          /\ ActiveSeries(b) > MaxActiveSeries /\ clock' = clock
          /\ reported' = [x \in Series |-> IF x \in batch THEN clock ELSE reported[x]]
      BY <1>1, <2>1 DEF AdmitDoes
    <3> QED BY <1>2, <3>1, BatchIsJudged
  <2> QED BY <1>3, <2>1 DEF CardinalityIsJustified
<1>7. /\ accepted' \in [0 .. MaxTime -> Nat]
      /\ \A t \in (clock + 1) .. MaxTime : accepted'[t] = accepted[t]
      /\ \A t \in 0 .. clock : /\ Available(t) \in Int /\ Available(t)' = Available(t) - n
                               /\ accepted[t] \in Nat /\ accepted'[t] = accepted[t] + n
                               /\ Allowed(t) \in Int /\ Allowed(t)' = Allowed(t)
                               /\ Available(t) = Allowed(t) - accepted[t]
  <2>1. clock' = clock
        /\ accepted' = [t \in 0..MaxTime |-> accepted[t] + IF t <= clock THEN n ELSE 0]
    BY <1>1 DEF AdmitDoes
  <2> QED BY <1>2, <2>1, BatchIsSpent
<1>8. clock' = clock /\ budget' = c
  BY <1>1 DEF AdmitDoes
<1>9. LimiterInv'
  <2>1. prunedAt' = clock \/ prunedAt' = prunedAt
    BY <1>1 DEF AdmitDoes
  <2>2. prunedAt' \in {-SeriesWindow} \cup 0 .. clock
    <3>1. prunedAt \in {-SeriesWindow} \cup 0 .. clock
      BY DEF LimiterInv
    <3>2. clock \in 0 .. clock
      BY <1>2
    <3> QED BY <2>1, <3>1, <3>2
  <2>3. \A x \in Series : reported'[x] = clock \/ reported'[x] = reported[x]
    BY <1>1 DEF AdmitDoes
  <2>4. \A x \in Series : reported'[x] \in Int /\ reported'[x] <= clock
    <3>1. \A x \in Series : reported[x] \in Int /\ reported[x] <= clock
      BY DEF LimiterInv
    <3>2. clock \in Int /\ clock <= clock
      BY <1>2
    <3> QED BY <2>3, <3>1, <3>2
  <2>5. reported' \in [Series -> Int]
    BY <1>1, <2>4 DEF AdmitDoes
  <2>6. clock \in 0 .. MaxTime
    BY DEF LimiterInv
  <2> QED BY <1>3, <1>5, <1>6, <1>7, <1>8, <2>2, <2>4, <2>5, <2>6 DEF LimiterInv
<1>10. \A t \in 0 .. clock : CountsFrom(t, s) => r <= Available(t)
  BY <1>1 DEF AdmitDoes, Exact
<1>11. PICK first \in 0 .. clock : Available(first) <= r
  BY <1>1 DEF AdmitDoes, Exact
<1>12. TokensAreExact'
  <2>1. b.tokensAt <= b.lastSeenAt
    BY <1>1 DEF AdmitDoes, Exact
  <2>2. c.tokensAt <= c.lastSeenAt
    <3>1. c.lastSeenAt = clock /\ b.lastSeenAt = clock
      BY <1>1 DEF AdmitDoes
    <3> QED BY <1>2, <1>4, <2>1, <3>1
  <2>3. Refilled(c)' = r - n
    <3>1. \/ c.tokensAt = b.tokensAt /\ c.tokens = b.tokens /\ n = 0
          \/ c.tokensAt = clock /\ c.tokens = r - n
      BY <1>1 DEF AdmitDoes
    <3>2. r = Refilled(b)
      BY <1>1 DEF AdmitDoes
    <3>3. b \in Budgets /\ c \in Budgets /\ n \in Nat /\ r \in Nat /\ clock' = clock
      BY <1>2, <1>8
    <3> QED BY ZenonT(60), <3>1, <3>2, <3>3, RefillAfterBatch
  <2>4. \A t \in 0 .. clock : CountsFrom(t, s) => r - n <= Available(t)'
    <3> SUFFICES ASSUME NEW t \in 0 .. clock, CountsFrom(t, s) PROVE r - n <= Available(t)'
      OBVIOUS
    <3>1. Available(t) \in Int /\ Available(t)' = Available(t) - n
      BY <1>7
    <3>2. r <= Available(t)
      BY <1>10
    <3> QED BY <1>2, <3>1, <3>2
  <2>5. Available(first)' <= r - n
    <3>1. Available(first) \in Int /\ Available(first)' = Available(first) - n
      BY <1>7
    <3> QED BY <1>2, <1>11, <3>1
  <2>6. Refilled(budget)' = r - n
    BY <1>8, <2>3 DEF Refilled
  <2>7. returned' = s /\ s \in 0 .. clock
    <3>1. returned \in 0 .. clock /\ clock \in 0 .. clock
      BY <1>2 DEF TokensAreExact
    <3> QED BY <1>1, <3>1 DEF AdmitDoes
  <2>8. Exact(budget, returned)'
    <3>1. \A t : CountsFrom(t, returned)' <=> CountsFrom(t, s)
      BY <2>7 DEF CountsFrom, FullWhenForgotten
    <3> QED BY <1>8, <2>2, <2>4, <2>5, <2>6, <3>1 DEF Exact
  <2>9. LastSeen(budget)'
    <3>1. c.lastSeenAt = clock
      BY <1>1 DEF AdmitDoes
    <3>2. \A x \in Series : reported'[x] <= clock
      <4>1. \A x \in Series : reported'[x] = clock \/ reported'[x] = reported[x]
        BY <1>1 DEF AdmitDoes
      <4>2. \A x \in Series : reported[x] <= clock
        BY DEF LimiterInv
      <4> QED BY <1>2, <4>1, <4>2
    <3>3. \A t \in 0 .. clock : ~(t > clock)
      BY <1>2
    <3> QED BY <1>8, <3>1, <3>2, <3>3 DEF LastSeen
  <2>10. \A t \in (clock + 1) .. MaxTime : accepted'[t] = 0
    BY <1>7 DEF TokensAreExact
  <2>11. budget' # NoBudget
    BY <1>2, <1>8, BudgetAssumption
  <2> QED BY <1>8, <2>7, <2>8, <2>9, <2>10, <2>11 DEF TokensAreExact
<1>13. RefusalsAreJustified'
  <2>1. ASSUME reason = "sample_rate"
        PROVE  \E t \in 0 .. clock : accepted'[t] + samples > Allowed(t)'
    <3>1. n = 0
      BY <1>1, <2>1 DEF AdmitDoes
    <3>2. r < samples
      BY <1>1, <2>1 DEF AdmitDoes
    <3>3. /\ Available(first) = Allowed(first) - accepted[first]
          /\ accepted[first] \in Nat /\ accepted'[first] = accepted[first] + n
          /\ Allowed(first) \in Int /\ Allowed(first)' = Allowed(first)
      BY <1>7
    <3>4. PICK had \in Nat, may \in Int : had = accepted[first] /\ may = Allowed(first)
      BY <3>3
    <3>5. may - had <= r /\ had + samples > may
      BY <1>2, <1>11, <3>2, <3>3, <3>4
    <3>6. accepted'[first] = had /\ Allowed(first)' = may
      BY <3>1, <3>3, <3>4
    <3> QED BY <3>5, <3>6
  <2>2. ASSUME reason = "", NEW t \in 0 .. clock, CountsFrom(t, s)
        PROVE  accepted'[t] <= Allowed(t)'
    <3>1. r <= Available(t)
      BY <1>10, <2>2
    <3>2. n <= r /\ n \in Nat /\ r \in Nat
      BY <1>2
    <3>3. /\ Available(t) = Allowed(t) - accepted[t]
          /\ accepted[t] \in Nat /\ accepted'[t] = accepted[t] + n
          /\ Allowed(t) \in Int /\ Allowed(t)' = Allowed(t)
      BY <1>7
    <3>4. PICK had \in Nat, may \in Int : had = accepted[t] /\ may = Allowed(t)
      BY <3>3
    <3>5. r <= may - had
      BY <3>1, <3>3, <3>4
    <3>6. had + n <= may
      BY <3>2, <3>4, <3>5
    <3> QED BY <3>3, <3>4, <3>6
  <2>3. reply'.reason = "sample_rate" =>
          \E t \in 0 .. clock' : accepted'[t] + reply'.samples > Allowed(t)'
    BY <1>3, <1>8, <2>1
  <2>4. reply'.reason = "" =>
          \A t \in 0 .. clock' : Accountable(t)' => accepted'[t] <= Allowed(t)'
    <3>1. returned' = s
      BY <1>1 DEF AdmitDoes
    <3>2. \A t : Accountable(t)' => CountsFrom(t, s)
      BY <3>1 DEF Accountable, CountsFrom, FullWhenForgotten
    <3> QED BY <1>3, <1>8, <2>2, <3>2
  <2> QED BY <1>6, <2>3, <2>4 DEF RefusalsAreJustified
<1> QED BY <1>9, <1>12, <1>13

-----------------------------------------------------------------------------
(* ClusterLimiter: the other steps.                                          *)

\* A step that changes the budget alone.
LEMMA OnlyBudgetChanges ==
    ASSUME LimiterInv, TokensAreExact, RefusalsAreJustified, NEW b,
           b # NoBudget => BudgetHolds(b) /\ Exact(b, returned) /\ LastSeen(b),
           b = NoBudget => NothingOwed,
           budget' = b, prunedAt' = prunedAt \/ prunedAt' = clock,
           UNCHANGED <<clock, reply, reported, returned, accepted>>
    PROVE  LimiterInv' /\ TokensAreExact' /\ RefusalsAreJustified'
<1>1. clock' = clock /\ reply' = reply /\ reported' = reported /\ accepted' = accepted
      /\ returned' = returned
  OBVIOUS
<1>2. \A t : Since(t)' = Since(t)
  BY <1>1 DEF Since
<1>3. Recent' = Recent
  BY <1>1 DEF Recent
<1>4. \A t : Allowed(t)' = Allowed(t)
  BY <1>1 DEF Allowed
<1>5. \A t : Available(t)' = Available(t)
  BY <1>1, <1>4 DEF Available
<1>6. b # NoBudget => BudgetHolds(budget)'
  BY <1>1, <1>2 DEF BudgetHolds
<1>7. b # NoBudget => Exact(budget, returned)' /\ LastSeen(budget)'
  <2>1. Refilled(budget)' = Refilled(b)
    BY <1>1 DEF Refilled
  <2>2. \A t : CountsFrom(t, returned)' <=> CountsFrom(t, returned)
    BY <1>1 DEF CountsFrom, FullWhenForgotten
  <2> QED BY <1>1, <1>5, <2>1, <2>2 DEF Exact, LastSeen
<1>8. CardinalityIsJustified'
  BY <1>1, <1>3 DEF CardinalityIsJustified, RefusalsAreJustified
<1>9. prunedAt' \in {-SeriesWindow} \cup 0 .. clock
  <2>1. prunedAt \in {-SeriesWindow} \cup 0 .. clock
    BY DEF LimiterInv
  <2>2. clock \in 0 .. clock
    BY Clock
  <2> QED BY <2>1, <2>2
<1>10. LimiterInv'
  BY <1>1, <1>6, <1>8, <1>9 DEF LimiterInv
<1>11. TokensAreExact'
  <2>1. b = NoBudget => NothingOwed'
    BY <1>1, <1>5 DEF NothingOwed, Silent, FullWhenForgotten
  <2> QED BY <1>1, <1>7, <2>1 DEF TokensAreExact
<1>12. RefusalsAreJustified'
  <2>1. \A t : Accountable(t)' <=> Accountable(t)
    BY <1>1 DEF Accountable, FullWhenForgotten
  <2> QED BY <1>1, <1>4, <1>8, <2>1 DEF RefusalsAreJustified
<1> QED BY <1>10, <1>11, <1>12

LEMMA PruneKeeps ==
    ASSUME LimiterInv, TokensAreExact, RefusalsAreJustified, Prune
    PROVE  LimiterInv' /\ TokensAreExact' /\ RefusalsAreJustified'
<1>1. PICK b : b = Kept
  OBVIOUS
<1>2. CASE b = NoBudget
  <2>1. NothingOwed
    BY <1>1, <1>2, NothingKept
  <2>2. budget' = b /\ (prunedAt' = prunedAt \/ prunedAt' = clock)
        /\ UNCHANGED <<clock, reply, reported, returned, accepted>>
    BY <1>1 DEF Prune
  <2> QED BY <1>2, <2>1, <2>2, OnlyBudgetChanges
<1>3. CASE b # NoBudget
  <2>1. b = budget
    BY <1>1, <1>3 DEF Kept
  <2>2. BudgetHolds(b) /\ Exact(b, returned) /\ LastSeen(b)
    BY <1>3, <2>1 DEF LimiterInv, TokensAreExact
  <2>3. budget' = b /\ (prunedAt' = prunedAt \/ prunedAt' = clock)
        /\ UNCHANGED <<clock, reply, reported, returned, accepted>>
    BY <1>1 DEF Prune
  <2> QED BY <1>3, <2>2, <2>3, OnlyBudgetChanges
<1> QED BY <1>2, <1>3

LEMMA ReadBudgetKeeps ==
    ASSUME LimiterInv, TokensAreExact, RefusalsAreJustified, ReadBudget
    PROVE  LimiterInv' /\ TokensAreExact' /\ RefusalsAreJustified'
<1>1. BudgetHolds(budget) /\ Exact(budget, returned) /\ LastSeen(budget)
  BY DEF ReadBudget, LimiterInv, TokensAreExact
<1>2. PICK b : b = Rotated(budget)
  OBVIOUS
<1>3. BudgetHolds(b) /\ Exact(b, returned) /\ LastSeen(b) /\ b # NoBudget
  <2>1. BudgetHolds(b) /\ Exact(b, returned) /\ b.lastSeenAt = budget.lastSeenAt
    BY <1>1, <1>2, RotationHolds, RotationKeepsTokens
  <2> QED BY <1>1, <2>1, BudgetAssumption DEF BudgetHolds, LastSeen
<1>4. budget' = b /\ prunedAt' = prunedAt /\ UNCHANGED <<clock, reply, reported, returned, accepted>>
  BY <1>2 DEF ReadBudget
<1> QED BY <1>3, <1>4, OnlyBudgetChanges

\* A moment more brings the rate, up to the burst; since the new moment, the burst is
\* available.
LEMMA OneMoreMoment ==
    ASSUME NEW x \in Nat, NEW rate \in Nat, NEW burst \in Nat
    PROVE  /\ Min({burst, x + rate}) \in Nat /\ Min({burst, x}) \in Nat
           /\ Min({burst, x + rate}) <= Min({burst, x}) + rate
           /\ Min({burst, x + rate}) <= burst
           /\ \/ Min({burst, x + rate}) = burst
              \/ Min({burst, x + rate}) = Min({burst, x}) + rate
<1>1. Min({burst, x + rate}) = IF burst <= x + rate THEN burst ELSE x + rate
  BY MinOfTwo
<1>2. Min({burst, x}) = IF burst <= x THEN burst ELSE x
  BY MinOfTwo
<1> QED BY <1>1, <1>2

LEMMA MoreTime ==
    ASSUME NEW t \in Nat, NEW u \in Nat, u <= t, NEW rate \in Nat
    PROVE  rate * (t + 1 - u) = rate * (t - u) + rate /\ rate * (t - u) \in Nat
<1>1. PICK d \in Nat : d = t - u
  OBVIOUS
<1>2. rate * (d + 1) = rate * d + rate /\ rate * d \in Nat
  OBVIOUS
<1>3. t + 1 - u = d + 1
  BY <1>1
<1> QED BY <1>1, <1>2, <1>3

LEMMA TimePassesKeeps ==
    ASSUME LimiterInv, TokensAreExact, TimePasses
    PROVE  LimiterInv' /\ TokensAreExact' /\ RefusalsAreJustified'
<1>1. /\ clock' = clock + 1 /\ reply' = NoReply /\ clock < MaxTime
      /\ budget' = budget /\ prunedAt' = prunedAt /\ reported' = reported
      /\ accepted' = accepted /\ returned' = returned
  BY DEF TimePasses
<1>2. clock \in Nat /\ MaxTime \in Nat /\ SampleRate \in Nat /\ Burst \in Nat
  BY Clock, Parameters, LimiterAssumption
<1>3. RefusalsAreJustified' /\ CardinalityIsJustified'
  BY <1>1 DEF RefusalsAreJustified, CardinalityIsJustified, NoReply
<1>4. \A t \in 0 .. clock :
         Available(t) \in Int /\ Available(t)' = Available(t) + SampleRate
  <2> SUFFICES ASSUME NEW t \in 0 .. clock
               PROVE  Available(t) \in Int /\ Available(t)' = Available(t) + SampleRate
    OBVIOUS
  <2>1. /\ accepted[t] \in Nat /\ Allowed(t) \in Int /\ Available(t) \in Int
        /\ Available(t) = Allowed(t) - accepted[t]
    BY AvailableIs
  <2>2. t \in Nat /\ t <= clock
    BY <1>2
  <2>3. PICK gain \in Nat : gain = SampleRate * (clock - t)
                            /\ SampleRate * (clock + 1 - t) = gain + SampleRate
    BY <1>2, <2>2, MoreTime
  <2>4. Allowed(t)' = Burst + (gain + SampleRate) /\ Allowed(t) = Burst + gain
    <3>1. Allowed(t)' = Burst + SampleRate * (clock' - t)
      BY DEF Allowed
    <3>2. SampleRate * (clock' - t) = gain + SampleRate
      <4>1. clock' - t = clock + 1 - t
        BY <1>1, <1>2, <2>2
      <4> QED BY Zenon, <2>3, <4>1
    <3>3. Allowed(t) = Burst + gain
      BY <2>3 DEF Allowed
    <3> QED BY <3>1, <3>2, <3>3
  <2>5. Available(t)' = Allowed(t)' - accepted[t]
    BY <1>1 DEF Available
  <2> QED BY <1>2, <2>1, <2>3, <2>4, <2>5
<1>5. PICK now \in Nat : now = clock + 1
  BY <1>2
<1>6. /\ now \in (clock + 1) .. MaxTime /\ clock' = now
      /\ 0 .. clock' = (0 .. clock) \cup {now} /\ clock' \in 0 .. MaxTime
  BY <1>1, <1>2, <1>5
<1>7. Available(now)' = Burst
  <2>1. accepted'[now] = 0
    BY <1>1, <1>6 DEF TokensAreExact
  <2>2. SampleRate * (now - now) = 0
    BY <1>2, <1>5, NothingIsGained
  <2>3. Allowed(now)' = Burst + 0
    BY <1>6, <2>2 DEF Allowed
  <2>4. Available(now)' = Allowed(now)' - accepted'[now]
    BY DEF Available
  <2> QED BY <1>2, <2>1, <2>3, <2>4
<1>8. budget # NoBudget => BudgetHolds(budget)'
  <2> SUFFICES ASSUME BudgetHolds(budget) PROVE BudgetHolds(budget)'
    BY DEF LimiterInv
  <2>1. \A t : Since(t)' = Since(t)
    BY <1>1 DEF Since
  <2>2. budget.tokensAt \in Nat /\ budget.startedAt \in Nat /\ budget.lastSeenAt \in Nat
    BY DEF BudgetHolds, Budgets
  <2>3. budget.tokensAt <= clock /\ budget.startedAt <= clock /\ budget.lastSeenAt <= clock
    BY DEF BudgetHolds
  <2>4. budget.tokensAt <= now /\ budget.startedAt <= now /\ budget.lastSeenAt <= now
    BY <1>2, <1>5, <2>2, <2>3
  <2> QED BY <1>1, <1>6, <2>1, <2>4 DEF BudgetHolds
<1>9. ASSUME budget # NoBudget
      PROVE  Exact(budget, returned)'
  <2>1. BudgetHolds(budget) /\ Exact(budget, returned)
    BY <1>9 DEF LimiterInv, TokensAreExact
  <2>2. budget.tokens \in Nat /\ budget.tokensAt \in Nat /\ budget.tokensAt <= clock
    <3>1. budget.tokens \in 0 .. Burst /\ budget.tokensAt \in Nat
      BY <2>1 DEF BudgetHolds, Budgets
    <3> QED BY <1>2, <2>1, <3>1 DEF BudgetHolds
  <2>3. PICK gain \in Nat : gain = SampleRate * (clock - budget.tokensAt)
                            /\ SampleRate * (clock + 1 - budget.tokensAt) = gain + SampleRate
    BY <1>2, <2>2, MoreTime
  <2>4. PICK x \in Nat : x = budget.tokens + gain
    BY <2>2
  <2>5. PICK old, new : old = Min({Burst, x}) /\ new = Min({Burst, x + SampleRate})
    OBVIOUS
  <2>6. /\ old \in Nat /\ new \in Nat /\ new <= old + SampleRate /\ new <= Burst
        /\ new = Burst \/ new = old + SampleRate
    BY <1>2, <2>5, OneMoreMoment
  <2>7. Refilled(budget) = old
    BY <2>3, <2>4, <2>5 DEF Refilled
  <2>8. Refilled(budget)' = new
    <3>1. Refilled(budget)' = Min({Burst, budget.tokens + SampleRate * (clock' - budget.tokensAt)})
      BY <1>1 DEF Refilled
    <3>2. SampleRate * (clock' - budget.tokensAt) = gain + SampleRate
      <4>1. clock' - budget.tokensAt = clock + 1 - budget.tokensAt
        BY <1>1, <1>2, <2>2
      <4> QED BY Zenon, <2>3, <4>1
    <3>3. budget.tokens + (gain + SampleRate) = x + SampleRate
      BY <1>2, <2>2, <2>4
    <3> QED BY <2>5, <3>1, <3>2, <3>3
  <2>9. \A t \in 0 .. clock : CountsFrom(t, returned) => old <= Available(t)
    BY <2>1, <2>7 DEF Exact
  <2>10. \A t \in 0 .. clock' : CountsFrom(t, returned) => new <= Available(t)'
    <3>1. ASSUME NEW t \in 0 .. clock, CountsFrom(t, returned) PROVE new <= Available(t)'
      <4>1. Available(t) \in Int /\ Available(t)' = Available(t) + SampleRate
        BY <1>4
      <4>2. old <= Available(t)
        BY <2>9, <3>1
      <4> QED BY <1>2, <2>6, <4>1, <4>2
    <3>2. new <= Available(now)'
      BY <1>7, <2>6
    <3> QED BY <1>6, <3>1, <3>2
  <2>11. \E t \in 0 .. clock' : Available(t)' <= new
    <3>1. CASE new = Burst
      <4>1. now \in 0 .. clock' /\ Available(now)' <= new
        BY <1>2, <1>6, <1>7, <3>1
      <4> QED BY <4>1
    <3>2. CASE new = old + SampleRate
      <4>1. PICK t \in 0 .. clock : Available(t) <= old
        BY <2>1, <2>7 DEF Exact
      <4>2. Available(t) \in Int /\ Available(t)' = Available(t) + SampleRate
        BY <1>4
      <4>3. Available(t)' <= new
        BY <1>2, <2>6, <3>2, <4>1, <4>2
      <4> QED BY <1>6, <4>3
    <3> QED BY <2>6, <3>1, <3>2
  <2>12. budget'.tokensAt <= budget'.lastSeenAt
    BY <1>1, <2>1 DEF Exact
  <2>13. \A t : CountsFrom(t, returned)' <=> CountsFrom(t, returned)
    BY <1>1 DEF CountsFrom, FullWhenForgotten
  <2> QED BY <2>8, <2>10, <2>11, <2>12, <2>13 DEF Exact
<1>10. ASSUME budget # NoBudget
       PROVE  LastSeen(budget)'
  <2>1. LastSeen(budget) /\ BudgetHolds(budget)
    BY <1>10 DEF LimiterInv, TokensAreExact
  <2>2. accepted[now] = 0
    BY <1>6 DEF TokensAreExact
  <2> QED BY <1>1, <1>6, <2>1, <2>2 DEF LastSeen
<1>11. ASSUME budget = NoBudget, FullWhenForgotten, NEW t \in 0 .. clock'
       PROVE  Burst <= Available(t)'
  <2>1. CASE t \in 0 .. clock
    <3>1. Available(t) \in Int /\ Available(t)' = Available(t) + SampleRate
      BY <1>4, <2>1
    <3>2. Burst <= Available(t)
      BY <1>11, <2>1 DEF TokensAreExact, NothingOwed
    <3> QED BY <1>2, <3>1, <3>2
  <2>2. CASE t = now
    BY <1>2, <1>7, <2>2
  <2> QED BY <1>6, <2>1, <2>2
<1>12. ASSUME budget = NoBudget
       PROVE  NothingOwed'
  <2>1. Silent
    BY <1>12 DEF TokensAreExact, NothingOwed
  <2>2. \A x \in Series : reported[x] \in Int
    BY DEF LimiterInv
  <2>3. Silent'
    BY <1>1, <1>2, <2>1, <2>2, Parameters DEF Silent
  <2>4. accepted'[clock'] = 0
    BY <1>1, <1>6 DEF TokensAreExact
  <2>5. FullWhenForgotten' <=> FullWhenForgotten
    BY DEF FullWhenForgotten
  <2> QED BY <1>11, <1>12, <2>3, <2>4, <2>5 DEF NothingOwed
<1>13. TokensAreExact'
  <2>1. \A t \in (clock' + 1) .. MaxTime : t \in (clock + 1) .. MaxTime
    BY <1>1, <1>2
  <2>2. \A t \in (clock' + 1) .. MaxTime : accepted'[t] = 0
    BY <1>1, <2>1 DEF TokensAreExact
  <2>3. returned' \in 0 .. clock'
    BY <1>1, <1>6 DEF TokensAreExact
  <2> QED BY <1>1, <1>9, <1>10, <1>12, <2>2, <2>3 DEF TokensAreExact
<1>14. LimiterInv'
  <2>1. reply' \in [reason : {"", "none", "cardinality", "sample_rate"}, samples : Nat]
    BY <1>1 DEF NoReply
  <2>2. prunedAt' \in {-SeriesWindow} \cup 0 .. clock'
    <3>1. prunedAt' \in {-SeriesWindow} \cup 0 .. clock
      BY <1>1 DEF LimiterInv
    <3> QED BY <1>6, <3>1
  <2>3. \A x \in Series : reported'[x] <= clock'
    <3>1. \A x \in Series : reported[x] \in Int /\ reported[x] <= clock
      BY DEF LimiterInv
    <3> QED BY <1>1, <1>2, <3>1
  <2>4. reported' \in [Series -> Int] /\ accepted' \in [0 .. MaxTime -> Nat]
    BY <1>1 DEF LimiterInv
  <2> QED BY <1>1, <1>3, <1>6, <1>8, <2>1, <2>2, <2>3, <2>4 DEF LimiterInv
<1> QED BY <1>3, <1>13, <1>14

\* A step leaves what holds of the budget, and answers with reason.
LEMMA LimiterStep ==
    LimiterInv /\ TokensAreExact /\ RefusalsAreJustified /\ [CLNext]_clVars
      => LimiterInv' /\ TokensAreExact' /\ RefusalsAreJustified'
<1> SUFFICES ASSUME LimiterInv, TokensAreExact, RefusalsAreJustified, [CLNext]_clVars
             PROVE  LimiterInv' /\ TokensAreExact' /\ RefusalsAreJustified'
  OBVIOUS
<1>1. CASE TimePasses
  BY <1>1, TimePassesKeeps
<1>2. CASE Prune
  BY <1>2, PruneKeeps
<1>3. CASE ReadBudget
  BY <1>3, ReadBudgetKeeps
<1>4. ASSUME NEW batch \in SUBSET Series \ {{}}, NEW samples \in BatchSizes,
             Admit(batch, samples)
      PROVE  LimiterInv' /\ TokensAreExact' /\ RefusalsAreJustified'
  BY <1>4, AdmitKeeps
<1>5. CASE UNCHANGED clVars
  <2>1. PICK b : b = budget
    OBVIOUS
  <2>2. budget' = b /\ prunedAt' = prunedAt /\ UNCHANGED <<clock, reply, reported, returned, accepted>>
    BY <1>5, <2>1 DEF clVars
  <2> QED BY <2>1, <2>2, OnlyBudgetChanges DEF LimiterInv, TokensAreExact
<1> QED BY <1>1, <1>2, <1>3, <1>4, <1>5 DEF CLNext

LEMMA LimiterStarts == CLInit => LimiterInv /\ TokensAreExact /\ RefusalsAreJustified
<1> SUFFICES ASSUME CLInit PROVE LimiterInv /\ TokensAreExact /\ RefusalsAreJustified
  OBVIOUS
<1>1. /\ clock = 0 /\ budget = NoBudget /\ prunedAt = -SeriesWindow /\ reply = NoReply
      /\ reported = [x \in Series |-> -3 * SeriesWindow]
      /\ accepted = [t \in 0..MaxTime |-> 0] /\ returned = 0
  BY DEF CLInit
<1>2. MaxTime \in Nat /\ SeriesWindow \in Nat /\ Burst \in Nat /\ SampleRate \in Nat
  BY LimiterAssumption, Parameters
<1>3. reply \in [reason : {"", "none", "cardinality", "sample_rate"}, samples : Nat]
      /\ reply.reason = "none"
  BY <1>1 DEF NoReply
<1>4. CardinalityIsJustified /\ RefusalsAreJustified
  BY <1>3 DEF CardinalityIsJustified, RefusalsAreJustified
<1>5. -3 * SeriesWindow \in Int /\ -3 * SeriesWindow <= 0
  BY <1>2
<1>6. reported \in [Series -> Int] /\ \A x \in Series : reported[x] <= clock
  BY <1>1, <1>5
<1>7. LimiterInv
  <2>1. clock \in 0 .. MaxTime /\ prunedAt \in {-SeriesWindow} \cup 0 .. clock
    BY <1>1, <1>2
  <2>2. accepted \in [0 .. MaxTime -> Nat]
    BY <1>1
  <2> QED BY <1>1, <1>3, <1>4, <1>6, <2>1, <2>2 DEF LimiterInv
<1>8. \A t \in 0 .. clock : Burst <= Available(t)
  <2>1. Available(0) = Burst
    <3>1. SampleRate * (0 - 0) = 0 /\ accepted[0] = 0
      BY <1>1, <1>2
    <3>2. Allowed(0) = Burst + 0
      BY <1>1, <3>1 DEF Allowed
    <3> QED BY <1>2, <3>1, <3>2 DEF Available
  <2>2. \A t \in 0 .. clock : t = 0
    BY <1>1
  <2> QED BY <1>2, <2>1, <2>2
<1>9. \A t \in (clock + 1) .. MaxTime : accepted[t] = 0
  BY <1>1, <1>2
<1>10. NothingOwed
  <2>1. \A x \in Series : reported[x] = -3 * SeriesWindow
    BY <1>1
  <2>2. SeriesWindow > 0
    BY LimiterAssumption
  <2>3. 0 - (-3 * SeriesWindow) > 2 * SeriesWindow
    BY <1>2, <2>2
  <2>4. Silent
    BY <1>1, <2>1, <2>3 DEF Silent
  <2>5. accepted[clock] = 0
    BY <1>1, <1>2
  <2> QED BY <1>8, <2>4, <2>5 DEF NothingOwed
<1>11. returned \in 0 .. clock
  BY <1>1
<1> QED BY <1>1, <1>4, <1>7, <1>9, <1>10, <1>11 DEF TokensAreExact

\* The budget of a Cluster, the moments and the answers stay in their ranges: a budget
\* never has more tokens than the burst, nor less than none.
THEOREM LimiterTypeCorrect == CLSpec => []CLTypeOK
<1>1. CLInit => LimiterInv /\ TokensAreExact /\ RefusalsAreJustified
  BY LimiterStarts
<1>2. LimiterInv /\ TokensAreExact /\ RefusalsAreJustified /\ [CLNext]_clVars
        => LimiterInv' /\ TokensAreExact' /\ RefusalsAreJustified'
  BY LimiterStep
<1>3. LimiterInv /\ TokensAreExact => CLTypeOK
  <2> SUFFICES ASSUME LimiterInv, TokensAreExact PROVE CLTypeOK
    OBVIOUS
  <2>1. budget # NoBudget =>
          budget \in Budgets /\ {budget.tokensAt, budget.startedAt, budget.lastSeenAt} \subseteq 0 .. clock
    <3> SUFFICES ASSUME BudgetHolds(budget)
                 PROVE  budget \in Budgets
                        /\ {budget.tokensAt, budget.startedAt, budget.lastSeenAt} \subseteq 0 .. clock
      BY DEF LimiterInv
    <3>1. /\ budget \in Budgets
          /\ budget.tokensAt \in Nat /\ budget.startedAt \in Nat /\ budget.lastSeenAt \in Nat
      BY DEF BudgetHolds, Budgets
    <3>2. budget.tokensAt <= clock /\ budget.startedAt <= clock /\ budget.lastSeenAt <= clock
      BY DEF BudgetHolds
    <3> QED BY <3>1, <3>2, Clock
  <2>2. reply.reason \in {"", "none", "cardinality", "sample_rate"}
    BY DEF LimiterInv
  <2>3. returned \in 0 .. clock
    BY DEF TokensAreExact
  <2> QED BY <2>1, <2>2, <2>3 DEF LimiterInv, CLTypeOK
<1> QED BY <1>1, <1>2, <1>3, PTL DEF CLSpec

\* admit refuses a batch for its samples only if it would overrun the burst and the rate
\* since some moment, accepts it only if it overruns them since none after the Cluster last
\* came back from two windows of silence, and since none at all if a budget fills up in
\* two windows, and refuses it for its series only if the Cluster has lately sent more
\* than half of the limit, whatever is forgotten, turned over or read in between.
THEOREM RefusedWithReason == CLSpec => []RefusalsAreJustified
<1>1. CLInit => LimiterInv /\ TokensAreExact /\ RefusalsAreJustified
  BY LimiterStarts
<1>2. LimiterInv /\ TokensAreExact /\ RefusalsAreJustified /\ [CLNext]_clVars
        => LimiterInv' /\ TokensAreExact' /\ RefusalsAreJustified'
  BY LimiterStep
<1> QED BY <1>1, <1>2, PTL DEF CLSpec

-----------------------------------------------------------------------------
(* LoginSessions.  A failure is counted only below the limit, because the  *)
(* account that reaches it is locked by the same transaction; and the      *)
(* bound on the passwords is tested before a change commits, which then    *)
(* finds the password it has read.                                         *)

OpenBelowLimit ==
    user.status = "active" => user.failures < MaxFailedLoginAttempts

SnapshotBelowBound ==
    change.stage = "snapshot" => change.read.password < MaxPasswords

LSTypeInv == LSTypeOK /\ OpenBelowLimit /\ SnapshotBelowBound

\* The constant rows are well typed.
LEMMA RowTypes ==
    /\ NoVersion \in Versions
    /\ NoSessionRow \in [state : {"none", "live", "revoked"},
                         password : 0 .. MaxPasswords]
BY LoginAssumption DEF NoVersion, Versions, NoSessionRow

\* A session that is opened or revoked is still a session.
LEMMA SessionTypes ==
    ASSUME LSTypeOK
    PROVE  LET LoginRows == [Logins -> [state : {"none", "live", "revoked"},
                                          password : 0 .. MaxPasswords]]
           IN  /\ RevokedSessions \in LoginRows
               /\ \A l \in Logins, v \in Versions :
                     OpenedSession(l, v) \in LoginRows
BY DEF LSTypeOK, RevokedSessions, OpenedSession, Versions

\* A new password has the next number.
LEMMA NewVersionType ==
    ASSUME LSTypeOK, user.version.password < MaxPasswords
    PROVE  NewVersion \in Versions
BY LoginAssumption DEF LSTypeOK, NewVersion, Versions

\* What RecordLoginFailure makes of the row is a row, locked at the limit.
LEMMA FailureType ==
    ASSUME NEW l \in Logins, LSTypeInv
    PROVE  /\ AfterFailure(l) \in [status : UserStatuses,
                                   failures : 0 .. MaxFailedLoginAttempts,
                                   version : Versions]
           /\ AfterFailure(l).status = "active"
                => AfterFailure(l).failures < MaxFailedLoginAttempts
           /\ AfterFailure(l).version = user.version
           /\ AfterFailure(l).status = "active"
                => user.status \in {"active", "expired"}
<1>1. user \in [status : UserStatuses, failures : 0 .. MaxFailedLoginAttempts,
                version : Versions]
  BY DEF LSTypeInv, LSTypeOK
<1>2. CASE StillLockedFor(l) \/ user.status \in {"disabled", "gone"}
  BY <1>1, <1>2 DEF AfterFailure, StillLockedFor, LSTypeInv, OpenBelowLimit
<1>3. CASE ~(StillLockedFor(l) \/ user.status \in {"disabled", "gone"})
  <2>1. user.status \in {"active", "expired"}
    BY <1>1, <1>3 DEF UserStatuses, StillLockedFor
  <2> DEFINE failures == IF user.status = "expired" THEN 1 ELSE user.failures + 1
  <2>2. failures \in 0 .. MaxFailedLoginAttempts
    BY <1>1, <2>1, LoginAssumption DEF LSTypeInv, OpenBelowLimit
  <2>3. AfterFailure(l) =
          [user EXCEPT !.failures = failures,
                       !.status = IF failures >= MaxFailedLoginAttempts THEN "locked"
                                                              ELSE "active"]
    BY <1>3 DEF AfterFailure
  <2>4. AfterFailure(l) =
          [status |-> IF failures >= MaxFailedLoginAttempts THEN "locked" ELSE "active",
           failures |-> failures, version |-> user.version]
    BY <1>1, <2>3
  <2> HIDE DEF failures
  <2> QED
    BY <1>1, <2>1, <2>2, <2>4, LoginAssumption DEF UserStatuses
<1> QED
  BY <1>2, <1>3

LEMMA LSTypeInit == LSInit => LSTypeInv
BY RowTypes, LoginAssumption
   DEF LSInit, LSTypeInv, LSTypeOK, OpenBelowLimit, SnapshotBelowBound, NoLogin, NoChange, UserStatuses

\* Every step keeps the variables typed, and counts no failure beyond the limit.
LEMMA LSTypeStep == LSTypeInv /\ [LSNext]_loginVars => LSTypeInv'
<1> SUFFICES ASSUME LSTypeInv, [LSNext]_loginVars PROVE LSTypeInv'
  OBVIOUS
<1> USE DEF LSTypeInv, LSTypeOK, OpenBelowLimit, SnapshotBelowBound
<1>1. ASSUME NEW l \in Logins, NEW matches \in BOOLEAN, ReadsUser(l, matches)
      PROVE  LSTypeInv'
  BY <1>1 DEF ReadsUser
<1>2. ASSUME NEW l \in Logins, BeginsLogin(l) \/ LoginAborts(l)
      PROVE  LSTypeInv'
  BY <1>2 DEF BeginsLogin, LoginAborts
<1>3. ASSUME NEW l \in Logins, CompletesLogin(l)
      PROVE  LSTypeInv'
  <2>1. session' \in [Logins -> [state : {"none", "live", "revoked"},
                                 password : 0 .. MaxPasswords]]
    BY <1>3, SessionTypes DEF CompletesLogin
  <2>2. \/ user' = user
        \/ user' = [status |-> "active", failures |-> 0,
                    version |-> [password |-> user.version.password,
                                 upgraded |-> TRUE]]
    <3>1. /\ user = [status |-> user.status, failures |-> user.failures,
                     version |-> user.version]
          /\ user.version = [password |-> user.version.password,
                             upgraded |-> user.version.upgraded]
      BY DEF Versions
    <3> QED
      BY <1>3, <3>1 DEF CompletesLogin
  <2>3. user' \in [status : UserStatuses, failures : 0 .. MaxFailedLoginAttempts,
                   version : Versions]
    <3>1. user.version.password \in 0 .. MaxPasswords
      BY DEF Versions
    <3>2. [password |-> user.version.password, upgraded |-> TRUE] \in Versions
      BY <3>1 DEF Versions
    <3>3. "active" \in UserStatuses /\ 0 \in 0 .. MaxFailedLoginAttempts
      BY LoginAssumption DEF UserStatuses
    <3>4. \A row : row = [status |-> "active", failures |-> 0,
                          version |-> [password |-> user.version.password,
                                       upgraded |-> TRUE]]
            => row \in [status : UserStatuses, failures : 0 .. MaxFailedLoginAttempts,
                        version : Versions]
      BY <3>2, <3>3
    <3> QED
      BY <2>2, <3>4
  <2>4. OpenBelowLimit'
    BY <2>2, LoginAssumption
  <2> QED
    BY <1>3, <2>1, <2>3, <2>4 DEF CompletesLogin
<1>4. ASSUME NEW l \in Logins, RecordsFailure(l)
      PROVE  LSTypeInv'
  BY <1>4, FailureType, SessionTypes DEF RecordsFailure
<1>5. ASSUME NEW l \in Logins, BeginsChange(l) \/ ChangeSnapshot(l)
      PROVE  LSTypeInv'
  BY <1>5, RowTypes DEF BeginsChange, ChangeSnapshot, NoChange, MayChange
<1>6. ASSUME NEW l \in Logins, CommitsChange(l)
      PROVE  LSTypeInv'
  <2>1. CASE MayChange
    <3>1. user.version.password < MaxPasswords
      BY <1>6, <2>1 DEF CommitsChange, MayChange
    <3>2. user' = [status |-> user.status, failures |-> 0, version |-> NewVersion]
      BY <1>6, <2>1 DEF CommitsChange
    <3>3. NewVersion \in Versions
      BY <3>1, NewVersionType
    <3> QED
      BY <1>6, <2>1, <3>2, <3>3, RowTypes, SessionTypes, LoginAssumption
         DEF CommitsChange, NoChange
  <2>2. CASE ~MayChange
    BY <1>6, <2>2, RowTypes DEF CommitsChange, NoChange
  <2> QED
    BY <2>1, <2>2
<1>7. ASSUME NEW l \in Logins, LogsOut(l)
      PROVE  LSTypeInv'
  BY <1>7 DEF LogsOut
<1>8. CASE LoginLockExpires
  BY <1>8 DEF LoginLockExpires, UserStatuses
<1>9. ASSUME NEW status \in {"active", "disabled"}, SetsStatus(status)
      PROVE  LSTypeInv'
  <2>1. user' = [status |-> status, version |-> user.version,
                failures |-> IF status = "active" THEN 0 ELSE user.failures]
    BY <1>9 DEF SetsStatus
  <2>2. user' \in [status : UserStatuses, failures : 0 .. MaxFailedLoginAttempts,
                   version : Versions]
    BY <2>1, LoginAssumption DEF UserStatuses
  <2>3. OpenBelowLimit'
    BY <2>1, LoginAssumption
  <2> QED
    BY <1>9, <2>2, <2>3, SessionTypes DEF SetsStatus
<1>10. CASE Unlocks
  <2>1. user' = [status |-> "active", failures |-> 0, version |-> user.version]
    BY <1>10 DEF Unlocks
  <2> QED
    BY <1>10, <2>1, LoginAssumption DEF Unlocks, UserStatuses
<1>11. CASE ResetsPassword
  <2>1. user' \in [status : UserStatuses, failures : 0 .. MaxFailedLoginAttempts,
                   version : Versions]
    BY <1>11, NewVersionType, LoginAssumption DEF ResetsPassword, UserStatuses
  <2>2. OpenBelowLimit'
    BY <1>11, LoginAssumption DEF ResetsPassword
  <2> QED
    BY <1>11, <2>1, <2>2, SessionTypes DEF ResetsPassword
<1>12. CASE Deletes
  <2>1. user' = [status |-> "gone", failures |-> user.failures,
                version |-> user.version]
    BY <1>12 DEF Deletes
  <2>2. session' \in [Logins -> [state : {"none", "live", "revoked"},
                                 password : 0 .. MaxPasswords]]
    BY <1>12, RowTypes DEF Deletes
  <2> QED
    BY <1>12, <2>1, <2>2 DEF Deletes, UserStatuses
<1>13. CASE UNCHANGED loginVars
  BY <1>13 DEF loginVars
<1> QED
  BY <1>1, <1>2, <1>3, <1>4, <1>5, <1>6, <1>7, <1>8, <1>9, <1>10, <1>11, <1>12,
     <1>13 DEF LSNext

\* Every variable stays in its range, and the account is locked by the failure that
\* reaches MaxFailedLoginAttempts (RecordLoginFailure), never by a later one.
THEOREM LoginTypeCorrect == LSSpec => []LSTypeInv
<1> QED
  BY LSTypeInit, LSTypeStep, PTL DEF LSSpec

-----------------------------------------------------------------------------
(* SessionsAreCurrent is inductive with the types.                         *)

\* Once the sessions of the user are revoked, none is live.
LEMMA RevokedAreNotLive ==
    ASSUME LSTypeOK
    PROVE  \A l \in Logins : RevokedSessions[l].state # "live"
BY DEF LSTypeOK, RevokedSessions

LEMMA CurrentStep ==
    LSTypeInv /\ SessionsAreCurrent /\ [LSNext]_loginVars => SessionsAreCurrent'
<1> SUFFICES ASSUME LSTypeInv, SessionsAreCurrent, [LSNext]_loginVars
             PROVE  SessionsAreCurrent'
  OBVIOUS
<1> USE DEF SessionsAreCurrent
<1>1. LSTypeOK
  BY DEF LSTypeInv
<1>2. ASSUME NEW l \in Logins,
             \/ \E matches \in BOOLEAN : ReadsUser(l, matches)
             \/ BeginsLogin(l) \/ LoginAborts(l) \/ BeginsChange(l) \/ ChangeSnapshot(l)
      PROVE  SessionsAreCurrent'
  BY <1>2 DEF ReadsUser, BeginsLogin, LoginAborts, BeginsChange, ChangeSnapshot
<1>3. ASSUME NEW l \in Logins, CompletesLogin(l)
      PROVE  SessionsAreCurrent'
  \* The others that are live have the password the transaction has tested.
  <2>1. CASE OpenFor(l) /\ user.version = login[l].read
    <3>1. /\ user'.status = "active"
          /\ user'.version.password = user.version.password
          /\ session' = OpenedSession(l, user.version)
      <4>1. user.version = [password |-> user.version.password,
                            upgraded |-> user.version.upgraded]
        BY <1>1 DEF LSTypeOK, Versions
      <4>2. user' = [status |-> "active", failures |-> 0,
                     version |-> [password |-> user.version.password,
                                  upgraded |-> TRUE]]
        BY <1>1, <1>3, <2>1, <4>1 DEF CompletesLogin, LSTypeOK
      <4> QED
        BY <1>3, <2>1, <4>2 DEF CompletesLogin
    <3> QED
      BY <1>1, <3>1 DEF OpenedSession, LSTypeOK
  <2>2. CASE ~(OpenFor(l) /\ user.version = login[l].read)
    BY <1>3, <2>2 DEF CompletesLogin
  <2> QED
    BY <2>1, <2>2
<1>4. ASSUME NEW l \in Logins, RecordsFailure(l)
      PROVE  SessionsAreCurrent'
  <2>1. CASE user'.status \in {"locked", "expired"}
    BY <1>1, <1>4, <2>1, RevokedAreNotLive DEF RecordsFailure
  <2>2. CASE user'.status \notin {"locked", "expired"}
    \* A live session means an active account, which is left open or revoked.
    <3>1. session' = session /\ user' = AfterFailure(l)
      BY <1>4, <2>2 DEF RecordsFailure
    <3>2. user.status = "active" => user'.status = "active"
      BY <1>1, <2>2, <3>1 DEF AfterFailure, StillLockedFor, LSTypeOK
    <3>3. user'.version = user.version
      BY <3>1, FailureType
    <3> QED
      BY <3>1, <3>2, <3>3
  <2> QED
    BY <2>1, <2>2
<1>5. ASSUME NEW l \in Logins, CommitsChange(l)
      PROVE  SessionsAreCurrent'
  BY <1>1, <1>5, RevokedAreNotLive DEF CommitsChange
<1>6. ASSUME NEW l \in Logins, LogsOut(l)
      PROVE  SessionsAreCurrent'
  BY <1>1, <1>6 DEF LogsOut, LSTypeOK
<1>7. CASE LoginLockExpires \/ Unlocks
  BY <1>7 DEF LoginLockExpires, Unlocks
<1>8. ASSUME NEW status \in {"active", "disabled"}, SetsStatus(status)
      PROVE  SessionsAreCurrent'
  BY <1>1, <1>8, RevokedAreNotLive DEF SetsStatus, LSTypeOK
<1>9. CASE ResetsPassword
  BY <1>1, <1>9, RevokedAreNotLive DEF ResetsPassword
<1>10. CASE Deletes
  BY <1>10 DEF Deletes, NoSessionRow
<1>11. CASE UNCHANGED loginVars
  BY <1>11 DEF loginVars
<1> QED
  BY <1>2, <1>3, <1>4, <1>5, <1>6, <1>7, <1>8, <1>9, <1>10, <1>11 DEF LSNext

\* Whatever logins, failures, password changes and acts of administrators overlap, an
\* unrevoked session belongs to an active account and to its present password
\* (CompleteLogin, RecordLoginFailure, ChangeOwnPassword, SetUserStatus).
THEOREM SessionsStayCurrent == LSSpec => []SessionsAreCurrent
<1>1. LSInit => SessionsAreCurrent
  BY DEF LSInit, SessionsAreCurrent, NoSessionRow
<1>2. LSTypeInv /\ SessionsAreCurrent /\ [LSNext]_loginVars => SessionsAreCurrent'
  BY CurrentStep
<1> QED
  BY <1>1, <1>2, LoginTypeCorrect, PTL DEF LSSpec

-----------------------------------------------------------------------------
(* AdministratorAccounts: the inductive invariant.                          *)

Row == [status : Statuses, failures : 0 .. MaxFailures, admin : BOOLEAN]
Tx == [op : AccountOperations, actor : Users, target : Users, stage : Stages]

AccountsTyped == account \in [Users -> Row] /\ tx \in [Transactions -> {NoTx} \cup Tx]

\* Each lock has one holder.
LocksExclude ==
    \A t, o \in Transactions :
        \/ HoldsAuthorization(t) /\ HoldsAuthorization(o)
        \/ HoldsRow(t) /\ HoldsRow(o) /\ tx[t].target = tx[o].target
        \/ HoldsInvariant(t) /\ HoldsInvariant(o)
        => t = o

\* Who deletes a binding has found it, and keeps others from deleting it.
BindingsStand ==
    \A t \in Transactions :
        tx[t].op = "DeleteRoleBinding" /\ Past(t, {"row", "counted"})
        => account[tx[t].target].admin

\* What was counted stays true as long as the lock is held: there is an administrator
\* besides the one that is about to go.
Removing == {"DeleteUser", "Disable", "DeleteRoleBinding"}

Another(u) == \E v \in Administrators : v # u

CountsStayTrue ==
    \A t \in Transactions :
        tx[t].op \in Removing /\ HoldsInvariant(t) => Another(tx[t].target)

AccountInv ==
    AccountsTyped /\ LocksExclude /\ BindingsStand /\ CountsStayTrue /\ SomeAdministratorRemains

-----------------------------------------------------------------------------
(* The rows and the transactions.                                           *)

\* What a transaction that has begun has.
LEMMA TxFields ==
    ASSUME AccountsTyped, NEW t \in Transactions, tx[t].op # "none"
    PROVE  tx[t] \in Tx
BY DEF AccountsTyped, NoTx

\* An ended transaction holds no lock.
LEMMA EndedHoldsNothing ==
    ASSUME NEW t \in Transactions, tx[t] = NoTx
    PROVE  ~ HoldsAuthorization(t) /\ ~ HoldsRow(t) /\ ~ HoldsInvariant(t)
           /\ ~ Past(t, Stages)
BY DEF HoldsAuthorization, HoldsRow, HoldsInvariant, Past, NoTx

\* More than one administrator means one besides any given.
LEMMA AnotherWhenTwo ==
    ASSUME NEW u, Cardinality(Administrators) > 1
    PROVE  Another(u)
<1> SUFFICES ASSUME \A v \in Administrators : v = u PROVE FALSE
  BY DEF Another
<1>1. Administrators \subseteq {u} /\ IsFiniteSet({u}) /\ Cardinality({u}) = 1
  BY FS_Singleton
<1>2. Cardinality(Administrators) <= 1 /\ Cardinality(Administrators) \in Nat
  BY <1>1, FS_Subset, FS_CardinalityType
<1> QED
  BY <1>2

LEMMA AdministratorsAreCounted == Cardinality(Administrators) \in Nat
<1>1. Administrators \subseteq Users
  BY DEF Administrators
<1>2. IsFiniteSet(Administrators)
  BY <1>1, AccountAssumption, FS_Subset
<1> QED
  BY <1>2, FS_CardinalityType

\* Whether a transaction counts depends on what it holds: the row, and the binding
\* that it deletes.
LEMMA CountsStay ==
    ASSUME AccountsTyped, NEW t \in Transactions, tx'[t] = tx[t], Past(t, {"counted"}),
           LET u == tx[t].target IN
           /\ HoldsRow(t) => /\ account'[u].status = account[u].status
                             /\ account'[u].failures = account[u].failures
           /\ tx[t].op = "DeleteRoleBinding" => account'[u].admin = account[u].admin
    PROVE  Counts(t)' <=> Counts(t)
<1>1. tx[t] \in Tx
  BY TxFields DEF Past
<1>2. CASE tx[t].op \in {"DeleteRoleBinding", "CreateRoleBinding"}
  BY <1>2 DEF Counts
<1>3. CASE tx[t].op \notin {"DeleteRoleBinding", "CreateRoleBinding"}
  <2>1. HoldsRow(t)
    BY <1>3 DEF HoldsRow, LocksRow, Past
  <2> QED
    BY <1>3, <2>1 DEF Counts, MayLock
<1> QED
  BY <1>2, <1>3

LEMMA AccountInit == AAInit => AccountInv
<1> SUFFICES ASSUME AAInit PROVE AccountInv
  OBVIOUS
<1>1. AccountsTyped
  <2>1. [status |-> "active", failures |-> 0, admin |-> TRUE] \in Row
    BY AccountAssumption DEF Row, Statuses
  <2> QED
    BY <2>1 DEF AAInit, AccountsTyped
<1>2. \A t \in Transactions : tx[t] = NoTx
  BY DEF AAInit
<1>3. LocksExclude /\ CountsStayTrue
  BY <1>2, EndedHoldsNothing DEF LocksExclude, CountsStayTrue
<1>4. BindingsStand
  BY <1>2 DEF BindingsStand, NoTx
<1>5. SomeAdministratorRemains
  BY AccountAssumption DEF AAInit, SomeAdministratorRemains, Administrators
<1> QED
  BY <1>1, <1>3, <1>4, <1>5 DEF AccountInv

-----------------------------------------------------------------------------
(* The steps that change no account.                                        *)

\* What a transaction may come to, given what the others hold.
MayBecome(t, x) ==
    /\ x \in {NoTx} \cup Tx
    /\ x.op \in Administrative /\ x.stage # "begun" =>
         \A o \in Transactions : HoldsAuthorization(o) => o = t
    /\ x.op # "none" /\ LocksRow(x.op) /\ x.stage \in {"row", "counted"} =>
         \A o \in Transactions : HoldsRow(o) /\ tx[o].target = x.target => o = t
    /\ x.op = "DeleteRoleBinding" /\ x.stage \in {"row", "counted"} =>
         account[x.target].admin

LEMMA OneTxMoves ==
    ASSUME AccountInv, NEW t \in Transactions, NEW x, MayBecome(t, x),
           account' = account, tx' = [tx EXCEPT ![t] = x],
           HoldsInvariant(t)' => \A o \in Transactions : HoldsInvariant(o) => o = t,
           HoldsInvariant(t)' /\ x.op \in Removing => Another(x.target)
    PROVE  AccountInv'
<1> USE DEF AccountInv
<1>1. tx'[t] = x /\ \A o \in Transactions : o # t => tx'[o] = tx[o]
  BY DEF AccountsTyped
<1>2. AccountsTyped'
  BY DEF AccountsTyped, MayBecome
<1>3. Administrators' = Administrators /\ \A u : Another(u)' <=> Another(u)
  BY DEF Administrators, Another
<1>4. \A o \in Transactions : o # t =>
        /\ HoldsAuthorization(o)' <=> HoldsAuthorization(o)
        /\ HoldsRow(o)' <=> HoldsRow(o)
        /\ HoldsInvariant(o)' <=> HoldsInvariant(o)
        /\ tx'[o].target = tx[o].target /\ tx'[o].op = tx[o].op
        /\ \A stages : Past(o, stages)' <=> Past(o, stages)
  BY <1>1 DEF HoldsAuthorization, HoldsRow, HoldsInvariant, Past, Counts, MayLock
<1>5. /\ HoldsAuthorization(t)' => \A o \in Transactions : HoldsAuthorization(o) => o = t
      /\ HoldsRow(t)' =>
           \A o \in Transactions : HoldsRow(o) /\ tx[o].target = x.target => o = t
  BY <1>1 DEF MayBecome, HoldsAuthorization, HoldsRow, Past, Stages
<1>6. LocksExclude'
  <2> SUFFICES ASSUME NEW o \in Transactions, NEW p \in Transactions,
                      \/ HoldsAuthorization(o)' /\ HoldsAuthorization(p)'
                      \/ HoldsRow(o)' /\ HoldsRow(p)' /\ tx'[o].target = tx'[p].target
                      \/ HoldsInvariant(o)' /\ HoldsInvariant(p)'
               PROVE  o = p
    BY DEF LocksExclude
  <2>1. CASE o # t /\ p # t
    BY <1>4, <2>1 DEF LocksExclude
  <2>2. CASE o = t
    BY <1>1, <1>4, <1>5, <2>2
  <2>3. CASE p = t
    BY <1>1, <1>4, <1>5, <2>3
  <2> QED
    BY <2>1, <2>2, <2>3
<1>7. BindingsStand'
  <2> SUFFICES ASSUME NEW o \in Transactions, tx'[o].op = "DeleteRoleBinding",
                      tx'[o].stage \in {"row", "counted"}
               PROVE  account[tx'[o].target].admin
    BY DEF BindingsStand, Past
  <2> QED
    BY <1>1 DEF BindingsStand, Past, MayBecome
<1>8. CountsStayTrue'
  <2> SUFFICES ASSUME NEW o \in Transactions, tx'[o].op \in Removing, HoldsInvariant(o)'
               PROVE  Another(tx'[o].target)
    BY <1>3 DEF CountsStayTrue
  <2> QED
    BY <1>1, <1>4 DEF CountsStayTrue
<1>9. SomeAdministratorRemains'
  BY <1>3 DEF SomeAdministratorRemains
<1> QED
  BY <1>2, <1>6, <1>7, <1>8, <1>9

\* A transaction ends.
LEMMA EndsTxStep ==
    ASSUME AccountInv, NEW t \in Transactions, EndsTx(t), account' = account
    PROVE  AccountInv'
<1>1. MayBecome(t, NoTx)
  BY DEF MayBecome, NoTx, Administrative
<1>2. tx'[t] = NoTx
  BY DEF AccountInv, AccountsTyped, EndsTx
<1>3. ~ HoldsInvariant(t)'
  BY <1>2 DEF HoldsInvariant, Past, NoTx
<1> QED
  BY <1>1, <1>3, OneTxMoves DEF EndsTx

\* A transaction goes on to a stage, with the locks that it stands for.
LEMMA StageStep ==
    ASSUME AccountInv, NEW t \in Transactions, NEW stage \in Stages, tx[t] \in Tx,
           Stage(t, stage), account' = account,
           MayBecome(t, [tx[t] EXCEPT !.stage = stage]),
           stage = "counted" /\ Counts(t) =>
             /\ \A o \in Transactions : HoldsInvariant(o) => o = t
             /\ tx[t].op \in Removing => Another(tx[t].target)
    PROVE  AccountInv'
<1> DEFINE x == [tx[t] EXCEPT !.stage = stage]
<1>1. tx' = [tx EXCEPT ![t] = x]
  BY DEF Stage
<1>2. /\ x.op = tx[t].op /\ x.target = tx[t].target /\ x.stage = stage
  BY DEF Tx
<1> HIDE DEF x
<1>3. tx'[t] = x
  BY <1>1 DEF AccountInv, AccountsTyped
<1>4. HoldsInvariant(t)' => stage = "counted" /\ Counts(t)
  BY <1>2, <1>3 DEF HoldsInvariant, Past, Counts, MayLock
<1>5. MayBecome(t, x)
  BY DEF x
<1> QED
  BY <1>1, <1>2, <1>4, <1>5, OneTxMoves

LEMMA StartsTxStep ==
    ASSUME AccountInv, NEW t \in Transactions, NEW op \in AccountOperations,
           NEW a \in Users, NEW u \in Users, StartsTx(t, op, a, u)
    PROVE  AccountInv'
<1> DEFINE x == [op |-> op, actor |-> a, target |-> u, stage |-> "begun"]
<1>1. x \in Tx
  BY DEF Tx, Stages
<1>2. MayBecome(t, x)
  BY <1>1 DEF MayBecome
<1>3. tx' = [tx EXCEPT ![t] = x] /\ account' = account
  BY DEF StartsTx
<1>4. tx'[t].stage = "begun"
  BY <1>3 DEF AccountInv, AccountsTyped
<1>5. ~ HoldsInvariant(t)'
  BY <1>4 DEF HoldsInvariant, Past
<1> QED
  BY <1>2, <1>3, <1>5, OneTxMoves

LEMMA TakesAuthorizationStep ==
    ASSUME AccountInv, NEW t \in Transactions, TakesAuthorization(t)
    PROVE  AccountInv'
<1> DEFINE x == [tx[t] EXCEPT !.stage = "authorized"]
<1>1. tx[t] \in Tx
  BY TxFields DEF AccountInv, TakesAuthorization, Past
<1>2. x \in Tx /\ x.stage = "authorized"
  BY <1>1 DEF Tx, Stages
<1>3. MayBecome(t, x)
  BY <1>2 DEF MayBecome, TakesAuthorization
<1> QED
  BY <1>1, <1>3, StageStep DEF TakesAuthorization, Stages

LEMMA TakesRowStep ==
    ASSUME AccountInv, NEW t \in Transactions, TakesRow(t)
    PROVE  AccountInv'
<1> DEFINE x == [tx[t] EXCEPT !.stage = "row"]
<1>1. account' = account /\ (EndsTx(t) \/ Stage(t, "row"))
  BY DEF TakesRow
<1>2. CASE EndsTx(t)
  BY <1>1, <1>2, EndsTxStep
<1>3. CASE ~ EndsTx(t)
  <2>1. tx[t] \in Tx
    BY TxFields DEF AccountInv, TakesRow, Past
  <2>2. /\ x \in Tx /\ x.op = tx[t].op /\ x.target = tx[t].target /\ x.stage = "row"
    BY <2>1 DEF Tx, Stages
  <2>3. tx[t].op \in Administrative => HoldsAuthorization(t)
    BY DEF TakesRow, HoldsAuthorization, Past, Stages
  <2>4. LocksRow(tx[t].op) => RowFree(tx[t].target)
    BY DEF TakesRow
  <2>5. tx[t].op = "DeleteRoleBinding" => account[tx[t].target].admin
    BY <1>3 DEF TakesRow
  <2> HIDE DEF x
  <2>6. MayBecome(t, x)
    BY <2>2, <2>3, <2>4, <2>5 DEF MayBecome, AccountInv, LocksExclude, RowFree
  <2>7. Stage(t, "row") /\ "row" \in Stages
    BY <1>1, <1>3 DEF Stages
  <2> QED
    BY <1>1, <2>1, <2>6, <2>7, StageStep DEF x
<1> QED
  BY <1>2, <1>3

LEMMA TakesInvariantStep ==
    ASSUME AccountInv, NEW t \in Transactions, TakesInvariant(t)
    PROVE  AccountInv'
<1> DEFINE x == [tx[t] EXCEPT !.stage = "counted"]
           u == tx[t].target
<1>1. account' = account /\ Past(t, {"row"})
  BY DEF TakesInvariant
<1>2. CASE Refused(t)
  BY <1>1, <1>2, EndsTxStep DEF TakesInvariant
<1>3. CASE ~ Refused(t)
  <2>1. tx[t] \in Tx /\ tx[t].stage = "row"
    BY <1>1, TxFields DEF AccountInv, Past
  <2>2. /\ x \in Tx /\ x.op = tx[t].op /\ x.target = tx[t].target /\ x.stage = "counted"
    BY <2>1 DEF Tx, Stages
  <2>3. tx[t].op \in Administrative => HoldsAuthorization(t)
    BY <1>1, <2>1 DEF HoldsAuthorization, Past, Stages
  <2>4. LocksRow(tx[t].op) => HoldsRow(t)
    BY <1>1, <2>1 DEF HoldsRow, Past
  <2>5. tx[t].op = "DeleteRoleBinding" => account[u].admin
    BY <1>1, <2>1 DEF AccountInv, BindingsStand, Past
  <2> HIDE DEF x
  <2>6. MayBecome(t, x)
    BY <2>2, <2>3, <2>4, <2>5 DEF MayBecome, AccountInv, LocksExclude
  <2>7. Stage(t, "counted") /\ "counted" \in Stages
    BY <1>3 DEF TakesInvariant, Stages
  <2>8. Counts(t) => \A o \in Transactions : HoldsInvariant(o) => o = t
    BY DEF TakesInvariant
  <2>9. ASSUME Counts(t), tx[t].op \in Removing
        PROVE  Another(u)
    <3>1. ~ (u \in Administrators /\ Cardinality(Administrators) <= 1)
      <4>1. CASE tx[t].op \in {"DeleteUser", "Disable"}
        <5>1. Refused(t) <=>
                \/ account[u].admin /\ tx[t].actor \notin Administrators
                \/ u \in Administrators /\ Cardinality(Administrators) <= 1
          BY <2>9, <4>1 DEF Refused
        <5> QED
          BY <1>3, <5>1
      <4>2. CASE tx[t].op = "DeleteRoleBinding"
        <5>1. Refused(t) <=>
                \/ account[u].admin /\ tx[t].actor \notin Administrators
                \/ u \in Administrators /\ Cardinality(Administrators) <= 1
                \/ u = tx[t].actor
          BY <4>2 DEF Refused
        <5> QED
          BY <1>3, <5>1
      <4> QED
        BY <2>9, <4>1, <4>2 DEF Removing
    <3>2. CASE u \notin Administrators
      BY <3>2 DEF AccountInv, SomeAdministratorRemains, Another
    <3>3. CASE u \in Administrators
      <4>1. Cardinality(Administrators) > 1
        BY <3>1, <3>3, AdministratorsAreCounted
      <4> QED
        BY <4>1, AnotherWhenTwo
    <3> QED
      BY <3>2, <3>3
  <2> QED
    BY <1>1, <2>1, <2>6, <2>7, <2>8, <2>9, StageStep DEF x
<1> QED
  BY <1>2, <1>3

-----------------------------------------------------------------------------
(* The steps that change an account.                                        *)

LEMMA LockExpiresStep ==
    ASSUME AccountInv, NEW u \in Users, LockExpires(u)
    PROVE  AccountInv'
<1> USE DEF AccountInv
<1> DEFINE row == [account[u] EXCEPT !.status = "expired"]
<1>1. /\ tx' = tx /\ account' = [account EXCEPT ![u].status = "expired"]
      /\ account[u].status = "locked" /\ RowFree(u)
  BY DEF LockExpires
<1>2. /\ row \in Row /\ row.status = "expired" /\ row.admin = account[u].admin
  BY DEF Row, Statuses, AccountsTyped
<1>3. account' = [account EXCEPT ![u] = row]
  BY <1>1
<1> HIDE DEF row
<1>4. account'[u] = row /\ \A v \in Users : v # u => account'[v] = account[v]
  BY <1>3 DEF AccountsTyped
<1>5. AccountsTyped'
  BY <1>1, <1>2, <1>3 DEF AccountsTyped
<1>6. \A t \in Transactions : tx[t].op # "none" => tx[t] \in Tx
  BY TxFields
<1>7. \A v \in Users : account'[v].admin = account[v].admin
  BY <1>2, <1>4
<1>8. \A t \in Transactions : Past(t, {"counted"}) => (Counts(t)' <=> Counts(t))
  <2> SUFFICES ASSUME NEW t \in Transactions, Past(t, {"counted"})
               PROVE  Counts(t)' <=> Counts(t)
    OBVIOUS
  <2>1. tx[t].target \in Users
    BY <1>6 DEF Past, Tx
  <2>2. HoldsRow(t) => tx[t].target # u
    BY <1>1 DEF RowFree
  <2> QED
    BY <1>1, <1>4, <1>7, <2>1, <2>2, CountsStay
<1>9. \A t \in Transactions :
        /\ HoldsAuthorization(t)' <=> HoldsAuthorization(t)
        /\ HoldsRow(t)' <=> HoldsRow(t)
        /\ HoldsInvariant(t)' <=> HoldsInvariant(t)
        /\ \A stages : Past(t, stages)' <=> Past(t, stages)
  BY <1>1, <1>8 DEF HoldsAuthorization, HoldsRow, HoldsInvariant, Past
<1>10. Administrators' = Administrators
  BY <1>1, <1>2, <1>4 DEF Administrators
<1>11. LocksExclude'
  BY <1>1, <1>9 DEF LocksExclude
<1>12. BindingsStand'
  BY <1>1, <1>6, <1>7 DEF BindingsStand, Past, Tx
<1>13. CountsStayTrue' /\ SomeAdministratorRemains'
  BY <1>1, <1>9, <1>10 DEF CountsStayTrue, SomeAdministratorRemains, Another
<1> QED
  BY <1>5, <1>11, <1>12, <1>13

\* What a transaction writes is a row.
LEMMA ChangedIsRow ==
    ASSUME AccountsTyped, NEW t \in Transactions, tx[t] \in Tx
    PROVE  Changed(t) \in Row
<1> DEFINE u == tx[t].target
<1>1. u \in Users /\ account[u] \in Row
  BY DEF AccountsTyped, Tx
<1> HIDE DEF u
<1>2. \A r \in Row, s \in Statuses, f \in 0 .. MaxFailures, b \in BOOLEAN :
        /\ [r EXCEPT !.status = s] \in Row
        /\ [r EXCEPT !.admin = b] \in Row
        /\ [r EXCEPT !.status = s, !.failures = f] \in Row
  <2> TAKE r \in Row, s \in Statuses, f \in 0 .. MaxFailures, b \in BOOLEAN
  <2>1. [r EXCEPT !.status = s] \in Row /\ [r EXCEPT !.admin = b] \in Row
    BY DEF Row
  <2>2. \A q \in Row : [q EXCEPT !.failures = f] \in Row
    BY DEF Row
  <2>3. [[r EXCEPT !.status = s] EXCEPT !.failures = f] \in Row
    BY <2>1, <2>2
  <2> QED
    BY <2>1, <2>3
<1>3. {"active", "locked", "disabled", "gone"} \subseteq Statuses
  BY DEF Statuses
<1>4. 0 \in 0 .. MaxFailures /\ 1 \in 0 .. MaxFailures /\ MaxFailures \in 0 .. MaxFailures
  BY AccountAssumption
<1>5. account[u].failures < MaxFailures => account[u].failures + 1 \in 0 .. MaxFailures
  BY <1>1, AccountAssumption DEF Row
<1>6. FailedLogin(u) \in Row
  BY <1>1, <1>2, <1>3, <1>4, <1>5 DEF FailedLogin
<1>7. Activated(u) \in Row
  BY <1>1, <1>2, <1>3, <1>4 DEF Activated
<1>8. [status |-> "gone", failures |-> 0, admin |-> FALSE] \in Row
  BY <1>3, <1>4 DEF Row
<1>9. /\ [account[u] EXCEPT !.status = "disabled"] \in Row
      /\ [account[u] EXCEPT !.admin = FALSE] \in Row
      /\ [account[u] EXCEPT !.admin = TRUE] \in Row
  BY <1>1, <1>2, <1>3, <1>4
<1> QED
  BY <1>6, <1>7, <1>8, <1>9 DEF Changed, u

LEMMA CommitsTxStep ==
    ASSUME AccountInv, NEW t \in Transactions, CommitsTx(t)
    PROVE  AccountInv'
<1> USE DEF AccountInv
<1> DEFINE u == tx[t].target
           r == Changed(t)
           others == Transactions \ {t}
<1>1. /\ Past(t, {"counted"}) /\ tx[t].op # "none" /\ tx[t].stage = "counted"
      /\ tx[t] \in Tx /\ u \in Users /\ tx[t].op \in AccountOperations
  BY TxFields DEF CommitsTx, Past, Tx
<1>2. r \in Row
  BY <1>1, ChangedIsRow
<1>3. account' = [account EXCEPT ![u] = r] /\ tx' = [tx EXCEPT ![t] = NoTx]
  BY DEF CommitsTx, Writes, EndsTx
<1>4. /\ account'[u] = r
      /\ \A v \in Users : v # u => account'[v] = account[v]
      /\ tx'[t] = NoTx
      /\ \A o \in others : tx'[o] = tx[o]
  BY <1>1, <1>3 DEF AccountsTyped
<1>5. AccountsTyped'
  BY <1>2, <1>3 DEF AccountsTyped
<1>6. \A o \in Transactions : tx[o].op # "none" => tx[o] \in Tx /\ tx[o].target \in Users
  BY TxFields DEF Tx
\* Another transaction that has the row keeps what it has read of it.
<1>7. \A o \in others : HoldsRow(o) /\ tx[o].target = u =>
        r.status = account[u].status /\ r.failures = account[u].failures
  <2> SUFFICES ASSUME NEW o \in others, HoldsRow(o), tx[o].target = u
               PROVE  r.status = account[u].status /\ r.failures = account[u].failures
    OBVIOUS
  <2>1. ~ HoldsRow(t)
    BY DEF LocksExclude
  <2>2. tx[t].op \in {"CreateRoleBinding", "DeleteRoleBinding"}
    BY <1>1, <2>1 DEF HoldsRow, LocksRow, Past
  <2>3. tx[t].op # "CreateRoleBinding"
    BY DEF CommitsTx, RowFree
  <2>4. r = [account[u] EXCEPT !.admin = FALSE]
    BY <2>2, <2>3 DEF Changed
  <2> QED
    BY <1>1, <2>4 DEF AccountsTyped, Row
\* Another administrative change keeps the bindings as they are.
<1>8. (\E o \in others : HoldsAuthorization(o)) => r.admin = account[u].admin
  <2> SUFFICES ASSUME NEW o \in others, HoldsAuthorization(o)
               PROVE  r.admin = account[u].admin
    OBVIOUS
  <2>1. ~ HoldsAuthorization(t)
    BY DEF LocksExclude
  <2>2. tx[t].op \in {"RecordLoginFailure", "CompleteLogin"}
    BY <1>1, <2>1 DEF HoldsAuthorization, Past, Stages, AccountOperations
  <2>3. r = IF tx[t].op = "RecordLoginFailure" THEN FailedLogin(u) ELSE Activated(u)
    BY <2>2 DEF Changed
  <2> QED
    BY <1>1, <2>3 DEF FailedLogin, Activated, AccountsTyped, Row
<1>9. \A o \in others : tx[o].op \in Administrative /\ Past(o, {"row", "counted"})
        => HoldsAuthorization(o)
  BY DEF HoldsAuthorization, Past, Stages
<1>10. \A o \in others : tx[o].op = "DeleteRoleBinding" /\ Past(o, {"row", "counted"})
         => account'[tx[o].target].admin = account[tx[o].target].admin
  BY <1>4, <1>6, <1>8, <1>9 DEF Administrative, Past
<1>11. \A o \in others : Past(o, {"counted"}) => (Counts(o)' <=> Counts(o))
  <2> SUFFICES ASSUME NEW o \in others, Past(o, {"counted"})
               PROVE  Counts(o)' <=> Counts(o)
    OBVIOUS
  <2>1. tx[o].target \in Users
    BY <1>6 DEF Past
  <2>2. HoldsRow(o) => /\ account'[tx[o].target].status = account[tx[o].target].status
                       /\ account'[tx[o].target].failures = account[tx[o].target].failures
    BY <1>4, <1>7, <2>1
  <2>3. tx[o].op = "DeleteRoleBinding"
          => account'[tx[o].target].admin = account[tx[o].target].admin
    BY <1>10 DEF Past
  <2> QED
    BY <1>4, <2>2, <2>3, CountsStay
<1>12. \A o \in others :
         /\ HoldsAuthorization(o)' <=> HoldsAuthorization(o)
         /\ HoldsRow(o)' <=> HoldsRow(o)
         /\ HoldsInvariant(o)' <=> HoldsInvariant(o)
         /\ tx'[o].target = tx[o].target /\ tx'[o].op = tx[o].op
         /\ \A stages : Past(o, stages)' <=> Past(o, stages)
  BY <1>4, <1>11 DEF HoldsAuthorization, HoldsRow, HoldsInvariant, Past
<1>13. ~ HoldsAuthorization(t)' /\ ~ HoldsRow(t)' /\ ~ HoldsInvariant(t)'
       /\ ~ Past(t, {"row", "counted"})'
  BY <1>4 DEF HoldsAuthorization, HoldsRow, HoldsInvariant, Past, NoTx
<1>14. LocksExclude'
  <2> SUFFICES ASSUME NEW o \in Transactions, NEW p \in Transactions,
                      \/ HoldsAuthorization(o)' /\ HoldsAuthorization(p)'
                      \/ HoldsRow(o)' /\ HoldsRow(p)' /\ tx'[o].target = tx'[p].target
                      \/ HoldsInvariant(o)' /\ HoldsInvariant(p)'
               PROVE  o = p
    BY DEF LocksExclude
  <2>1. o \in others /\ p \in others
    BY <1>13
  <2> QED
    BY <1>12, <2>1 DEF LocksExclude
<1>15. BindingsStand'
  <2> SUFFICES ASSUME NEW o \in Transactions, tx'[o].op = "DeleteRoleBinding",
                      Past(o, {"row", "counted"})'
               PROVE  account'[tx'[o].target].admin
    BY DEF BindingsStand
  <2>1. o \in others
    BY <1>13
  <2> QED
    BY <1>10, <1>12, <2>1 DEF BindingsStand
\* An administrator goes only in the transaction that has counted the others.
<1>16. \A v \in Users : v # u => (v \in Administrators' <=> v \in Administrators)
  BY <1>4 DEF Administrators
<1>17. ASSUME u \in Administrators, u \notin Administrators'
       PROVE  HoldsInvariant(t) /\ Another(u)
  <2>1. account[u].status = "active" /\ account[u].admin
    BY <1>17 DEF Administrators
  <2>2. ~ (r.status = "active" /\ r.admin)
    BY <1>1, <1>4, <1>17 DEF Administrators
  <2>3. account[u] \in Row
    BY <1>1 DEF AccountsTyped
  <2>4. CASE tx[t].op \in Removing
    <3>1. Counts(t)
      BY <2>1, <2>4 DEF Counts, Removing
    <3> QED
      BY <1>1, <2>4, <3>1 DEF HoldsInvariant, CountsStayTrue
  <2>5. CASE tx[t].op = "RecordLoginFailure"
    <3>1. r = FailedLogin(u)
      BY <2>5 DEF Changed
    <3>2. MayLock(u) /\ Cardinality(Administrators) > 1
      BY <1>17, <2>1, <2>2, <2>3, <3>1 DEF FailedLogin, Row
    <3>3. Counts(t)
      BY <2>5, <3>2 DEF Counts
    <3> QED
      BY <1>1, <3>2, <3>3, AnotherWhenTwo DEF HoldsInvariant
  <2>6. CASE tx[t].op = "CreateRoleBinding"
    <3>1. r = [account[u] EXCEPT !.admin = TRUE]
      BY <2>6 DEF Changed
    <3> QED
      BY <2>1, <2>2, <2>3, <3>1 DEF Row
  <2>7. CASE tx[t].op \in {"Enable", "UnlockUser", "ResetUserPassword", "CompleteLogin"}
    <3>1. r = Activated(u)
      BY <2>7 DEF Changed
    <3> QED
      BY <2>1, <2>2, <2>3, <3>1 DEF Row, Activated
  <2> QED
    BY <1>1, <2>4, <2>5, <2>6, <2>7 DEF AccountOperations, Administrative, Removing
<1>18. SomeAdministratorRemains'
  <2>1. Administrators \subseteq Users
    BY DEF Administrators
  <2> QED
    BY <1>16, <1>17, <2>1 DEF SomeAdministratorRemains, Another
<1>19. CountsStayTrue'
  <2> SUFFICES ASSUME NEW o \in Transactions, tx'[o].op \in Removing, HoldsInvariant(o)'
               PROVE  \E v \in Administrators' : v # tx'[o].target
    BY DEF CountsStayTrue, Another
  <2>1. o \in others /\ HoldsInvariant(o) /\ tx[o].op \in Removing
    BY <1>12, <1>13
  <2>2. ~ HoldsInvariant(t)
    BY <2>1 DEF LocksExclude
  <2>3. Administrators \subseteq Administrators'
    <3>1. Administrators \subseteq Users
      BY DEF Administrators
    <3> QED
      BY <1>16, <1>17, <2>2, <3>1
  <2>4. PICK v \in Administrators : v # tx[o].target
    BY <2>1 DEF CountsStayTrue, Another
  <2>5. v \in Administrators' /\ v # tx'[o].target
    BY <1>12, <2>1, <2>3, <2>4
  <2> QED
    BY <2>5
<1> QED
  BY <1>5, <1>14, <1>15, <1>18, <1>19

LEMMA AccountStep == AccountInv /\ [AANext]_accountVars => AccountInv'
<1> SUFFICES ASSUME AccountInv, [AANext]_accountVars PROVE AccountInv'
  OBVIOUS
<1>1. ASSUME NEW t \in Transactions, NEW op \in AccountOperations,
             NEW a \in Users, NEW u \in Users, StartsTx(t, op, a, u)
      PROVE  AccountInv'
  BY <1>1, StartsTxStep
<1>2. ASSUME NEW t \in Transactions, TakesAuthorization(t) PROVE AccountInv'
  BY <1>2, TakesAuthorizationStep
<1>3. ASSUME NEW t \in Transactions, TakesRow(t) PROVE AccountInv'
  BY <1>3, TakesRowStep
<1>4. ASSUME NEW t \in Transactions, TakesInvariant(t) PROVE AccountInv'
  BY <1>4, TakesInvariantStep
<1>5. ASSUME NEW t \in Transactions, CommitsTx(t) PROVE AccountInv'
  BY <1>5, CommitsTxStep
<1>6. ASSUME NEW t \in Transactions, RollsBack(t) PROVE AccountInv'
  BY <1>6, EndsTxStep DEF RollsBack
<1>7. ASSUME NEW u \in Users, LockExpires(u) PROVE AccountInv'
  BY <1>7, LockExpiresStep
<1>8. CASE UNCHANGED accountVars
  BY <1>8 DEF accountVars, AccountInv, AccountsTyped, LocksExclude, BindingsStand, CountsStayTrue,
     SomeAdministratorRemains, HoldsAuthorization, HoldsRow, HoldsInvariant, Past, Counts,
     MayLock, Another, Administrators
<1> QED
  BY <1>1, <1>2, <1>3, <1>4, <1>5, <1>6, <1>7, <1>8 DEF AANext

-----------------------------------------------------------------------------
(* AdministratorAccounts: the theorems.                                     *)

\* The transactions of pkg/server/store over accounts: rows and transactions keep
\* their types, the count of failed logins its limit.
THEOREM AccountTypeCorrect == AASpec => []AATypeOK
<1>1. AccountInv => AATypeOK
  BY DEF AccountInv, AccountsTyped, AATypeOK, Row, Tx
<1> QED
  BY <1>1, AccountInit, AccountStep, PTL DEF AASpec

\* ensureNotLastGlobalAdmin and the lockable CTE of RecordLoginFailure: however many
\* deletions, disablings, unbindings and lockouts of different administrators
\* overlap, one who can sign in remains.
THEOREM AdministratorRemains == AASpec => []SomeAdministratorRemains
<1>1. AccountInv => SomeAdministratorRemains
  BY DEF AccountInv
<1> QED
  BY <1>1, AccountInit, AccountStep, PTL DEF AASpec
=============================================================================
