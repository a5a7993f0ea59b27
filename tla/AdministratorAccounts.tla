----------------------- MODULE AdministratorAccounts -----------------------
(***************************************************************************)
(* The accounts of the global administrators under the transactions that   *)
(* change them (pkg/server/store: access_management.go, auth_audit.go,     *)
(* auth_session.go).  Two advisory locks order them:                       *)
(* lockAuthorizationMutation, held by every administrative change, and     *)
(* lockGlobalAdministratorInvariant, taken by whatever may count the       *)
(* administrators.  A failed login takes only the second, after the row.   *)
(*                                                                         *)
(* A statement reads what has been committed (READ COMMITTED) and the      *)
(* writes of a transaction appear when it commits.  Only holders of the    *)
(* builtin role act here, and passwords are not modelled.                  *)
(***************************************************************************)
EXTENDS Naturals, FiniteSets

CONSTANTS Users,        \* all of them global administrators at first
          Transactions, \* the database connections that run one at a time
          MaxFailures   \* the failed logins that lock an account

\* The bootstrap has made an administrator; the limit is five by default.
ASSUME AccountAssumption ==
    IsFiniteSet(Users) /\ Users # {} /\ MaxFailures \in Nat \ {0}

VARIABLES account, \* the rows of users and their global admin bindings
          tx       \* the transaction on each connection

accountVars == <<account, tx>>

\* "expired" is a locked account whose lock_expires_at has passed.
Statuses == {"active", "locked", "expired", "disabled", "gone"}
Administrative ==
    {"DeleteUser", "Disable", "Enable", "UnlockUser", "ResetUserPassword",
     "DeleteRoleBinding", "CreateRoleBinding"}
AccountOperations ==
    Administrative \cup {"RecordLoginFailure", "CompleteLogin"}
\* The locks a transaction takes before it writes.
Stages == {"begun", "authorized", "row", "counted"}

NoTx == [op |-> "none", actor |-> "none", target |-> "none", stage |-> "begun"]

Administrators ==
    {u \in Users : account[u].status = "active" /\ account[u].admin}

Past(t, stages) == tx[t].op # "none" /\ tx[t].stage \in stages

HoldsAuthorization(t) ==
    tx[t].op \in Administrative /\ Past(t, Stages \ {"begun"})

\* A binding is deleted and granted without the row of its user.
LocksRow(op) == op \notin {"CreateRoleBinding", "DeleteRoleBinding"}
HoldsRow(t) == LocksRow(tx[t].op) /\ Past(t, {"row", "counted"})

\* loginFailureMayLock, with a lock that has not expired excluded before.
MayLock(u) ==
    \/ account[u].status = "expired" /\ 1 >= MaxFailures
    \/ account[u].status = "active" /\ account[u].failures + 1 >= MaxFailures

\* Faulty: the lockout counts on nobody else.
CountsWithoutLockout(t) ==
    LET u == tx[t].target
    IN  \/ tx[t].op \in {"DeleteUser", "UnlockUser", "ResetUserPassword",
                         "CreateRoleBinding"}
        \/ tx[t].op = "DeleteRoleBinding" /\ account[u].admin
        \/ tx[t].op = "Disable" /\ account[u].status = "active"

\* Which transactions ask readGlobalAdministrators for its facts.
Counts(t) ==
    LET u == tx[t].target
    IN  \/ tx[t].op \in {"DeleteUser", "UnlockUser", "ResetUserPassword",
                         "CreateRoleBinding"}
        \/ tx[t].op = "DeleteRoleBinding" /\ account[u].admin
        \/ tx[t].op = "Disable" /\ account[u].status = "active"
        \/ tx[t].op = "RecordLoginFailure" /\ MayLock(u)

HoldsInvariant(t) == Past(t, {"counted"}) /\ Counts(t)

Stage(t, stage) == tx' = [tx EXCEPT ![t].stage = stage]
EndsTx(t) == tx' = [tx EXCEPT ![t] = NoTx]
Writes(u, row) == account' = [account EXCEPT ![u] = row]

AAInit ==
    /\ account = [u \in Users |->
                      [status |-> "active", failures |-> 0, admin |-> TRUE]]
    /\ tx = [t \in Transactions |-> NoTx]

\* An administrator calls; a login needs nobody's authority.
StartsTx(t, op, actor, target) ==
    /\ tx[t].op = "none"
    /\ account[target].status # "gone"
    /\ IF op \in Administrative THEN actor \in Administrators
                                ELSE actor = target
    /\ tx' = [tx EXCEPT ![t] = [op |-> op, actor |-> actor, target |-> target,
                                stage |-> "begun"]]
    /\ UNCHANGED account

\* lockAuthorizationMutation
TakesAuthorization(t) ==
    /\ tx[t].op \in Administrative
    /\ Past(t, {"begun"})
    /\ \A o \in Transactions : ~HoldsAuthorization(o)
    /\ Stage(t, "authorized")
    /\ UNCHANGED account

RowFree(u) ==
    \A o \in Transactions : HoldsRow(o) => tx[o].target # u

\* SELECT ... FOR UPDATE of the account, or of the binding.
TakesRow(t) ==
    LET u == tx[t].target
    IN  /\ Past(t, {IF tx[t].op \in Administrative THEN "authorized"
                                                   ELSE "begun"})
        /\ LocksRow(tx[t].op) => RowFree(u)
        /\ IF \/ account[u].status = "gone"
              \/ tx[t].op = "DeleteUser" /\ account[tx[t].actor].status # "active"
              \/ tx[t].op = "DeleteRoleBinding" /\ ~account[u].admin
              \/ tx[t].op = "Enable" /\ account[u].status \in {"locked", "expired"}
              \/ tx[t].op = "CompleteLogin"
                 /\ account[u].status \notin {"active", "expired"}
           THEN EndsTx(t)
           ELSE Stage(t, "row")
        /\ UNCHANGED account

(***************************************************************************)
(* The facts are read and the transaction goes on or is refused, and the   *)
(* lock is held to its end.  A transaction that needs no facts only tests  *)
(* the authority of the actor over the target.                             *)
(***************************************************************************)
Refused(t) ==
    LET u == tx[t].target
        outsider == account[u].admin /\ tx[t].actor \notin Administrators
    IN  CASE tx[t].op \in {"DeleteUser", "Disable"} /\ Counts(t) ->
                 outsider \/ (u \in Administrators /\ Cardinality(Administrators) <= 1)
          [] tx[t].op = "DeleteRoleBinding" ->
                 \/ outsider
                 \/ u \in Administrators /\ Cardinality(Administrators) <= 1
                 \/ u = tx[t].actor
          [] tx[t].op = "UnlockUser" ->
                 outsider \/ account[u].status \notin {"locked", "expired"}
          [] tx[t].op = "ResetUserPassword" ->
                 outsider \/ account[u].status = "disabled"
          [] tx[t].op = "CreateRoleBinding" -> tx[t].actor \notin Administrators
          [] tx[t].op = "Disable" /\ ~Counts(t) ->
                 outsider /\ u # tx[t].actor /\ account[u].status # "disabled"
          [] tx[t].op = "Enable" ->
                 outsider /\ u # tx[t].actor /\ account[u].status # "active"
          [] OTHER -> FALSE

TakesInvariant(t) ==
    /\ Past(t, {"row"})
    /\ Counts(t) => \A o \in Transactions : ~HoldsInvariant(o)
    /\ IF Refused(t) THEN EndsTx(t) ELSE Stage(t, "counted")
    /\ UNCHANGED account

-----------------------------------------------------------------------------

Activated(u) == [account[u] EXCEPT !.status = "active", !.failures = 0]

\* The failure counts; the account is locked unless it is the last one.
FailedLogin(u) ==
    LET lockable == u \notin Administrators \/ Cardinality(Administrators) > 1
        counted == IF account[u].status = "expired" THEN 1
                   ELSE IF account[u].failures < MaxFailures
                        THEN account[u].failures + 1 ELSE MaxFailures
    IN  CASE account[u].status \in {"disabled", "locked"} -> account[u]
          [] MayLock(u) /\ lockable ->
                 [account[u] EXCEPT !.status = "locked", !.failures = counted]
          [] OTHER ->
                 [account[u] EXCEPT !.status = "active", !.failures = counted]

Changed(t) ==
    LET u == tx[t].target
    IN  CASE tx[t].op = "DeleteUser" ->
                 [status |-> "gone", failures |-> 0, admin |-> FALSE]
          [] tx[t].op = "Disable" -> [account[u] EXCEPT !.status = "disabled"]
          [] tx[t].op = "DeleteRoleBinding" -> [account[u] EXCEPT !.admin = FALSE]
          [] tx[t].op = "CreateRoleBinding" -> [account[u] EXCEPT !.admin = TRUE]
          [] tx[t].op = "RecordLoginFailure" -> FailedLogin(u)
          [] OTHER -> Activated(u)

\* The foreign key of a new binding locks the row of its user.
CommitsTx(t) ==
    /\ Past(t, {"counted"})
    /\ tx[t].op = "CreateRoleBinding" =>
           RowFree(tx[t].target) /\ account[tx[t].target].status # "gone"
    /\ Writes(tx[t].target, Changed(t))
    /\ EndsTx(t)

\* An error, a cancelled request, or PostgreSQL ends a circle of waiters.
RollsBack(t) ==
    /\ tx[t].op # "none"
    /\ EndsTx(t)
    /\ UNCHANGED account

\* A transaction reads the clock once, before it has the row.
LockExpires(u) ==
    /\ account[u].status = "locked"
    /\ RowFree(u)
    /\ account' = [account EXCEPT ![u].status = "expired"]
    /\ UNCHANGED tx

AANext ==
    \/ \E t \in Transactions :
           \/ \E op \in AccountOperations, a, u \in Users : StartsTx(t, op, a, u)
           \/ TakesAuthorization(t)
           \/ TakesRow(t)
           \/ TakesInvariant(t)
           \/ CommitsTx(t)
           \/ RollsBack(t)
    \/ \E u \in Users : LockExpires(u)

AASpec == AAInit /\ [][AANext]_accountVars

AATypeOK ==
    /\ account \in [Users -> [status : Statuses, failures : 0 .. MaxFailures,
                              admin : BOOLEAN]]
    /\ \A t \in Transactions :
           \/ tx[t] = NoTx
           \/ tx[t] \in [op : AccountOperations, actor : Users,
                         target : Users, stage : Stages]

(***************************************************************************)
(* One global administrator who can sign in always remains, although       *)
(* deletions, disablings, unbindings and the lockout after failed logins   *)
(* of different administrators overlap (ensureNotLastGlobalAdmin and the   *)
(* lockable CTE of RecordLoginFailure).                                    *)
(***************************************************************************)
SomeAdministratorRemains == Administrators # {}
=============================================================================
