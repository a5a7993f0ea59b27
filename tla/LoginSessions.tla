--------------------------- MODULE LoginSessions ---------------------------
(***************************************************************************)
(* The account of one user, its logins and its sessions (pkg/server/auth:  *)
(* service.go; pkg/server/store: auth_session.go, auth_audit.go,           *)
(* auth_user.go, access_management.go).  Login and ChangePassword read the *)
(* user, check the password for as long as that takes, and then run a      *)
(* transaction that tests again, under the lock of the row, what they have *)
(* read; meanwhile the password, the status or the sessions change.        *)
(*                                                                         *)
(* Every transaction locks the row of the user before its other            *)
(* statements, so that each is one action.  Who may administer the account *)
(* and the exception for the last administrator are in                     *)
(* AdministratorAccounts; the ends of a session by time are left out.      *)
(***************************************************************************)
EXTENDS Naturals, FiniteSets

CONSTANTS Logins,       \* login requests; each may make one session
          MaxFailedLoginAttempts, \* the failed logins that lock the account
          MaxPasswords  \* bound: how often the password is replaced

\* NewService puts 5 for a number of failures that is not positive.
ASSUME LoginAssumption ==
    MaxFailedLoginAttempts \in Nat \ {0} /\ MaxPasswords \in Nat

VARIABLES user,     \* the row of users
          login,    \* per login request: how far it is, and the user it has read
          early,    \* the logins whose time is before the end of the last lock
          session,  \* per login request: the row in user_sessions
          change    \* the password change in progress, and the user it has read

loginVars == <<user, login, early, session, change>>

\* "expired" is a locked account whose lock_expires_at has passed.
UserStatuses == {"active", "locked", "expired", "disabled", "gone"}
\* password_hash and password_changed_at; a hash is upgraded to newer parameters.
Versions == [password : 0 .. MaxPasswords, upgraded : BOOLEAN]
NoVersion == [password |-> 0, upgraded |-> FALSE]

NoLogin == [stage |-> "new", read |-> NoVersion]
NoSessionRow == [state |-> "none", password |-> 0]
NoChange == [stage |-> "none", by |-> {}, read |-> NoVersion]

LSInit ==
    /\ user = [status |-> "active", failures |-> 0, version |-> NoVersion]
    /\ login = [l \in Logins |-> NoLogin]
    /\ early = {}
    /\ session = [l \in Logins |-> NoSessionRow]
    /\ change = NoChange

\* revokeUserSessions, and the same statement of the other transactions.
RevokedSessions ==
    [l \in Logins |-> IF session[l].state = "live"
                      THEN [session[l] EXCEPT !.state = "revoked"] ELSE session[l]]
OpenedSession(l, version) ==
    [session EXCEPT ![l] = [state |-> "live", password |-> version.password]]

-----------------------------------------------------------------------------
(* Login.                                                                   *)

\* A request comes in; its time is what a lock is compared with to the end.
BeginsLogin(l) ==
    /\ login[l].stage = "new"
    /\ login' = [login EXCEPT ![l].stage = "begun"]
    /\ UNCHANGED <<user, early, session, change>>

StillLockedFor(l) ==
    user.status = "locked" \/ (user.status = "expired" /\ l \in early)
OpenFor(l) == user.status = "active" \/ (user.status = "expired" /\ l \notin early)

\* Login reads the user and compares the password, which is right or wrong.
ReadsUser(l, matches) ==
    /\ login[l].stage = "begun"
    /\ login' = [login EXCEPT ![l] =
           [stage |-> CASE user.status = "gone" -> "done"
                        [] matches /\ OpenFor(l) -> "completing"
                        [] OTHER -> "rejecting",
            read |-> user.version]]
    /\ UNCHANGED <<user, early, session, change>>

\* Faulty: the transaction goes by what Login has read.
CompletesAsRead(l) ==
    /\ login[l].stage = "completing"
    /\ user.status # "gone"
    /\ login' = [login EXCEPT ![l].stage = "done"]
    /\ user' = [user EXCEPT !.status = "active", !.failures = 0]
    /\ session' = OpenedSession(l, login[l].read)
    /\ UNCHANGED <<early, change>>

\* CompleteLogin: the version and the status are tested under the lock of the row;
\* ErrCredentialsChanged is a failed login.
CompletesLogin(l) ==
    /\ login[l].stage = "completing"
    /\ IF OpenFor(l) /\ user.version = login[l].read
       THEN /\ login' = [login EXCEPT ![l].stage = "done"]
            /\ user' = [user EXCEPT !.status = "active", !.failures = 0,
                                    !.version.upgraded = TRUE]
            /\ session' = OpenedSession(l, user.version)
       ELSE /\ login' = [login EXCEPT ![l].stage = "rejecting"]
            /\ UNCHANGED <<user, session>>
    /\ UNCHANGED <<early, change>>

\* RecordLoginFailure: an account that is disabled, or locked at the time of the
\* request, stays as it is; the first failure after a lock starts the count again.
AfterFailure(l) ==
    LET failures == IF user.status = "expired" THEN 1 ELSE user.failures + 1
    IN  IF StillLockedFor(l) \/ user.status \in {"disabled", "gone"} THEN user
        ELSE [user EXCEPT !.failures = failures,
                          !.status = IF failures >= MaxFailedLoginAttempts THEN "locked"
                                                                ELSE "active"]

RecordsFailure(l) ==
    /\ login[l].stage = "rejecting"
    /\ login' = [login EXCEPT ![l].stage = "done"]
    /\ user' = AfterFailure(l)
    /\ session' = IF user'.status \in {"locked", "expired"}
                  THEN RevokedSessions ELSE session
    /\ UNCHANGED <<early, change>>

\* The client leaves, or the database fails: nothing of the transaction stays.
LoginAborts(l) ==
    /\ login[l].stage \in {"begun", "completing", "rejecting"}
    /\ login' = [login EXCEPT ![l].stage = "done"]
    /\ UNCHANGED <<user, early, session, change>>

\* The time of lock_expires_at comes; requests in progress have an earlier time.
LoginLockExpires ==
    /\ user.status = "locked"
    /\ user' = [user EXCEPT !.status = "expired"]
    /\ early' = early \cup {l \in Logins : login[l].stage \notin {"new", "done"}}
    /\ UNCHANGED <<login, session, change>>

-----------------------------------------------------------------------------
(* Password changes and logout.                                             *)

\* The tests of FindActiveSession that do not go by the clock.
Accepted(l) == session[l].state = "live" /\ user.status = "active"

\* ChangePassword, let in with a session earlier, reads the user and compares the
\* current password.
BeginsChange(l) ==
    /\ change = NoChange
    /\ session[l].state # "none"
    /\ user.status = "active"
    /\ change' = [stage |-> "read", by |-> {l}, read |-> user.version]
    /\ UNCHANGED <<user, login, early, session>>

MayChange == user.status = "active" /\ user.version = change.read

\* ChangeOwnPassword is one UPDATE: that its session is unrevoked is seen in the
\* snapshot of the statement, and not read again after waiting for the row.
ChangeSnapshot(l) ==
    /\ change.stage = "read" /\ change.by = {l}
    /\ user.version.password < MaxPasswords
    /\ change' = IF MayChange /\ session[l].state = "live"
                 THEN [change EXCEPT !.stage = "snapshot"] ELSE NoChange
    /\ UNCHANGED <<user, login, early, session>>

NewVersion == [password |-> user.version.password + 1, upgraded |-> TRUE]

CommitsChange(l) ==
    /\ change.stage = "snapshot" /\ change.by = {l}
    /\ change' = NoChange
    /\ IF MayChange
       THEN /\ user' = [user EXCEPT !.failures = 0, !.version = NewVersion]
            /\ session' = RevokedSessions
       ELSE UNCHANGED <<user, session>>
    /\ UNCHANGED <<login, early>>

LogsOut(l) ==
    /\ Accepted(l)
    /\ session' = [session EXCEPT ![l].state = "revoked"]
    /\ UNCHANGED <<user, login, early, change>>

-----------------------------------------------------------------------------
(* Administrators.                                                          *)

\* SetUserStatus to disabled revokes the sessions, to active refuses a lock.
SetsStatus(status) ==
    /\ user.status # "gone"
    /\ status = "active" => user.status \notin {"locked", "expired"}
    /\ user' = [user EXCEPT !.status = status,
                            !.failures = IF status = "active" THEN 0 ELSE @]
    /\ session' = IF status = "disabled" THEN RevokedSessions ELSE session
    /\ UNCHANGED <<login, early, change>>

Unlocks ==
    /\ user.status \in {"locked", "expired"}
    /\ user' = [user EXCEPT !.status = "active", !.failures = 0]
    /\ UNCHANGED <<login, early, session, change>>

ResetsPassword ==
    /\ user.status \notin {"disabled", "gone"}
    /\ user.version.password < MaxPasswords
    /\ user' = [status |-> "active", failures |-> 0, version |-> NewVersion]
    /\ session' = RevokedSessions
    /\ UNCHANGED <<login, early, change>>

Deletes ==
    /\ user.status # "gone"
    /\ user' = [user EXCEPT !.status = "gone"]
    /\ session' = [l \in Logins |-> NoSessionRow]
    /\ UNCHANGED <<login, early, change>>

LSNext ==
    \/ \E l \in Logins :
           \/ \E matches \in BOOLEAN : ReadsUser(l, matches)
           \/ BeginsLogin(l) \/ CompletesLogin(l) \/ RecordsFailure(l) \/ LoginAborts(l)
           \/ BeginsChange(l) \/ ChangeSnapshot(l) \/ CommitsChange(l)
           \/ LogsOut(l)
    \/ LoginLockExpires
    \/ \E status \in {"active", "disabled"} : SetsStatus(status)
    \/ Unlocks \/ ResetsPassword \/ Deletes

LSSpec == LSInit /\ [][LSNext]_loginVars

LSTypeOK ==
    /\ user \in [status : UserStatuses, failures : 0 .. MaxFailedLoginAttempts, version : Versions]
    /\ login \in [Logins ->
           [stage : {"new", "begun", "completing", "rejecting", "done"},
            read : Versions]]
    /\ early \subseteq Logins
    /\ session \in [Logins -> [state : {"none", "live", "revoked"},
                             password : 0 .. MaxPasswords]]
    /\ change \in [stage : {"none", "read", "snapshot"},
                  by : SUBSET Logins, read : Versions]

(***************************************************************************)
(* Every session that is not revoked belongs to an account that is active, *)
(* and was made with its present password: so a session that was refused   *)
(* because its account was locked or disabled, or its password replaced,   *)
(* does not come back when the account does, whatever login or password    *)
(* change was under way (CompleteLogin and ChangeOwnPassword test again    *)
(* under the lock of the row; whoever closes the account revokes).         *)
(***************************************************************************)
SessionsAreCurrent ==
    \A l \in Logins : session[l].state = "live" =>
        /\ user.status = "active"
        /\ session[l].password = user.version.password
=============================================================================
