----------------------------- MODULE MCServices -----------------------------
(***************************************************************************)
(* The safety of the services that keep state of their own, in one run:    *)
(* the initial state chooses which of them moves, and the others rest.     *)
(* They share nothing but the process they run in, so that a behaviour of  *)
(* one is a behaviour of it whatever the others do.  Turns are looked at   *)
(* twice: all that happens to the turns of one session, and the starts     *)
(* alone of three sessions that compete for the last turn of a quota.      *)
(***************************************************************************)
EXTENDS AITurns, MutationReplay, PodAccess, TerminalSession, RowLocks,
        AdministratorAccounts, ResourceCache, ClusterLimiter, MetricsForwarding,
        LoginSessions, ClusterOverview, TLC

CONSTANTS s1, s2, s3, u1, u2, p1, p2, k1, k2, k3

VARIABLE focus

metricsVars == <<clVars, mfVars>>
readVars == <<cacheVars, overviewVars>>
userVars == <<accountVars, loginVars>>

servicesVars == <<focus, aiVars, mrVars, paVars, tsVars, lockVars, userVars,
                  readVars, metricsVars>>

\* Two turns of one session, with one step each, and one of the others.
TurnsOfSessions == s1 :> 2 @@ s2 :> 1 @@ s3 :> 1
OneStep == [main |-> 1]

\* Only the first session is used, or sessions do nothing but start.
FirstSessionOnly ==
    /\ \A r \in TurnRequests : request[r].pc = "checked" => request[r].session = s1
    /\ \A s \in AISessions \ {s1} : aiRow[s].mode = "full"

StartsOnly ==
    /\ \A l \in Lanes : lane[l].pc \in {"none", "begin"}
    /\ \A t \in Turns : turnCtx[t] = "live"
    /\ changes = 0 /\ aiFaults = 0

\* Two users and two Pods; the second request takes the place of the first.
PodRequests == k1 :> [user |-> u1, pod |-> p1, replace |-> FALSE]
            @@ k2 :> [user |-> u2, pod |-> p1, replace |-> TRUE]
            @@ k3 :> [user |-> u1, pod |-> p2, replace |-> FALSE]

Services == {"turns", "quota", "mutations", "access", "terminal", "locks",
             "accounts", "logins", "cache", "overview", "limiter", "forwarding"}

ServicesInit ==
    /\ focus \in Services
    /\ AIInit /\ MRInit /\ PAInit /\ TSInit /\ RLInit /\ AAInit /\ RCInit /\ CLInit
    /\ MFInit /\ LSInit /\ COInit
    /\ focus # "cache" => \A o \in Objects : stored[o] = 1

TurnsMove ==
    /\ focus \in {"turns", "quota"}
    /\ AINext
    /\ IF focus = "turns" THEN FirstSessionOnly' ELSE StartsOnly'
    /\ UNCHANGED <<focus, mrVars, paVars, tsVars, lockVars, userVars,
                   readVars, metricsVars>>

MutationsMove ==
    /\ focus = "mutations" /\ MRNext
    /\ UNCHANGED <<focus, aiVars, paVars, tsVars, lockVars, userVars,
                   readVars, metricsVars>>

AccessMoves ==
    /\ focus = "access" /\ PANext
    /\ UNCHANGED <<focus, aiVars, mrVars, tsVars, lockVars, userVars,
                   readVars, metricsVars>>

TerminalMoves ==
    /\ focus = "terminal" /\ TSNext
    /\ UNCHANGED <<focus, aiVars, mrVars, paVars, lockVars, userVars,
                   readVars, metricsVars>>

LocksMove ==
    /\ focus = "locks" /\ RLNext
    /\ UNCHANGED <<focus, aiVars, mrVars, paVars, tsVars, userVars, readVars,
                   metricsVars>>

AccountsMove ==
    /\ focus = "accounts" /\ AANext
    /\ UNCHANGED <<focus, aiVars, mrVars, paVars, tsVars, lockVars, loginVars, readVars,
                   metricsVars>>

LoginsMove ==
    /\ focus = "logins" /\ LSNext
    /\ UNCHANGED <<focus, aiVars, mrVars, paVars, tsVars, lockVars, accountVars,
                   readVars, metricsVars>>

CacheMoves ==
    /\ focus = "cache" /\ RCNext
    /\ UNCHANGED <<focus, aiVars, mrVars, paVars, tsVars, lockVars, userVars,
                   overviewVars, metricsVars>>

OverviewMoves ==
    /\ focus = "overview" /\ CONext
    /\ UNCHANGED <<focus, aiVars, mrVars, paVars, tsVars, lockVars, userVars,
                   cacheVars, metricsVars>>

LimiterMoves ==
    /\ focus = "limiter" /\ CLNext
    /\ UNCHANGED <<focus, aiVars, mrVars, paVars, tsVars, lockVars, userVars,
                   readVars, mfVars>>

ForwardingMoves ==
    /\ focus = "forwarding" /\ MFNext
    /\ UNCHANGED <<focus, aiVars, mrVars, paVars, tsVars, lockVars, userVars,
                   readVars, clVars>>

ServicesNext ==
    \/ TurnsMove \/ MutationsMove \/ AccessMoves
    \/ TerminalMoves \/ LocksMove \/ AccountsMove \/ CacheMoves
    \/ LimiterMoves \/ ForwardingMoves \/ LoginsMove \/ OverviewMoves

ServicesSpec == ServicesInit /\ [][ServicesNext]_servicesVars

\* Every variable of the service that moves stays in its range; the tables of the
\* code stay within their limits.
ServicesTypeOK ==
    CASE focus \in {"turns", "quota"} -> AITypeOK
      [] focus = "mutations" -> MRTypeOK
      [] focus = "access" -> PATypeOK
      [] focus = "terminal" -> TSTypeOK
      [] focus = "locks" -> RLTypeOK
      [] focus = "accounts" -> AATypeOK
      [] focus = "logins" -> LSTypeOK
      [] focus = "cache" -> RCTypeOK
      [] focus = "overview" -> COTypeOK
      [] focus = "limiter" -> CLTypeOK
      [] focus = "forwarding" -> MFTypeOK
=============================================================================
