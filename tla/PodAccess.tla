------------------------------ MODULE PodAccess ------------------------------
(*****************************************************************************)
(* Access to a Pod over HTTP (pkg/server/podaccess/service.go).  A ticket    *)
(* is created, activated once by a browser, and is then the session the      *)
(* cookie of that browser stands for, until it expires, is replaced, or its  *)
(* user loses the permission.                                                *)
(*                                                                           *)
(* A ticket and the session it becomes have one number here; the code draws  *)
(* a new token for the cookie, and tells the two apart as "active" does.     *)
(* An idempotency key stands for one request: clients draw a new one for     *)
(* every other.  Bytes are not counted, and what is remembered of ended      *)
(* sessions does not age.                                                    *)
(*                                                                           *)
(* Bounds: MaxTickets tickets, MaxGrants changes of permissions, and one     *)
(* upstream connection per session at a time (none at all when               *)
(* MaxConnections is 0).                                                     *)
(*****************************************************************************)
EXTENDS Naturals, Sequences, FiniteSets, SequencesExt

CONSTANTS
    Pods,             \* targets: a Cluster and the UID of a Pod
    PARequests,       \* idempotency keys, with
    RequestOf,        \* what is asked under each: a user, a Pod, replace_existing
    MaxPending, MaxActive, MaxConnections,
    MaxTickets, MaxGrants

ASSUME AccessAssumption ==
    /\ PARequests # {} /\ \A k \in PARequests : RequestOf[k].pod \in Pods
    /\ {MaxPending, MaxActive, MaxTickets} \subseteq Nat

PATickets == 1..MaxTickets
PAUsers == {RequestOf[k].user : k \in PARequests}
NoTicket == 0

VARIABLES
    tickets,       \* how many have been drawn
    asked,         \* the idempotency key of each
    pending, active,
    reservations,  \* at most one ticket per Pod, pending (or on its way) or active
    idempotency,   \* what was answered under each key
    ended,         \* why the last sessions ended
    lapsed,        \* tickets whose activation would come too late
    activating,    \* an activation between its two critical sections
    sessionDone,   \* sessions whose context is done
    monitored,     \* sessions whose monitor runs
    upstream,      \* the connection of each session to its Pod
    granted,       \* users that have the permission and their login session
    grants

tables == <<pending, active, reservations, idempotency, ended>>
paVars == <<tickets, asked, tables, lapsed, activating, sessionDone, monitored,
            upstream, granted, grants>>

Unreserved == [key |-> NoTicket, active |-> FALSE]
NotActivating == [pc |-> "none"]

PAInit ==
    /\ tickets = 0 /\ asked \in [PATickets -> {CHOOSE k \in PARequests : TRUE}]
    /\ pending = {} /\ active = {} /\ ended = <<>>
    /\ reservations = [p \in Pods |-> Unreserved]
    /\ idempotency = [k \in PARequests |-> NoTicket]
    /\ lapsed = {} /\ activating = [t \in PATickets |-> NotActivating]
    /\ sessionDone = {} /\ monitored = {}
    /\ upstream = [t \in PATickets |-> "none"]
    /\ granted = PAUsers /\ grants = 0

PodOf(t) == RequestOf[asked[t]].pod
PAUserOf(t) == RequestOf[asked[t]].user

\* rememberEndedLocked, which keeps the last MaxActive.
Remember(log, keys, reason) ==
    LET all == log \o SetToSeq({[key |-> t, reason |-> reason] : t \in keys}) IN
    SubSeq(all, IF Len(all) > MaxActive THEN Len(all) - MaxActive + 1 ELSE 1, Len(all))

\* removeExpiredLocked at a time when the tickets in late have expired: the tables
\* it leaves.
Swept(late) ==
    LET stale == pending \cap late
        over == active \cap sessionDone
    IN [pending |-> pending \ stale,
        active |-> active \ over,
        reservations |-> [p \in Pods |->
            LET r == reservations[p] IN
            IF r.key \in (IF r.active THEN over ELSE stale) THEN Unreserved ELSE r],
        idempotency |-> [k \in PARequests |->
            IF idempotency[k] \in late THEN NoTicket ELSE idempotency[k]],
        ended |-> Remember(ended, over, "expired")]

Becomes(s) ==
    /\ pending' = s.pending /\ active' = s.active /\ reservations' = s.reservations
    /\ idempotency' = s.idempotency /\ ended' = s.ended

\* Create: the answer it gave before, a refusal, or a new ticket, which takes the
\* place of what has the Pod.  (For another request under its key: a conflict.)
Create(k) ==
    LET s == Swept(lapsed)
        pod == RequestOf[k].pod
        r == s.reservations[pod]
        reserved == r.key # NoTicket
        freed == {q \in PARequests : reserved /\ q = asked[r.key]}
        known == {q \in PARequests : s.idempotency[q] # NoTicket}
        t == tickets + 1
        admitted ==
            /\ s.idempotency[k] = NoTicket
            /\ reserved => RequestOf[k].replace
            /\ Cardinality(s.pending \ {r.key}) < MaxPending
            /\ Cardinality(known \ freed) < MaxPending
    IN
    /\ IF admitted
       THEN /\ t \in PATickets
            /\ tickets' = t /\ asked' = [asked EXCEPT ![t] = k]
            /\ Becomes([
                 pending |-> (s.pending \ {r.key}) \cup {t},
                 active |-> s.active \ {r.key},
                 reservations |-> [s.reservations EXCEPT ![pod] =
                                     [key |-> t, active |-> FALSE]],
                 idempotency |-> [q \in PARequests |->
                     IF q = k THEN t
                     ELSE IF q \in freed THEN NoTicket ELSE s.idempotency[q]],
                 ended |-> Remember(s.ended, s.active \cap {r.key}, "replaced")])
            /\ sessionDone' = sessionDone \cup (s.active \cap {r.key})
       ELSE Becomes(s) /\ UNCHANGED <<tickets, asked, sessionDone>>
    /\ UNCHANGED <<lapsed, activating, monitored, upstream, granted, grants>>

\* activation_ttl passes; while it makes a difference.
Lapses(t) ==
    /\ t <= tickets /\ t \notin lapsed
    /\ t \in pending \/ idempotency[asked[t]] = t \/ activating[t].pc # "none"
    /\ lapsed' = lapsed \cup {t}
    /\ UNCHANGED <<tickets, asked, tables, activating, sessionDone, monitored, upstream,
                   granted, grants>>

\* activate takes the ticket out, so that it is used once; or does not find it.
ActivateTakes(t) ==
    LET s == Swept(lapsed) IN
    /\ t <= tickets
    /\ Becomes([s EXCEPT !.pending = @ \ {t}])
    /\ activating' = IF t \in s.pending
                     THEN [activating EXCEPT ![t] = [pc |-> "checking", late |-> lapsed]]
                     ELSE activating
    /\ UNCHANGED <<tickets, asked, lapsed, sessionDone, monitored, upstream, granted,
                   grants>>

\* releasePendingReservation.
ReleasePending(t) ==
    LET held == reservations[PodOf(t)] = [key |-> t, active |-> FALSE] IN
    /\ reservations' = IF held THEN [reservations EXCEPT ![PodOf(t)] = Unreserved]
                       ELSE reservations
    /\ idempotency' = IF held THEN [idempotency EXCEPT ![asked[t]] = NoTicket]
                      ELSE idempotency

\* activate asks, without the lock, for the login and the permission of the user.
\* The answer may also be an error.
ActivateChecks(t) ==
    /\ activating[t].pc = "checking"
    /\ \/ /\ PAUserOf(t) \in granted
          /\ activating' = [activating EXCEPT ![t].pc = "checked"]
          /\ UNCHANGED <<reservations, idempotency>>
       \/ /\ activating' = [activating EXCEPT ![t] = NotActivating]
          /\ ReleasePending(t)
    /\ UNCHANGED <<tickets, asked, pending, active, ended, lapsed, sessionDone,
                   monitored, upstream, granted, grants>>

\* Faulty: does not look at the reservation again.
ActivateEntersAnyway(t) ==
    LET s == Swept(activating[t].late) IN
    /\ activating[t].pc = "checked"
    /\ activating' = [activating EXCEPT ![t] = NotActivating]
    /\ IF Cardinality(s.active) >= MaxActive
       THEN /\ Becomes([s EXCEPT !.reservations[PodOf(t)] = Unreserved])
            /\ UNCHANGED monitored
       ELSE /\ Becomes([s EXCEPT !.active = @ \cup {t},
                         !.reservations[PodOf(t)] = [key |-> t, active |-> TRUE]])
            /\ monitored' = monitored \cup {t}
    /\ UNCHANGED <<tickets, asked, lapsed, sessionDone, upstream, granted, grants>>

\* activate has the lock again, and the time it started at.
ActivateEnters(t) ==
    LET s == Swept(activating[t].late)
        pod == PodOf(t)
    IN
    /\ activating[t].pc = "checked"
    /\ activating' = [activating EXCEPT ![t] = NotActivating]
    /\ IF s.reservations[pod] # [key |-> t, active |-> FALSE]
       THEN Becomes(s) /\ UNCHANGED monitored
       ELSE IF Cardinality(s.active) >= MaxActive
       THEN /\ Becomes([s EXCEPT !.reservations[pod] = Unreserved])
            /\ UNCHANGED monitored
       ELSE /\ Becomes([s EXCEPT !.active = @ \cup {t},
                                 !.reservations[pod] = [key |-> t, active |-> TRUE]])
            /\ monitored' = monitored \cup {t}
    /\ UNCHANGED <<tickets, asked, lapsed, sessionDone, upstream, granted, grants>>

\* Faulty: removes the session and leaves it open.
DeactivateOpen(t, reason) ==
    LET held == reservations[PodOf(t)] = [key |-> t, active |-> TRUE] IN
    /\ active' = active \ {t}
    /\ reservations' = IF t \in active /\ held
                       THEN [reservations EXCEPT ![PodOf(t)] = Unreserved]
                       ELSE reservations
    /\ ended' = Remember(ended, active \cap {t}, reason)
    /\ UNCHANGED <<pending, idempotency, sessionDone>>

\* deactivate: whoever comes first removes the session and closes it.
Deactivate(t, reason) ==
    LET held == reservations[PodOf(t)] = [key |-> t, active |-> TRUE] IN
    /\ active' = active \ {t}
    /\ reservations' = IF t \in active /\ held
                       THEN [reservations EXCEPT ![PodOf(t)] = Unreserved]
                       ELSE reservations
    /\ ended' = Remember(ended, active \cap {t}, reason)
    /\ sessionDone' = sessionDone \cup (active \cap {t})
    /\ UNCHANGED <<pending, idempotency>>

\* The monitor finds the context done, or does not find the permission any more.
MonitorEnds(t) ==
    /\ t \in monitored /\ t \in sessionDone
    /\ monitored' = monitored \ {t}
    /\ Deactivate(t, "expired")
    /\ UNCHANGED <<tickets, asked, lapsed, activating, upstream, granted, grants>>

MonitorRevokes(t) ==
    /\ t \in monitored /\ PAUserOf(t) \notin granted
    /\ monitored' = monitored \ {t}
    /\ Deactivate(t, "revoked")
    /\ UNCHANGED <<tickets, asked, lapsed, activating, upstream, granted, grants>>

\* serveActivation, where the browser has a session already and confirms; resolve,
\* where it is over; fail, where the Pod is not the same any more.
AccessEnds(t) ==
    /\ t \in active
    /\ \/ Deactivate(t, "replaced")
       \/ t \in sessionDone /\ Deactivate(t, "expired")
       \/ upstream[t] = "open" /\ Deactivate(t, "failed")
    /\ UNCHANGED <<tickets, asked, lapsed, activating, monitored, upstream, granted,
                   grants>>

\* The time the user has chosen is over, or the Server shuts down.
SessionExpires(t) ==
    /\ t \in active \ sessionDone
    /\ sessionDone' = sessionDone \cup {t}
    /\ UNCHANGED <<tickets, asked, tables, lapsed, activating, monitored, upstream,
                   granted, grants>>

\* dialContext and acquire: a slot of the session, and then one of the service.
Dials(t) ==
    /\ MaxConnections > 0
    /\ t \in active /\ upstream[t] = "none"
    /\ upstream' = [upstream EXCEPT ![t] = "waiting"]
    /\ UNCHANGED <<tickets, asked, tables, lapsed, activating, sessionDone, monitored,
                   granted, grants>>

Connects(t) ==
    /\ upstream[t] = "waiting"
    /\ Cardinality({u \in PATickets : upstream[u] = "open"}) < MaxConnections
    /\ upstream' = [upstream EXCEPT ![t] = "open"]
    /\ UNCHANGED <<tickets, asked, tables, lapsed, activating, sessionDone, monitored,
                   granted, grants>>

\* The slots are given back: for the context of the session, or because the request
\* or the Pod has closed the connection.
Disconnects(t) ==
    /\ upstream[t] # "none"
    /\ upstream' = [upstream EXCEPT ![t] = "none"]
    /\ UNCHANGED <<tickets, asked, tables, lapsed, activating, sessionDone, monitored,
                   granted, grants>>

ChangesGrant(u) ==
    /\ grants < MaxGrants /\ grants' = grants + 1
    /\ granted' = IF u \in granted THEN granted \ {u} ELSE granted \cup {u}
    /\ UNCHANGED <<tickets, asked, tables, lapsed, activating, sessionDone, monitored,
                   upstream>>

PANext ==
    \/ \E k \in PARequests : Create(k)
    \/ \E t \in PATickets :
         \/ Lapses(t) \/ ActivateTakes(t) \/ ActivateChecks(t) \/ ActivateEnters(t)
         \/ MonitorEnds(t) \/ MonitorRevokes(t) \/ AccessEnds(t) \/ SessionExpires(t)
         \/ Dials(t) \/ Connects(t) \/ Disconnects(t)
    \/ \E u \in PAUsers : ChangesGrant(u)

\* The ticker of a monitor always fires again, and a forwarder returns when the
\* context of its session is done.
PAFairness ==
    \A t \in PATickets :
      /\ WF_paVars(MonitorEnds(t) \/ MonitorRevokes(t))
      /\ WF_paVars(t \in sessionDone /\ Disconnects(t))

PASpec == PAInit /\ [][PANext]_paVars /\ PAFairness

PATypeOK ==
    /\ tickets \in 0..MaxTickets /\ asked \in [PATickets -> PARequests]
    /\ pending \subseteq 1..tickets /\ active \subseteq 1..tickets
    /\ reservations \in [Pods -> [key : 0..tickets, active : BOOLEAN]]
    /\ idempotency \in [PARequests -> 0..tickets]
    /\ Len(ended) <= MaxActive /\ Cardinality(active) <= MaxActive
    /\ Cardinality(pending) <= MaxPending
    /\ upstream \in [PATickets -> {"none", "waiting", "open"}]

\* The three tables agree although an activation leaves the lock between taking its
\* ticket and entering its session: a Pod has one way in at most, which is the last
\* that was created for it, and whose creation a retry is answered with; and a Pod
\* stays reserved only for a ticket or a session that exists.
OnlyLatestAccess ==
    /\ \A t \in pending \cup active :
         /\ reservations[PodOf(t)] = [key |-> t, active |-> t \in active]
         /\ \A u \in (t + 1)..tickets : PodOf(u) = PodOf(t)
              => u \notin pending \cup active /\ activating[u].pc = "none"
    /\ \A t \in pending : idempotency[asked[t]] = t
    /\ \A p \in Pods : LET r == reservations[p] IN
         r.key # NoTicket =>
           /\ PodOf(r.key) = p
           /\ IF r.active THEN r.key \in active
              ELSE r.key \in pending \/ activating[r.key].pc # "none"

\* A user who loses the permission for good loses the session and its connection to
\* the Pod, also one whose activation was under way or which waits for a slot.
RevokedAccessEnds ==
    \A t \in PATickets :
      <>[](PAUserOf(t) \notin granted) => <>[](upstream[t] = "none")
=============================================================================
