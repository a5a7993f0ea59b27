---------------------------- MODULE GracefulDrain ----------------------------
(***************************************************************************)
(* What draining promises, without locks, timers or slots: the steps of     *)
(* docs/architecture/agent-protocol-phase-2.md, "Accept" section, for a     *)
(* Connection that is replaced.  A replaced session takes no further        *)
(* request, and it is closed when its last request has ended or the drain   *)
(* deadline has passed.                                                     *)
(***************************************************************************)
CONSTANTS Sessions, NoSession, Requests

VARIABLES
    phase,  \* "accepting", "draining" or "closed" (for having been replaced)
    late,   \* sessions whose drain deadline has passed
    task    \* the session each request runs on, or NoSession

drainVars == <<phase, late, task>>

Init ==
    /\ phase = [s \in Sessions |-> "accepting"]
    /\ late = {}
    /\ task = [r \in Requests |-> NoSession]

Busy(s) == \E r \in Requests : task[r] = s

Admit(r, s) ==
    /\ task[r] = NoSession /\ phase[s] = "accepting"
    /\ task' = [task EXCEPT ![r] = s]
    /\ UNCHANGED <<phase, late>>

End(r) ==
    /\ task[r] # NoSession
    /\ task' = [task EXCEPT ![r] = NoSession]
    /\ UNCHANGED <<phase, late>>

Replace(s) ==
    /\ phase[s] = "accepting"
    /\ phase' = [phase EXCEPT ![s] = "draining"]
    /\ UNCHANGED <<late, task>>

Expire(s) ==
    /\ phase[s] = "draining"
    /\ late' = late \cup {s}
    /\ UNCHANGED <<phase, task>>

Close(s) ==
    /\ phase[s] = "draining" /\ (Busy(s) => s \in late)
    /\ phase' = [phase EXCEPT ![s] = "closed"]
    /\ UNCHANGED <<late, task>>

Next ==
    \/ \E r \in Requests, s \in Sessions : Admit(r, s)
    \/ \E r \in Requests : End(r)
    \/ \E s \in Sessions : Replace(s) \/ Expire(s) \/ Close(s)

Spec == Init /\ [][Next]_drainVars
=============================================================================
