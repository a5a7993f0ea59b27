------------------------------- MODULE AITurns -------------------------------
(*****************************************************************************)
(* Turns of an AIOps session: the rows of ai_sessions and ai_turn_runs       *)
(* (pkg/server/store/ai_sessions.go), the loop that drives a turn            *)
(* (pkg/server/airuntime/runtime.go), the branches it delegates to           *)
(* (subtask.go) and the approvals a person answers (approval.go).            *)
(*                                                                           *)
(* A turn is <<session, number>>.  Its loop and its branches are lanes       *)
(* which take the same steps: a step asks the model, admits the one call     *)
(* the model wants, perhaps parks on a person, and makes the call.  Entries  *)
(* of the trail, the compaction of the model's input, retries of the         *)
(* endpoint and the naming of a session are left out; so are batches of      *)
(* calls, which are admitted one after the other.                            *)
(*                                                                           *)
(* All sessions belong to one user and one Project, who share a quota.       *)
(*                                                                           *)
(* Bounds: TurnsOf turns per session, StepsOf steps per lane, MaxChanges     *)
(* changes of mode or permission, MaxTurnFaults crashes and failed writes.   *)
(*****************************************************************************)
EXTENDS Naturals, FiniteSets

CONSTANTS
    AISessions, TurnsOf, StepsOf,
    Branches,      \* branches of a delegation; with them "main"
    TurnRequests,  \* requests that start turns, at a time
    TurnLimit,     \* aiops.quota.daily_turns
    Kinds,         \* what the model may ask for
    EndMayFail,    \* the store may refuse to write the end of a turn
    MaxChanges, MaxTurnFaults

ASSUME TurnAssumption ==
    /\ IsFiniteSet(AISessions) /\ TurnLimit \in Nat
    /\ "main" \notin Branches /\ "free" \notin TurnRequests

Turns == {t \in AISessions \X (1..3) : t[2] <= TurnsOf[t[1]]}
Lanes == Turns \X ({"main"} \cup Branches)
Main(t) == <<t, "main">>
TurnOf(l) == l[1]
IsMain(l) == l[2] = "main"

NoTurn == 0
Modes == {"ask", "assisted", "full"}

VARIABLES
    aiRow,       \* ai_sessions: status, current_turn, archived, approval_mode
    run,         \* ai_turn_runs
    quotaLock,   \* who holds the advisory lock of the user's quota
    request,     \* where a Start is
    jobs,        \* the map of cancel functions: the turn, or NoTurn
    turnCtx,     \* the context of each turn
    lane,        \* where each loop is, with what it has read
    waiting,     \* pendingApprovals: call identifier to the lane it is for
    answer,      \* the channel each lane waits on
    decided,     \* history: what a person was told has been accepted
    performed,   \* history: the calls that were made
    terminal,    \* turns with temporary RBAC in the Cluster
    allowed,     \* the user still has the permissions
    aiServer,    \* "up" or "down"
    changes, aiFaults

rowVars == <<aiRow, run>>
startVars == <<quotaLock, request>>
approvalVars == <<waiting, answer, decided>>
aiBounds == <<changes, aiFaults>>
aiVars == <<rowVars, startVars, jobs, turnCtx, lane, approvalVars, performed,
            terminal, allowed, aiServer, aiBounds>>

NoLane == [pc |-> "none", mode |-> "ask", kind |-> "read", step |-> 0,
           end |-> "failed"]

AIInit ==
    /\ aiRow = [s \in AISessions |->
         [status |-> "idle", turn |-> 0, archived |-> FALSE, mode |-> "full"]]
    /\ run = [t \in Turns |-> "none"]
    /\ quotaLock = "free"
    /\ request = [r \in TurnRequests |-> [pc |-> "idle"]]
    /\ jobs = [s \in AISessions |-> NoTurn]
    /\ turnCtx = [t \in Turns |-> "live"]
    /\ lane = [l \in Lanes |-> NoLane]
    /\ waiting = {} /\ answer = [l \in Lanes |-> "empty"] /\ decided = {}
    /\ performed = {} /\ terminal = {}
    /\ allowed = TRUE /\ aiServer = "up"
    /\ changes = 0 /\ aiFaults = 0

\* requiresApprovalFor.  A delegation is a call like any other, which needs none.
RequiresApproval(kind, mode) ==
    CASE mode = "full" -> FALSE
      [] mode = "assisted" -> kind = "sensitive"
      [] OTHER -> kind \in {"sensitive", "write"}

\* Faulty: the call of a branch carries only the numbers its model gave it.
BareCallID(call) == <<call.turn, call.of, call.number>>

\* qualifiedCallID: models number their calls from one in each conversation, so
\* that the call of a branch carries the name of the branch.
CallOf(l) == [turn |-> TurnOf(l), branch |-> l[2],
              of |-> lane[Main(TurnOf(l))].step, number |-> lane[l].step]
QualifiedCallID(call) == <<call.turn, call.branch, call.of, call.number>>

SessionOf(l) == TurnOf(l)[1]
ContextDone(l) == turnCtx[TurnOf(l)] # "live"
Moves(l, pc) == lane' = [lane EXCEPT ![l].pc = pc]
Repeats(l) ==
    lane' = [lane EXCEPT ![l] = [NoLane EXCEPT !.pc = "step", !.step = lane[l].step]]

\* A turn that ends goes on to FinishTurn; a branch only reports to its turn.
Ends(l, how) ==
    lane' = [lane EXCEPT ![l] = IF IsMain(l)
                                THEN [NoLane EXCEPT !.pc = "finishing", !.end = how]
                                ELSE [NoLane EXCEPT !.pc = "done"]]
\* fail, with the class of the failure.
Fails(l) == Ends(l, IF turnCtx[TurnOf(l)] = "canceled" THEN "canceled" ELSE "failed")

(* Starting a turn *)

\* Start, up to the transaction: no job is running, the user may run AIOps.
StartChecks(r, s) ==
    /\ aiServer = "up" /\ request[r].pc = "idle"
    /\ jobs[s] = NoTurn /\ allowed
    /\ request' = [request EXCEPT ![r] = [pc |-> "checked", session |-> s]]
    /\ UNCHANGED <<rowVars, quotaLock, jobs, turnCtx, lane, approvalVars, performed,
                   terminal, allowed, aiServer, aiBounds>>

\* Turns whose rows count against the quota (queryAIUsage).
TurnsUsed == {t \in Turns : run[t] # "none"}

\* Faulty: reads the usage without the lock.
StartAdmitsUnlocked(r) ==
    /\ request[r].pc = "checked"
    /\ request' = [request EXCEPT ![r] =
         IF Cardinality(TurnsUsed) < TurnLimit THEN [@ EXCEPT !.pc = "admitted"]
         ELSE [pc |-> "idle"]]
    /\ UNCHANGED <<rowVars, quotaLock, jobs, turnCtx, lane, approvalVars, performed,
                   terminal, allowed, aiServer, aiBounds>>

\* StartAITurn takes the advisory lock and reads the usage.
StartAdmits(r) ==
    /\ request[r].pc = "checked" /\ quotaLock = "free"
    /\ IF Cardinality(TurnsUsed) < TurnLimit
       THEN /\ quotaLock' = r
            /\ request' = [request EXCEPT ![r].pc = "admitted"]
       ELSE /\ request' = [request EXCEPT ![r] = [pc |-> "idle"]]   \* ErrAIQuotaExceeded
            /\ UNCHANGED quotaLock
    /\ UNCHANGED <<rowVars, jobs, turnCtx, lane, approvalVars, performed, terminal,
                   allowed, aiServer, aiBounds>>

\* Faulty: opens the turn whatever the session is doing.
StartCommitsAnyway(r) ==
    LET s == request[r].session
        t == <<s, aiRow[s].turn + 1>>
    IN
    /\ request[r].pc = "admitted"
    /\ quotaLock' = "free"
    /\ t \in Turns
    /\ aiRow' = [aiRow EXCEPT ![s].status = "working", ![s].turn = @ + 1]
    /\ run' = [run EXCEPT ![t] = "running"]
    /\ request' = [request EXCEPT ![r] = [pc |-> "opened", turn |-> t]]
    /\ UNCHANGED <<jobs, turnCtx, lane, approvalVars, performed, terminal, allowed,
                   aiServer, aiBounds>>

\* StartAITurn opens the turn if the session is idle, and commits.
StartCommits(r) ==
    LET s == request[r].session
        t == <<s, aiRow[s].turn + 1>>
    IN
    /\ request[r].pc = "admitted"
    /\ quotaLock' = "free"
    /\ IF aiRow[s].status = "idle" /\ ~aiRow[s].archived
       THEN /\ t \in Turns
            /\ aiRow' = [aiRow EXCEPT ![s].status = "working", ![s].turn = @ + 1]
            /\ run' = [run EXCEPT ![t] = "running"]
            /\ request' = [request EXCEPT ![r] = [pc |-> "opened", turn |-> t]]
       ELSE /\ request' = [request EXCEPT ![r] = [pc |-> "idle"]]
            /\ UNCHANGED rowVars
    /\ UNCHANGED <<jobs, turnCtx, lane, approvalVars, performed, terminal, allowed,
                   aiServer, aiBounds>>

\* Start registers the cancel function and sets the loop going.
StartRegisters(r) ==
    LET t == request[r].turn IN
    /\ request[r].pc = "opened"
    /\ request' = [request EXCEPT ![r] = [pc |-> "idle"]]
    /\ jobs' = [jobs EXCEPT ![t[1]] = t[2]]
    /\ lane' = [lane EXCEPT ![Main(t)].pc = "begin"]
    /\ UNCHANGED <<rowVars, quotaLock, turnCtx, approvalVars, performed, terminal,
                   allowed, aiServer, aiBounds>>

(* What the person does meanwhile *)

\* Cancel.
CancelTurn(s) ==
    /\ aiServer = "up" /\ allowed
    /\ jobs[s] # NoTurn
    /\ turnCtx[<<s, jobs[s]>>] = "live"
    /\ turnCtx' = [turnCtx EXCEPT ![<<s, jobs[s]>>] = "canceled"]
    /\ UNCHANGED <<rowVars, startVars, jobs, lane, approvalVars, performed, terminal,
                   allowed, aiServer, aiBounds>>

\* SetAISessionApprovalMode.
SwitchMode(s, mode) ==
    /\ aiServer = "up" /\ changes < MaxChanges
    /\ aiRow[s].status # "deleted" /\ mode # aiRow[s].mode
    /\ aiRow' = [aiRow EXCEPT ![s].mode = mode]
    /\ changes' = changes + 1
    /\ UNCHANGED <<run, startVars, jobs, turnCtx, lane, approvalVars, performed,
                   terminal, allowed, aiServer, aiFaults>>

\* SetAISessionArchived, and DeleteAISessionForInitiator, which takes the rows of
\* the turns along.
ArchiveSession(s) ==
    /\ aiServer = "up" /\ aiRow[s].status = "idle" /\ ~aiRow[s].archived
    /\ aiRow[s].turn > 0
    /\ aiRow' = [aiRow EXCEPT ![s].archived = TRUE]
    /\ UNCHANGED <<run, startVars, jobs, turnCtx, lane, approvalVars, performed,
                   terminal, allowed, aiServer, aiBounds>>

DeleteSession(s) ==
    /\ aiServer = "up" /\ aiRow[s].status = "idle" /\ aiRow[s].archived
    /\ aiRow' = [aiRow EXCEPT ![s].status = "deleted"]
    /\ run' = [t \in Turns |-> IF t[1] = s THEN "none" ELSE run[t]]
    /\ UNCHANGED <<startVars, jobs, turnCtx, lane, approvalVars, performed, terminal,
                   allowed, aiServer, aiBounds>>

\* Decide answers the call of one lane, through its identifier.
Decide(l, decision) ==
    LET call == CallOf(l) IN
    /\ aiServer = "up" /\ allowed /\ lane[l].pc = "parked"
    /\ \E w \in waiting :
         /\ w.id = QualifiedCallID(call)
         /\ waiting' = waiting \ {w}
         /\ answer' = [answer EXCEPT ![w.lane] = decision]
    /\ decided' = decided \cup {[call |-> call, decision |-> decision]}
    /\ UNCHANGED <<rowVars, startVars, jobs, turnCtx, lane, performed, terminal,
                   allowed, aiServer, aiBounds>>

(* The loop of a turn, and of a branch *)

loopFrame == <<rowVars, startVars, jobs, turnCtx, terminal, allowed, aiServer, aiBounds>>

\* run, before the loop: revalidate, and the settings of the model.
LoopBegins(l) ==
    /\ lane[l].pc = "begin"
    /\ Moves(l, "step") \/ Ends(l, "failed")
    /\ UNCHANGED <<loopFrame, approvalVars, performed>>

\* The top of the loop: the budget, the context, the user, and the mode, which is
\* "ask" when it cannot be read (currentMode).
StepBegins(l) ==
    /\ lane[l].pc = "step"
    /\ \/ lane[l].step = StepsOf[l[2]] /\ Ends(l, "failed")
       \/ ContextDone(l) /\ Fails(l)
       \/ ~allowed /\ Ends(l, "failed")
       \/ /\ lane[l].step < StepsOf[l[2]] /\ ~ContextDone(l) /\ allowed
          /\ \E mode \in {aiRow[SessionOf(l)].mode, "ask"} :
               lane' = [lane EXCEPT ![l].pc = "think", ![l].mode = mode,
                                    ![l].step = @ + 1]
    /\ UNCHANGED <<loopFrame, approvalVars, performed>>

\* think, and what the model answers: an error, a conclusion, or one call.
\* delegableSpecs keeps from a branch what changes the Cluster, and delegation.
ModelAnswers(l) ==
    /\ lane[l].pc = "think"
    /\ \/ Ends(l, "succeeded")
       \/ Fails(l)
       \/ \E kind \in IF IsMain(l) THEN Kinds ELSE Kinds \ {"write", "delegate"} :
            lane' = [lane EXCEPT ![l].pc = "admit", ![l].kind = kind]
    /\ UNCHANGED <<loopFrame, approvalVars, performed>>

\* admit, and the opening of an approval, in the place of what has its identifier.
AdmitsCall(l) ==
    LET id == QualifiedCallID(CallOf(l)) IN
    /\ lane[l].pc = "admit"
    /\ \/ ~allowed /\ Repeats(l) /\ UNCHANGED waiting
       \/ /\ allowed /\ RequiresApproval(lane[l].kind, lane[l].mode)
          /\ Moves(l, "parked")
          /\ waiting' = {w \in waiting : w.id # id} \cup {[id |-> id, lane |-> l]}
       \/ /\ allowed /\ ~RequiresApproval(lane[l].kind, lane[l].mode)
          /\ Moves(l, "perform") /\ UNCHANGED waiting
    /\ UNCHANGED <<loopFrame, answer, decided, performed>>

\* awaitApproval returns, and closes the approval.  What has been answered may be
\* dropped for the context or the timer, when both are ready.
ApprovalEnds(l) ==
    /\ lane[l].pc = "parked"
    /\ \/ answer[l] = "approved" /\ Moves(l, "recheck")
       \/ answer[l] = "denied" /\ Repeats(l)
       \/ ContextDone(l) /\ Fails(l)
       \/ Ends(l, "failed")
    /\ waiting' = {w \in waiting : w.id # QualifiedCallID(CallOf(l))}
    /\ answer' = [answer EXCEPT ![l] = "empty"]
    /\ UNCHANGED <<loopFrame, decided, performed>>

\* What admit checks again after an approval.
RechecksUser(l) ==
    /\ lane[l].pc = "recheck"
    /\ IF allowed THEN Moves(l, "perform") ELSE Ends(l, "failed")
    /\ UNCHANGED <<loopFrame, approvalVars, performed>>

\* execute: the call is made, unless the context is done.  A sensitive call of the
\* main line may be a command, for which the turn gets a terminal.
PerformsCall(l) ==
    /\ lane[l].pc = "perform" /\ lane[l].kind # "delegate"
    /\ \/ /\ performed' = performed \cup {[call |-> CallOf(l), kind |-> lane[l].kind,
                                           mode |-> lane[l].mode]}
          /\ terminal' = IF IsMain(l) /\ lane[l].kind = "sensitive"
                         THEN terminal \cup {TurnOf(l)} ELSE terminal
       \/ ContextDone(l) /\ UNCHANGED <<performed, terminal>>
    /\ Repeats(l)
    /\ UNCHANGED <<rowVars, startVars, jobs, turnCtx, approvalVars, allowed, aiServer,
                   aiBounds>>

\* runSubtasks starts the branches, and waits for all of them.
Delegates(l) ==
    /\ lane[l].pc = "perform" /\ lane[l].kind = "delegate"
    /\ lane' = [k \in Lanes |->
         IF k = l THEN [lane[k] EXCEPT !.pc = "delegating"]
         ELSE IF TurnOf(k) = TurnOf(l) THEN [NoLane EXCEPT !.pc = "step"] ELSE lane[k]]
    /\ UNCHANGED <<loopFrame, approvalVars, performed>>

BranchesReturn(l) ==
    /\ lane[l].pc = "delegating"
    /\ \A b \in Branches : lane[<<TurnOf(l), b>>].pc = "done"
    /\ lane' = [k \in Lanes |->
         IF k = l THEN [NoLane EXCEPT !.pc = "step", !.step = lane[k].step]
         ELSE IF TurnOf(k) = TurnOf(l) THEN NoLane ELSE lane[k]]
    /\ UNCHANGED <<loopFrame, approvalVars, performed>>

\* FinishAITurn, by fail or conclude: it ends the current turn of the session,
\* once.  Nobody looks at its error.
FinishesTurn(l) ==
    LET s == SessionOf(l)
        current == <<s, aiRow[s].turn>>
    IN
    /\ lane[l].pc = "finishing"
    /\ \/ /\ IF aiRow[s].status = "working" /\ run[current] = "running"
             THEN /\ run' = [run EXCEPT ![current] = lane[l].end]
                  /\ aiRow' = [aiRow EXCEPT ![s].status = "idle"]
             ELSE UNCHANGED rowVars
          /\ UNCHANGED aiFaults
       \/ /\ EndMayFail /\ aiFaults < MaxTurnFaults /\ aiFaults' = aiFaults + 1
          /\ UNCHANGED rowVars
    /\ Moves(l, "cleanup")
    /\ UNCHANGED <<startVars, jobs, turnCtx, approvalVars, performed, terminal, allowed,
                   aiServer, changes>>

\* The deferred calls of run: CloseTurn, whose error is dropped too, and then the
\* removal of whatever cancel function the session has.  The history of the turn
\* and its context are not needed any more.
ClosesToolTurn(l) ==
    /\ lane[l].pc = "cleanup"
    /\ terminal' = terminal \ {TurnOf(l)}
    /\ Moves(l, "leaving")
    /\ UNCHANGED <<rowVars, startVars, jobs, turnCtx, approvalVars, performed, allowed,
                   aiServer, aiBounds>>

LeavesJobs(l) ==
    /\ lane[l].pc = "leaving"
    /\ jobs' = [jobs EXCEPT ![SessionOf(l)] = NoTurn]
    /\ lane' = [lane EXCEPT ![l] = [NoLane EXCEPT !.pc = "gone"]]
    /\ turnCtx' = [turnCtx EXCEPT ![TurnOf(l)] = "live"]
    /\ decided' = {d \in decided : d.call.turn # TurnOf(l)}
    /\ performed' = {p \in performed : p.call.turn # TurnOf(l)}
    /\ UNCHANGED <<rowVars, startVars, waiting, answer, terminal, allowed, aiServer,
                   aiBounds>>

(* What happens around it *)

\* turn_timeout.
TurnTimesOut(t) ==
    /\ lane[Main(t)].pc \notin {"none", "leaving", "gone"} /\ turnCtx[t] = "live"
    /\ turnCtx' = [turnCtx EXCEPT ![t] = "deadline"]
    /\ UNCHANGED <<rowVars, startVars, jobs, lane, approvalVars, performed, terminal,
                   allowed, aiServer, aiBounds>>

\* The account or its permissions are changed.
ChangesAccess ==
    /\ changes < MaxChanges /\ changes' = changes + 1
    /\ allowed' = ~allowed
    /\ UNCHANGED <<rowVars, startVars, jobs, turnCtx, lane, approvalVars, performed,
                   terminal, aiServer, aiFaults>>

\* The process dies: its transactions are rolled back, the rows stay.
ServerDies ==
    /\ aiServer = "up" /\ aiFaults < MaxTurnFaults
    /\ aiFaults' = aiFaults + 1 /\ aiServer' = "down"
    /\ request' = [r \in TurnRequests |-> [pc |-> "idle"]] /\ quotaLock' = "free"
    /\ jobs' = [s \in AISessions |-> NoTurn]
    /\ lane' = [l \in Lanes |-> IF lane[l].pc = "none" THEN NoLane
                                ELSE [NoLane EXCEPT !.pc = "gone"]]
    /\ turnCtx' = [t \in Turns |-> "live"]
    /\ waiting' = {} /\ answer' = [l \in Lanes |-> "empty"]
    /\ decided' = {} /\ performed' = {}
    /\ UNCHANGED <<rowVars, terminal, allowed, changes>>

\* Faulty: the rows stay as the last process left them.
ServerStartsOver ==
    /\ aiServer = "down" /\ aiServer' = "up"
    /\ UNCHANGED <<rowVars, startVars, jobs, turnCtx, lane, approvalVars, performed,
                   terminal, allowed, aiBounds>>

\* RecoverInterrupted, before anything can start a turn.
ServerStarts ==
    /\ aiServer = "down" /\ aiServer' = "up"
    /\ aiRow' = [s \in AISessions |->
         IF aiRow[s].status = "working" THEN [aiRow[s] EXCEPT !.status = "idle"]
         ELSE aiRow[s]]
    /\ run' = [t \in Turns |->
         IF aiRow[t[1]].status = "working" /\ aiRow[t[1]].turn = t[2] /\ run[t] = "running"
         THEN "failed" ELSE run[t]]
    /\ UNCHANGED <<startVars, jobs, turnCtx, lane, approvalVars, performed, terminal,
                   allowed, aiBounds>>

RequestStep(r) == StartAdmits(r) \/ StartCommits(r) \/ StartRegisters(r)

LaneStep(l) ==
    \/ LoopBegins(l) \/ StepBegins(l) \/ ModelAnswers(l) \/ AdmitsCall(l)
    \/ ApprovalEnds(l) \/ RechecksUser(l) \/ PerformsCall(l) \/ Delegates(l)
    \/ BranchesReturn(l) \/ FinishesTurn(l) \/ ClosesToolTurn(l) \/ LeavesJobs(l)

AINext ==
    \/ \E r \in TurnRequests : RequestStep(r) \/ \E s \in AISessions : StartChecks(r, s)
    \/ \E l \in Lanes : LaneStep(l) \/ \E d \in {"approved", "denied"} : Decide(l, d)
    \/ \E s \in AISessions :
         \/ CancelTurn(s) \/ ArchiveSession(s) \/ DeleteSession(s)
         \/ \E mode \in Modes : SwitchMode(s, mode)
    \/ \E t \in Turns : TurnTimesOut(t)
    \/ ChangesAccess \/ ServerDies \/ ServerStarts

(* What should hold *)

AITypeOK ==
    /\ aiRow \in [AISessions -> [status : {"idle", "working", "deleted"}, turn : Nat,
                                 archived : BOOLEAN, mode : Modes]]
    /\ run \in [Turns -> {"none", "running", "succeeded", "failed", "canceled"}]
    /\ jobs \in [AISessions -> Nat]
    /\ turnCtx \in [Turns -> {"live", "canceled", "deadline"}]
    /\ lane \in [Lanes -> [pc : {"none", "begin", "step", "think", "admit", "parked",
                                 "recheck", "perform", "delegating", "finishing", "done",
                                 "cleanup", "leaving", "gone"},
                           mode : Modes, kind : Kinds \cup {"read"}, step : Nat,
                           end : {"succeeded", "failed", "canceled"}]]
    /\ \A w \in waiting : lane[w.lane].pc = "parked"
    /\ answer \in [Lanes -> {"empty", "approved", "denied"}]

AtWork == {"begin", "step", "think", "admit", "parked", "recheck", "perform",
            "delegating", "finishing"}

\* Entries and endings are written to "the current turn" of a session, without
\* its number.  So whatever works for a turn, its loop or a branch, must work for
\* the current turn of a session at work, and that turn is the only running one:
\* whichever requests raced to start it, and however the last process ended.
WorkBelongsToRunningTurn ==
    /\ \A l \in Lanes : lane[l].pc \in AtWork \cup (IF IsMain(l) THEN {} ELSE {"done"})
         => /\ run[TurnOf(l)] = "running"
            /\ aiRow[SessionOf(l)].turn = TurnOf(l)[2]
    /\ \A t \in Turns : run[t] = "running"
         <=> aiRow[t[1]].status = "working" /\ aiRow[t[1]].turn = t[2]

\* A call that needs a person is made only after that person has approved this
\* very call, and never after a refusal; whichever branches of one turn are parked
\* at the same time, under identifiers their models have chosen alike.
PerformedAsDecided ==
    \A p \in performed :
      /\ RequiresApproval(p.kind, p.mode)
           => [call |-> p.call, decision |-> "approved"] \in decided
      /\ [call |-> p.call, decision |-> "denied"] \notin decided

\* Several sessions that compete for the last turn of the quota do not overrun it.
QuotaHolds == Cardinality(TurnsUsed) <= TurnLimit

\* A turn that was started ends, by its loop, its deadline or the next start of the
\* Server, wherever it is when the process dies; while the store takes its end.
TurnEnds == \A t \in Turns : run[t] = "running" ~> run[t] # "running"

AIFairness ==
    /\ \A r \in TurnRequests : WF_aiVars(RequestStep(r))
    /\ \A l \in Lanes : WF_aiVars(LaneStep(l))
    /\ WF_aiVars(ServerStarts)

AISpec == AIInit /\ [][AINext]_aiVars /\ AIFairness
=============================================================================
