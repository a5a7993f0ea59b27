--------------------------- MODULE TerminalSession ---------------------------
(*****************************************************************************)
(* A session of the cluster terminal, from the Server that asks for it       *)
(* (pkg/server/clusterterminal/service.go) to the objects the Agent makes    *)
(* in the Cluster, one call of the API server after the other                *)
(* (pkg/agent/kubernetes_terminal_session.go): a ServiceAccount, roles, a    *)
(* RoleBinding per Namespace, a ClusterRoleBinding and a Pod.                *)
(*                                                                           *)
(* The identifier of a session is computed from its idempotency key, so one  *)
(* session may be created and deleted by several requests at a time.  The    *)
(* roles stand for all four ClusterRoles, the RoleBindings for one another.  *)
(* The Pod exists at most as long as the session (activeDeadlineSeconds).    *)
(*                                                                           *)
(* Bounds: one request per handler, MaxCallFailures failed calls of the API  *)
(* server, MaxCrashes of the Agent.                                          *)
(*****************************************************************************)
EXTENDS Naturals, Sequences, FiniteSets

CONSTANTS
    TerminalRequests,  \* requests of the Server about this session, at a time
    Janitor,           \* runTerminalSessionJanitor
    ServerGivesUp,     \* the Server may stop waiting for a CREATE
    MaxCallFailures, MaxCrashes

ASSUME JanitorServesNobody == Janitor \notin TerminalRequests

Workers == TerminalRequests \cup {Janitor}

\* The calls of createKubernetesTerminalSession and of
\* deleteKubernetesTerminalSession, in their order; a creation first lists Namespaces
\* and roles, to decide what to grant.
Creating == <<"list", "account", "roles", "bindings", "clusterBinding", "pod">>
Deleting == <<"pod", "clusterBinding", "list", "bindings", "roles", "account">>
RBAC == {"roles", "bindings", "clusterBinding"}

VARIABLES
    objects,      \* what exists in the Cluster
    worker,       \* what each request and the janitor of the Agent is doing
    wanted,       \* what the Server does with the session
    outlived,     \* zke.io/expires-at has passed
    failures, crashes

tsVars == <<objects, worker, wanted, outlived, failures, crashes>>

AtRest == [does |-> "nothing"]
Begun(what) == [does |-> what, next |-> 1, listed |-> FALSE, canceled |-> FALSE]

TSInit ==
    /\ objects = {} /\ worker = [w \in Workers |-> AtRest]
    /\ wanted = "no" /\ outlived = FALSE
    /\ failures = 0 /\ crashes = 0

\* Create and CreateCommandSession.
AsksForCreation(h) ==
    /\ wanted = "no" /\ ~outlived /\ worker[h] = AtRest
    /\ wanted' = "asked"
    /\ worker' = [worker EXCEPT ![h] = Begun("create")]
    /\ UNCHANGED <<objects, outlived, failures, crashes>>

\* The Server waits no longer: its caller has gone, the time is up, or the answer
\* is lost.  CreateCommandSession asks for the deletion at once; Create leaves it to
\* the Agent, and may be called again for the same session.
GivesUp(h) ==
    /\ ServerGivesUp /\ wanted = "asked"
    /\ worker' = [w \in Workers |->
         IF worker[w].does = "create" THEN [worker[w] EXCEPT !.canceled = TRUE]
         ELSE IF w = h /\ worker[w] = AtRest THEN Begun("delete") ELSE worker[w]]
    /\ wanted' = IF worker[h] = AtRest THEN "over" ELSE "no"
    /\ UNCHANGED <<objects, outlived, failures, crashes>>

\* Finish and FinishCommandSession.
AsksForDeletion(h) ==
    /\ wanted = "ready" /\ worker[h] = AtRest
    /\ wanted' = "over"
    /\ worker' = [worker EXCEPT ![h] = Begun("delete")]
    /\ UNCHANGED <<objects, outlived, failures, crashes>>

\* A call of createKubernetesTerminalSession.  That the object exists is no error;
\* but the API server admits no Pod without its ServiceAccount.
CreatesObject(w) ==
    LET object == Creating[worker[w].next] IN
    /\ worker[w].does = "create" /\ worker[w].next <= Len(Creating)
    /\ object = "pod" => "account" \in objects
    /\ objects' = objects \cup ({object} \ {"list"})
    /\ worker' = [worker EXCEPT ![w].next = @ + 1]
    /\ UNCHANGED <<wanted, outlived, failures, crashes>>

\* The Pod runs, and the Server is told.
CreationSucceeds(w) ==
    /\ worker[w].does = "create" /\ worker[w].next > Len(Creating)
    /\ "pod" \in objects
    /\ worker' = [worker EXCEPT ![w] = AtRest]
    /\ wanted' = IF wanted = "asked" /\ ~worker[w].canceled THEN "ready" ELSE wanted
    /\ UNCHANGED <<objects, outlived, failures, crashes>>

\* The lists fail: nothing has been created, and nothing is deleted.
PreparationFails(w) ==
    /\ worker[w].does = "create" /\ worker[w].next = 1
    /\ \/ worker[w].canceled /\ UNCHANGED failures
       \/ failures < MaxCallFailures /\ failures' = failures + 1
    /\ worker' = [worker EXCEPT ![w] = AtRest]
    /\ wanted' = IF wanted = "asked" /\ ~worker[w].canceled THEN "no" ELSE wanted
    /\ UNCHANGED <<objects, outlived, crashes>>

\* A call fails, its context is done, or the Pod does not come up: what was created
\* is deleted, in a context of its own.
CreationFails(w) ==
    /\ worker[w].does = "create" /\ worker[w].next > 1
    /\ \/ /\ worker[w].canceled
          /\ UNCHANGED failures
       \/ /\ "account" \notin objects /\ worker[w].next = Len(Creating)
          /\ UNCHANGED failures
       \/ /\ worker[w].next > Len(Creating) /\ "pod" \notin objects
          /\ UNCHANGED failures
       \/ /\ failures < MaxCallFailures /\ failures' = failures + 1
    /\ worker' = [worker EXCEPT ![w] = Begun("undo")]
    /\ UNCHANGED <<objects, wanted, outlived, crashes>>

\* A call of deleteKubernetesTerminalSession.  One that fails is noted, and the next
\* is made all the same.  RoleBindings are deleted as they were listed.
DeletesObject(w) ==
    LET object == Deleting[worker[w].next] IN
    /\ worker[w].does \in {"delete", "undo", "clean"}
    /\ worker[w].next <= Len(Deleting)
    /\ \/ /\ objects' = IF object = "bindings" /\ ~worker[w].listed THEN objects
                        ELSE objects \ {object}
          /\ worker' = [worker EXCEPT ![w].next = @ + 1,
                          ![w].listed = IF object = "list" THEN "bindings" \in objects
                                        ELSE @]
          /\ UNCHANGED failures
       \/ /\ failures < MaxCallFailures /\ failures' = failures + 1
          /\ worker' = [worker EXCEPT ![w].next = @ + 1]
          /\ UNCHANGED objects
    /\ UNCHANGED <<wanted, outlived, crashes>>

\* The handler answers.  What went wrong with a deletion, nobody asks.
DeletionEnds(w) ==
    /\ worker[w].does \in {"delete", "undo", "clean"}
    /\ worker[w].next > Len(Deleting)
    /\ worker' = [worker EXCEPT ![w] = AtRest]
    /\ wanted' = IF worker[w].does = "undo" /\ wanted = "asked" THEN "no" ELSE wanted
    /\ UNCHANGED <<objects, outlived, failures, crashes>>

\* Faulty: looks for Pods, which may be gone before the rest.
JanitorFindsPods ==
    /\ worker[Janitor] = AtRest
    /\ outlived /\ "pod" \in objects
    /\ worker' = [worker EXCEPT ![Janitor] = Begun("clean")]
    /\ UNCHANGED <<objects, wanted, outlived, failures, crashes>>

\* cleanExpiredTerminalSessions finds a session by its ServiceAccount.
JanitorFinds ==
    /\ worker[Janitor] = AtRest
    /\ outlived /\ "account" \in objects
    /\ worker' = [worker EXCEPT ![Janitor] = Begun("clean")]
    /\ UNCHANGED <<objects, wanted, outlived, failures, crashes>>

\* Requests are over long before a session is.
SessionLapses ==
    /\ ~outlived /\ \A h \in TerminalRequests : worker[h] = AtRest
    /\ outlived' = TRUE
    /\ UNCHANGED <<objects, worker, wanted, failures, crashes>>

AgentDies ==
    /\ crashes < MaxCrashes /\ crashes' = crashes + 1
    /\ worker' = [w \in Workers |-> AtRest]
    /\ wanted' = IF wanted = "asked" THEN "no" ELSE wanted
    /\ UNCHANGED <<objects, outlived, failures>>

WorkerStep(w) ==
    \/ CreatesObject(w) \/ CreationSucceeds(w)
    \/ PreparationFails(w) \/ CreationFails(w)
    \/ DeletesObject(w) \/ DeletionEnds(w)

TSNext ==
    \/ \E h \in TerminalRequests : AsksForCreation(h) \/ GivesUp(h) \/ AsksForDeletion(h)
    \/ \E w \in Workers : WorkerStep(w)
    \/ JanitorFinds \/ SessionLapses \/ AgentDies

TSFairness ==
    /\ \A w \in Workers : WF_tsVars(WorkerStep(w))
    /\ WF_tsVars(JanitorFinds)

TSSpec == TSInit /\ [][TSNext]_tsVars /\ TSFairness

TSTypeOK ==
    /\ objects \subseteq {"account", "pod"} \cup RBAC
    /\ \A w \in Workers : worker[w] = AtRest \/
         worker[w].does \in (IF w = Janitor THEN {"clean"} ELSE {"create", "delete", "undo"})
    /\ wanted \in {"no", "asked", "ready", "over"}

\* An outlived session grants nothing in the end, although calls fail, requests
\* overlap and the Agent dies: the ServiceAccount is gone, or its grants are.
Grants ==
    /\ {"account", "roles"} \subseteq objects
    /\ objects \cap {"bindings", "clusterBinding"} # {}
ExpiredGrantsNothing == outlived ~> []~Grants
=============================================================================
