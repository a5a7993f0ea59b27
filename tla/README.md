# ZKE in TLA+

ZKE manages Kubernetes clusters from one Server. In every managed cluster an
Agent runs; it registers once, then keeps one QUIC connection to the Server
open, over which the Server sends everything users ask for. This directory
models the parts of it where the difficulty is: who an Agent is and how it stays
connected while its certificate, its Cluster and the Server change; what happens
to the requests on a connection that is going away; and the services that keep
state of their own between requests. Source paths below are relative to the root
of the repository; `manager.go` is `pkg/server/agentconn/manager.go`, and
`store/` is `pkg/server/store/`.

## 1. Inventory

The Server is one process with one PostgreSQL database. The Agent is one process
per cluster (a Deployment with one replica, strategy Recreate) with its identity
in a Kubernetes Secret. Components and their status are also in `PROJECT.json`.

### The Agent and its connection

| component | state | operations | talks to |
|---|---|---|---|
| Agent process (`pkg/agent/agent.go`, `connection.go`, `identity.go`, `errors.go`, `registration.go`) | identity Secret (key, certificate, pending CSR), the process's own copy of it, its connection | enrol, dial, heartbeat, renew, store, reconnect or exit | registration API, QUIC listener, Kubernetes API |
| Connection manager (`manager.go`) | `connections`, `connectionsByCluster`, `lastDisconnected`, `disconnectOrder`, subscribers, admission semaphores, one `session` per connection | handshake, register, unregister, serve heartbeats and renewals, handle revocations, publish events, shut down | credential store, Console streams, request services |
| Sessions (`manager.go`) | `draining`, `businessInFlight`, `drainTimer`, two levels of slots | begin/end of a request, start/finish of a drain | handlers of the same Agent's other connections |
| Credential store (`store/agent_connection.go`, `agent_management.go`) | `agents`, `agent_credentials`, statuses of clusters, projects, tenants | Activate, RecordHeartbeat, RenewCredential, Revoke, LISTEN/NOTIFY | PostgreSQL at READ COMMITTED |
| Enrollment (`pkg/server/enrollment`, `store/agent_enrollment.go`, `enrollment.go`, `enrollment_management.go`) | `enrollments`, `enrollment_attempts` | create, begin, complete, replay, revoke | Agents, administrators |
| Scope lifecycle (`store/resource_lifecycle.go`) | tenants, projects, clusters, and the order of row locks on them | suspend, resume, rename, delete | both of the above, through rows and triggers |
| Console events (`httpapi/agent_events.go`, `agentstatus`) | one bounded channel per stream | receive an event, read the state anew | connection manager |

How they interact: the Agent calls registration over HTTPS and gets an identity;
it dials, the manager's handler checks the certificate and calls Activate, then
registers the session. Heartbeats are written to the database at intervals, which
is where a suspension or a missed revocation is found out. Administrators change
rows; triggers NOTIFY; the manager's watch closes the sessions concerned. A newer
connection of an Agent replaces the older one, which is drained.

What is hard there: several handlers of one Agent overlap; a handshake takes its
decision in the database before it is visible in the registry; maps are changed
under a mutex and acted upon after it; statements at READ COMMITTED decide on a
snapshot; answers, notifications and processes get lost; a rejected connection
must be retried in some cases and must end the process in others.

### The services

Each keeps state between requests, under a mutex or in rows; they share the
process, the database and the Agent's connection, and no state with one another.

| component | state | operations | what is hard |
|---|---|---|---|
| AI turns (`pkg/server/airuntime`, `store/ai_sessions.go`) | rows of sessions and turns, the map of cancel functions, pending approvals, lanes (a loop and its branches) | start, cancel, switch mode, archive, delete, decide, the steps of a lane, recovery at start | two requests start a turn at once; a turn is cancelled, times out or dies wherever it is; approvals of branches whose models choose equal identifiers |
| Mutation replay (`pkg/agent/resource_mutation_cache.go`) | entries in flight or finished, by idempotency key | join, execute, record, evict, expire | a retry overlaps its original; room is made while others wait; the process restarts |
| Pod access (`pkg/server/podaccess/service.go`) | pending tickets, active sessions, reservations, idempotency answers, remembered endings | create, activate, replace, monitor, expire, forward | an activation leaves the lock between taking its ticket and entering its session |
| Pod port forward (`pkg/shared/agentprotocol/portforward.go`, `pkg/server/podaccess/service.go`) | one Stream, two goroutines on each side, byte counters, the connection to the Pod | open, relay both ways, close, limit, cancel, expire | a direction blocks while the other ends; the terminal frame must follow the last data and account for it |
| Cluster terminal (`pkg/server/clusterterminal`, `pkg/agent/kubernetes_terminal_session.go`) | a ServiceAccount, roles, bindings and a Pod in the target cluster | create, delete, undo, the janitor | a sequence of calls that may stop anywhere, by overlapping requests and a process that may die |
| Administrator accounts (`store/access_management.go`, `auth_audit.go`) | users, their global bindings, two advisory locks | delete, disable, unbind, unlock, reset, failed login | each of two transactions leaves the other's administrator as the last one |
| Login sessions (`pkg/server/auth/service.go`, `store/auth_session.go`) | the user row, `user_sessions` | login, failed login, change of password, logout, what administrators do | what is read before the password is compared is stale when the session is written |
| Resource cache (`pkg/agent/resourcecache`) | the objects of a section, their totals, paging sessions | watch events, re-list, first and next page | totals kept by differences; pages over a store that changes |
| Cluster overview (`pkg/server/clusteroverview/service.go`) | entries with a snapshot, its times and its load | get, load, store, sweep | shared, detached and uncached loads that end out of order |
| Cluster limiter (`pkg/server/metricsingest/clusterlimit.go`) | a token bucket and a sketch of series per Cluster | admit, read, prune | windows that turn over, budgets that are forgotten |
| Metrics forwarding (`pkg/agent/metrics_ingest.go`, `pkg/agentprotocol/metrics.go`, `stream.go`) | one shared ingest session, its Stream, the one slot of the Server | acquire, open, send, exchange, discard, detach, attach | requests that fail while another has replaced the session |

`PROJECT.json` lists each hazard at its line, with the properties that watch it.

### Not modelled

* *Translators and text*: the Agent's Kubernetes executors, the resource service and
  manifests, the metrics query guard, installation manifests and platform settings,
  AI tools, skills and models, the HTTP API and its middleware, the Console. They hold
  no state between requests; what could be wrong in them is a matter of single inputs.
* *Streams of bytes*: exec, logs, the proxying of Pod access. What they share, admission
  and draining, is in `SessionDrain`; the relay they resemble is in `PodPortForward`.
* *Helm*: what its caches hold is checked against digests when it is used, so that
  their races cost time and room. Its mutations go through the replay cache.
* *The login limiter* and *Resource watch*: counters of which no interleaving is
  visible to another caller, and a forwarder of what the resource cache answers.
* *The wire framing* and *PKI*: framing has no state beyond one message; keys are made
  once, and signing is an oracle for the models.
* *Audit and retention*: append-only rows and their periodic deletion.

Of the components that are modelled in part, `PROJECT.json` says what is left out.
These exclusions are most of the lines of the program: of some 126 000 lines about
nine tenths translate, validate, render or describe, and a model of them would be a
second program.

## 2. Plan

1. *Done.* `CredentialRotation`, its abstraction of the database and both
   processes; `SessionDrain` with `GracefulDrain`; `ConnectionRegistry`;
   `Enrollment` with `OneTimeGrant`; the proofs of `CredentialRotation`.
2. *Done.* `MutationReplay`.
3. *Done.* `RowLocks`, which settles what the comment of `lockEnrollmentScope` claims.
4. *Done.* `PodAccess`, `AITurns` with approvals, `ResourceCache`, `MetricsForwarding`,
   `ClusterLimiter`, `AdministratorAccounts`, and beyond the first plan
   `TerminalSession`, `LoginSessions`, `ClusterOverview`, `PodPortForward`. The login
   limiter was dropped (see above).
5. *Done: proofs* of the invariants, and of the two refinements, of the modules about
   Agents and their connections, and of the safety of replay, turns, quota, row locks,
   accounts, logins, overviews, the resource cache, Pod access, terminals, port forwards,
   the metrics session and the limiter of a Cluster; and of what the runs of several
   modules check together (section 6).
6. *Left.* Models of the components listed in section 1 as not modelled; liveness and
   ENABLED stay with TLC.

## 3. The modules

Every definition's source is in `PROJECT.json`, `map`. Operators marked `Faulty:`
are wrong versions of the definition after them. They are in no specification:
each shows that a property would notice that mistake.

### CredentialRotation

One Agent, its rows, the manager's side of its connections, and its process.

| state | code |
|---|---|
| `cred`, `expired`, `lifecycle`, `active`, `cluster`, `parent` | `agent_credentials.revoked_at`/`expires_at`, `agents.lifecycle_status`/`active_credential_serial`, `clusters.status`, Project and Tenant together |
| `secretCert`, `secretCsr` | `tls.crt` and the renewal CSR in the identity Secret |
| `phase`, `held`, `sent`, `link` | the Agent process in `runConnectionLoop`/`runConnection` |
| `conn` | per connection: the handler in `handleConnection`, the certificate presented, what was read in the snapshot of Activate, the frame last written to the Agent |
| `current`, `notices`, `watching` | `manager.connections[agent]`, pending NOTIFYs, the LISTEN of `superviseRevocations` |

A credential is identified with its CSR (the unique index
`agent_credentials_agent_csr_unique`), and numbered in the order the CSRs are
made. `Activate` is two actions, `ActivateSnapshot` and `ActivateCommit`, because
PostgreSQL does not read a CTE again after waiting for a row lock. All other
statements lock what they test. How a connection that was refused is classified
(`classifyAgentConnectionRejection`) is read by a statement of its own; the model takes it
that nothing has changed since the refusal. The renewal window is abstracted to "not expired";
heartbeats other than refused ones change nothing that is kept; errors of the
store on a heartbeat end the session like a lost connection (`SessionEnds`).

Two of its properties have the precondition `mishaps = {}`:
`mishaps` records that Activate ran for a connection the Agent process has given up
(a stale handshake), or that the update of the Secret was applied and its answer lost
(the process goes on with the older certificate). After these the code does lose the
stored credential, or record a revoked one as active, and the precondition says so; it
is a history variable, so that the exception is as narrow as possible.

### SessionDrain and GracefulDrain

`GracefulDrain` is the promise of `docs/architecture/agent-protocol-phase-2.md`
for a replaced connection: no new request, closed when idle or past the deadline.
`SessionDrain` is the code: `register`, `startDrain`, `endBusiness` and
`finishDrain` are separate critical sections, the timer may fire while the last
request ends, and a request has found its session before it enters it. It goes on
with the slots of `requestResource`, which the code takes and gives back at two
levels. The refinement maps "closed" to `finished` (drainOnce has run), so a
connection that goes away by itself is no matter of draining.

The document goes on to say that the registry *atomically* switches new requests
to the new connection. In the code a request that looked up the old session just
before it drains is refused with `ErrAgentNotConnected` although the Agent is
connected (`RefusedByDrain`); the caller may retry. `GracefulDrain` does not
promise otherwise.

### ConnectionRegistry

One handler per connection, for several Agents, with the maps, the remembered
disconnects, the events and shutdown. `handleRevocation` and `closeAll` collect
under the mutex and close afterwards: one action that collects, one per session.
When a replaced session is closed is left open here (`CloseReplaced`), as
`SessionDrain` has the details. `cause` (the reason of whoever closed the
connection) and `missed` (events dropped) are history variables.

### Enrollment and OneTimeGrant

`OneTimeGrant` is the promise: one identity per token, none for a void token, and
an installation takes on only an identity made for it, and keeps it. Several tokens may
become void at once, as all those of a name do when a new one is made for it. `Enrollment`
has the rows, the calls with `Begin` and `Complete` in separate transactions, the
Agent process with its Secret, and the administrators. `CreateEnrollment` is two
actions because its INSERT tests names in a snapshot while a `Complete` may commit.
The status `failed` of an attempt is written by no code and is not modelled. Cluster
status `pending` stands for any status but `suspended`, which is all this code
tells apart. An installation is identified with its key, CSR and idempotency key,
which are made together and stored before the first request.

### RowLocks

A transaction of `store/` as the sequence of row and advisory locks it takes on one
Tenant, one Project and two Clusters, with the four modes of PostgreSQL and the
implicit locks of foreign keys; `LocksOf` has one sequence per path of the code that
locks other rows (a completion that is tried again finds its Agent). What it reads and writes is in the two modules above.
PostgreSQL aborts one transaction of a circle (`IsAborted`), which the code reports as
an error. Its queues of waiters are left out: they make a transaction wait for more
than the model shows, never for less.

`OnlyLateCompletionDeadlocks` is about the operations that change the hierarchy and every
path by which an Agent registers in it, that of a completion which read `cluster_id` before
another one filled it included (`CompleteAgain`: `lockEnrollmentScope` then takes no lock of
the Cluster). Such a completion and the deletion of the Cluster lock the enrollment and its
attempt in opposite orders, and wait for each other; nothing else among these operations
does. The comment of `lockEnrollmentScope` names this completion and does not expect the
circle: `LifecycleNeverDeadlocks` says what the comment says, and is refuted (section 4).

Five operations are in the model but not in that set, for they promise no order of their
locks. With them the circles of two are these, each of which costs an error and a retry:

| has, and waits for | waits in a circle with |
|---|---|
| `Activate`, `RecordHeartbeat`: the Agent, and the Cluster | every deletion, which has the Cluster and waits for the Agent |
| `RevokeAgent`: the Agent, and the credential | every deletion, which has the credential and waits for the Agent |
| `CreateEnrollment`: a lapsed enrollment, and the key share of Cluster, Project or Tenant | every deletion that has that row and waits for the enrollment |
| `RenewCredential`: the credential, and the key share of Tenant or Agent | `DeleteTenant`, which has the Tenant and waits for the credential; `RevokeAgent`, which has the Agent and does so |

### AITurns

`aiRow` and `run` are the rows of `ai_sessions` and `ai_turn_runs`; `jobs`, `turnCtx`,
`waiting` and `answer` are the runtime's map of cancel functions, the context of a
turn, `pendingApprovals` and the channels; a *lane* is the loop of a turn or a branch
it delegates to, which take the same steps. `StartAdmits`, `StartCommits` and
`StartRegisters` are apart, for the advisory lock of the quota, the transaction and
the registration of the cancel function are. `ServerDies` loses everything but the
rows, `ServerStarts` is `InterruptRunningTurns`. `decided` and `performed` are
history. Left out: batches of calls (admitted one after the other), the text of
entries, compaction of the model's input, retries of the endpoint, naming.

### MutationReplay

`do` in its steps: join an entry or make one (with eviction), execute, record,
return. Those who wait hold the entry after it has left the map, so they wait for the
call that made it. An execution ends refused before anything changed (the key is given
back), or such that it may have changed the Cluster, and then it has or it has not
(`commits`); the outcome is kept either way. `forgotten` is history: the exception in `PerformedOnce` is exactly what the limits drop.

### PodAccess

A ticket and the session it becomes have one number; an idempotency key stands for
one request. `ActivateTakes`, `ActivateChecks` and `ActivateEnters` are the two
critical sections of an activation with the unlocked check between them. The monitor,
expiry, replacement and the loss of permission all go through `Deactivate`. A creation
that is refused changes nothing but what its sweep of expired entries removes. Cookies, byte counters and the proxied bytes are left out.

### PodPortForward

One forward, from the moment the Server waits for the response of the Agent. A chunk of
bytes is a frame; a direction of the Stream holds `Window` frames before a write blocks
(for the direction to the Server with the two the reader goroutine takes ahead).

| state | code |
|---|---|
| `relay`, `input`, `result` | main loop, input goroutine and return value of `DoPodPortForward` |
| `client` | the end of the pipe that `dialContext` gives to the HTTP transport |
| `handling`, `pump`, `first`, `tunnel` | `servePodPortForward`, its two pumps, `firstErr`, the connection to the Pod |
| `response`, `up`, `down`, `timedOut`, `linkLost` | the Stream |
| `count` | the byte counters of both sides, and three counts of what really passed |

`Leaves` closes one direction only, as `stream.Close` does; that the caller leaves is not
seen by the send pump. When `FirstEnds` (cancel, Close, CancelRead), the other pump may
be in a call that carries a chunk, and goes on until it returns: `ExitEndsTransfer` says
that the Exit frame waits for it and that its totals are what was carried. How the Agent
opens the tunnel, the checks of the Server and the pieces of a write are left out.

### TerminalSession

The objects of one session, created and deleted call by call in the code's order, by
requests that overlap (the identifier is computed from the idempotency key) and by
the janitor, which finds leftovers by their ServiceAccount. Calls may fail and the
Agent may die. A call of a deletion that fails does not keep the next ones from being
made, so that roles may outlive the ServiceAccount by which the janitor would find them;
`ExpiredGrantsNothing` says that what remains grants nothing. A creation that fails while
it still lists Namespaces and roles has made nothing and cleans nothing up
(`PreparationFails`); after that every failure undoes (`CreationFails`).

### AdministratorAccounts and LoginSessions

`AdministratorAccounts` has several administrators and the two advisory locks of the
transactions that may count them. `LoginSessions` has one account in detail: a login
or a change of password reads the user, compares the password, and tests again under
the row lock. Each transaction locks the user row first and so is one action, but for
`ChangeOwnPassword`, whose EXISTS is read in the snapshot of its statement
(`ChangeSnapshot`, `CommitsChange`). `early` are the logins whose time precedes the end
of the lock. Left out: that a session must be no older than the last change of the
password (a second barrier, which compares times), and its ends by time.

### ResourceCache, ClusterOverview

`ResourceCache` is one section: the API server and the reflector are what they
deliver, a watch in order and a LIST in chunks. `Listed` and `Builds` are a LIST
and the loop of Replace over it; `Opened`, `Resumed` and `Shows` what a page does with the
table of sessions and what it shows.
`seen` counts how often a reader was shown an object, so that "once" can be stated, and
`stayed` are the objects that were cached from his first page on. `Ceiling` stands for
math.MaxInt64: `addScaled` saturates, and takes it that no Cluster is so large, which is an
assumption of the module.
In `ClusterOverview` an overview is the number of the load that made it, so that
"older" is "smaller"; time only moves an entry from one age to the next; `told` and
`floor` are history. What a load lists is left out.

### ClusterLimiter, MetricsForwarding

`ClusterLimiter` follows one Cluster with whole time and tokens, and a sketch with a
bit per series (its estimate is exact where the code's is within a few per cent).
A series in two successive windows counts twice, so that the bound the property
states is half of the limit. What was accepted is counted from every moment at once, as
the property is about every interval up to now. A budget is forgotten after two windows of
silence, and nothing in the code makes the burst window shorter than that: with a longer one
(`FullWhenForgotten` is false) a Cluster that returns gets a full budget before its time. The
module assumes nothing of the two windows: what is refused is justified in any case, and what
is accepted is counted since the last such return (`returned`, a history variable), or since
every moment if the burst window is at most two series windows. `MetricsForwarding` has the requests of the collector,
the mutex under which a session is opened, the Streams as both sides see them, and
the slot of the Server. A Stream may expire after a batch was carried, or when nobody
on the Agent's side knows it any more: the deadlines are long against everything else.

### Composition

`CredentialRotation` and `Enrollment` each combine the database, the Server and
the Agent process, and share their boundary: a completed enrollment is `Init` of
`CredentialRotation`. `SessionDrain` refines the step that `ConnectionRegistry`
leaves open, and both see a `Register` of the same two maps. A single composition
of all four is out of TLC's reach.

`MCAgents`, `MCServices`, `MCAgentProgress` and `MCSessions` put
modules that share nothing but the process into one run: `focus`, chosen by the initial state, says
which of them moves. Nothing is lost by that: as no action of one reads or writes a
variable of another, a behaviour of all of them, projected on one, is a behaviour of
that one, with the same fairness. Two modules are looked at twice. `MCServices` follows
all that happens to the turns of one session (`FirstSessionOnly`) and the starts alone
of three that race for the last turns of a quota (`StartsOnly`). `MCAgents` has the
connections of several Agents, with a subscriber that has no room for an event and has lost
one of each (`Lagging`), so that it remembers nothing; and two connections of one Agent
whose events are received.

## 4. The runs

| run | what moves, and bounds | shows | states |
|---|---|---|---|
| `credential_rotation` | 3 certificates, 2 connections at a time, 1 fault, store may fail | `RevokedAgentHasNoCredential`, `KeepsUsableIdentity`, `AtMostTwoLive`, `ActiveSerialIsLive` | 3.5 million |
| `agent_progress` | enrollment: 1 installation, 2 tokens, 2 calls, 1 name, 2 faults; rotation: 2 certificates, 1 connection, 2 faults; terminal: 2 requests and the janitor, the Server may give up, 1 failed call, 1 crash; forwarding: 2 requests, 2 Streams, 1 fault | `RegistrationReachesAgent`, `RevokedAgentIsDisconnected`, `AgentReconnects`, `ExpiredGrantsNothing`, `MetricsKeepFlowing` | 434 000 |
| `agents` | enrollment: 2 tokens, 2 installations, 2 calls, 2 names, 3 Agents, 1 fault; registry: 3 sessions of 2 Agents, 2 admitted, 1 remembered, 1 revocation; events: 2 sessions of 1 Agent, 1 subscriber, channel of 1 | `RowsAgree`, `ImplementsOneTimeGrant`, `RoutesAreRegistered`, `ReasonNotWeaker`, `EventsConverge` | 1.5 million |
| `sessions` | drain: 2 sessions, 3 requests, slots 2 and 1; registry: 2 connections of 1 Agent, 1 revocation, shutdown; Pod access: 2 users, 2 requests and tickets for one Pod, 1 active, 1 connection, 1 change of permissions; port forward: window and limits of 1, 2 chunks from each end; turns: 1 session, 1 turn, the loop and 2 branches with a step each, 1 change, 1 crash | `PerformedAsDecided`, `TurnEnds`, `SlotsAccounted`, `ReplacedIsClosed`, `ImplementsGracefulDrain`, `ShutdownCompletes`, `RevokedAccessEnds`, `ExitEndsTransfer`, `ForwardsEnd` | 311 000 |
| `services` | see below | one or two invariants of each service | 2.0 million |

Each passing run also checks the types. In `services`:

| service | bounds | invariants | states |
|---|---|---|---|
| turns | 1 session with 2 turns of 1 step, 2 requests, 1 change, 1 crash or failed write | `WorkBelongsToRunningTurn` | 288 000 |
| quota | 3 sessions that start 4 turns, 2 turns allowed, 2 requests | `QuotaHolds` | 280 |
| mutations | 3 Streams, 2 keys, 2 bodies, 1 entry, 2 mutations per key, 1 restart | `PerformedOnce`, `AnswersAreDue` | 122 000 |
| access | 2 users, 2 Pods, 3 requests and tickets, 2 pending, 1 active | `OnlyLatestAccess` | 161 000 |
| terminal | 2 requests and the janitor, 1 crash, no failed call | types (see `agent_progress`) | 773 |
| locks | 3 transactions | `OnlyLateCompletionDeadlocks` | 220 000 |
| accounts | 2 administrators, 2 transactions, 2 failures | `SomeAdministratorRemains` | 513 000 |
| logins | 3 logins, 2 failures, 2 changes of the password | `SessionsAreCurrent` | 66 000 |
| cache | 3 objects, 2 amounts, 2 readers, pages of 1 or 2, 1 paging session, 1 event | `TotalsMatchItems`, `WalkIsComplete` | 36 000 |
| overview | 2 Clusters, 2 callers, 1 entry, 3 loads | `OverviewGoesForward` | 129 000 |
| limiter | 2 series, batches of 1 or 2, a series window of 1, a burst window of 4, until time 4 | `RefusalsAreJustified` | 49 000 |
| forwarding | 2 requests, 2 Streams, 2 faults | `OnlyUnsentAreOrphaned` | 403 000 |

Are the bounds enough? Three certificates are the least with which one is
replaced while it replaces another; a second connection is what overlaps, and a
third would only repeat what the second does, for a handler touches its own
connection, the shared rows and one registry entry. One fault beside unbounded
administrative steps already reaches every recovery path; two do in the liveness
run. Drains involve the old and the new session, and three requests are one more
than the slots. In the registry, a session, its replacement and one of another
Agent meet, two of one Agent with the subscriber; what follows a revocation is explored
before the third connection is made, with and without a shutdown after it. Two tokens are the least for a re-enrollment and for two tokens of
one name, two installations for a manifest that was applied twice. Every table of a
service has room for one entry fewer than its callers want: that is when eviction,
refusal and replacement happen. Locks of a circle of two or three are reached with
three transactions; each of two administrators is the last one for the other; the
limiter sees windows turn over, and a budget forgotten before it is full, for its burst
window is longer than two series windows (with what is accepted counted since every moment,
the property is violated at these bounds; with both windows 2 until time 8, tried apart, it
holds so too); three
loads are a shared one, one without an entry, and one that overtakes it. A window of one
makes every write of a forward wait for its reader, and a second chunk exceeds a limit
of one; windows and limits of 2 with 3 chunks, tried apart, show the same.

`CHECK_DEADLOCK FALSE` is set where behaviours end: requests are made once, and the
Server stops; `agents` has a step for the registry at rest, so that deadlock is checked
for enrollment.

### Disagreements

Seven runs show that the code does not do what its comments or documents say. The
text of each is quoted in `PROJECT.json`, `findings`.

| run | property | what happens |
|---|---|---|
| `rotation_replay` | `RenewalCanBeReplayed` | The answer to a renewal is lost with the connection; reconnecting with the old certificate revokes the new one, and the stored CSR is refused ever after. The Agent exits each time it tries to renew, until the old certificate expires. |
| `rotation_final` | `RevocationIsFinal` | An Activate under way when Revoke commits sets the Agent back to active (without credentials), and the Cluster cannot be enrolled again. |
| `rotation_stops` | `StopsOnlyWhenUnusable` | A Cluster suspended and resumed under a connected Agent is pending; the heartbeat is refused as a bad credential and the Agent exits instead of reconnecting. |
| `registry_forgets` | `MemoryIsBounded` | The remembered disconnect of an Agent that was connected when its turn came to be evicted is never evicted. |
| `registry_routes` | `ConnectedClusterIsRouted` | The late handler of a revoked Agent takes the route of the Cluster away from the Agent that succeeded it. |
| `forward_outlives` | `LostConnectionEndsForward` | A Pod that neither reads nor writes keeps both pumps of a forward in calls that no context ends: the handler outlasts its deadline and the connection, and the Agent, which waits for its handlers, does not connect again. |
| `late_completion` | `LifecycleNeverDeadlocks` | A completion that read `cluster_id` before another completion filled it does not lock the Cluster; it and the deletion of that Cluster wait for each other, and PostgreSQL aborts one of them. |

Others were met while modelling and have no run, because what they cost is small or
the text says it only in passing:

* `pkg/agent/metrics_ingest.go:162`: a caller that gives up before it has written drops
  the session without closing it, and the session keeps the only slot of the Server;
  until its deadline other batches are refused. The model has it (`unsent`).
* `pkg/shared/agentprotocol/portforward.go:132`: a caller that is cancelled closes its
  direction and cancels neither (docs/architecture/agent-protocol-phase-2.md:540 asks for
  both): with a full window the Agent keeps the slot until the deadline.
* `pkg/shared/agentprotocol/portforward.go:207`: when the Pod ends normally while the
  client writes, CancelRead makes the write fail, and the error may be taken before the
  data and the Exit frame that have arrived.
* `pkg/server/metricsingest/gateway.go:225`: a batch that was charged and could not be
  delivered is charged again when it is retried.
* `pkg/server/metricsingest/clusterlimit.go:251`: a series that is steady counts twice
  for a while after a window turns; the test next to it says that repeating the same
  series does not make the estimate grow, and tries it within one window.
* `pkg/server/airuntime/runtime.go:486`: the approval mode is read before the model
  answers, while the comments at 389 and 1401 speak of every decision.
* `store/agent_enrollment.go:535` claims one order of row locks for registration and
  lifecycle; `CreateEnrollment` (`store/enrollment.go:112`), the renewal, heartbeat and
  revocation of an Agent do not follow it (section 3, `RowLocks`).
* `pkg/server/metricsingest/clusterlimit.go:56` and `pkg/server/config_validate.go:258`: a
  burst window of up to an hour is accepted beside any series window; if it is longer than
  two of these, a Cluster gets more than the rate and the burst after a silence.
* `pkg/server/clusteroverview/service.go`: Get promises one load however many callers
  wait; with the cache full of entries in use every caller starts one of its own.
* `pkg/server/auth/service.go:135`: of two parallel logins with the right password that
  both renew the hash, the second counts as a failed login.
* `pkg/server/helm/cache.go:57`: the size kept beside the cache is said only ever to run
  high; the walk that corrects it overwrites what was added while it ran.

## 5. Fairness

* `CredentialRotation`: weak fairness of the Agent process's own steps (the kubelet
  restarts it, its timers bound every wait) and of each handler's (a Go goroutine
  runs on; every database call has a timeout, the read deadline and the persisted
  heartbeat end what is dead or refused). None for administrators, renewals,
  notifications, expiry or faults. So `RevokedAgentIsDisconnected` does not rest on
  the notification. `AgentReconnects` takes it that `runConnection` returns when its
  connection is lost, which the run `forward_outlives` shows to need a Pod that reads.
* `SessionDrain`: handlers, timers and the goroutine that has just ended the last
  request run on. None for a request: it may hang forever, and `ReplacedIsClosed`
  holds nevertheless.
* `ConnectionRegistry`: a handler ends when its connection is closed, or when the
  context of the Server is cancelled; what was collected to be closed is closed.
* `Enrollment`: processes are restarted, requests handled, transactions end. Strong
  fairness of `AgentCalls` only makes up for the bound on simultaneous calls, and
  `agent_progress`, with two calls for one installation, does without it.
* `AITurns`: requests, lanes and the start of a Server that is down. None for persons:
  an approval ends by its timeout. A turn need not be stopped by its deadline, for its
  steps are bounded. The write of the end of a turn does not fail in `sessions`
  (`EndMayFail`): if it does, the turn stays running until the Server starts again,
  which nothing makes happen.
* `TerminalSession`: each call of the API server returns, and the janitor looks again
  every period. None for the Server.
* `PodAccess`: the ticker of a monitor fires again, and a forwarder returns when the
  context of its session is done.
* `PodPortForward`: each goroutine goes on when its call returns, and the deadline comes.
  `ForwardsEnd` also assumes that the Pod goes on reading; without it the handler can
  stay for good, which is what `forward_outlives` shows. None for the client, for the
  Pod's writing, or for a cancellation.
* `MetricsForwarding`: the collector goes on sending, both sides go on working. Strong
  fairness of the steps that bring a connection back, which need the mutex that requests
  take again and again: a sync.Mutex is handed to whoever has waited for a millisecond.

In the composed runs the same conditions hold while the module is the one that moves.

## 6. Proofs

The runs of section 4 look at small instances. The theorems hold for every value of the
constants that the module assumes: any number of certificates, connections, tokens,
requests, sessions, transactions, Pods and faults, any window and any limit.

| module | about | theorems | of the runs' properties |
|---|---|---|---|
| `CredentialRotationProofs` | `CredentialRotation` | `TypeCorrect`, `RevokedForGood`, `RotationCorrect`, `IdentityKept`, `ActiveSerialLive`, `TwoCredentialsLive` | `TypeOK`, `RevokedAgentHasNoCredential`, `KeepsUsableIdentity`, `ActiveSerialIsLive`, `AtMostTwoLive` |
| `EnrollmentProofs` | `Enrollment`, `OneTimeGrant` | `EnrollmentTypeCorrect`, `RowsStayInAgreement`, `GrantsOnce` | `TypeOK`, `RowsAgree`, `ImplementsOneTimeGrant` |
| `SessionDrainProofs` | `SessionDrain`, `GracefulDrain`, `MCSessions` | `SlotsCorrect`, `DrainCorrect`, `DrainsGracefully`, `SessionsTypeCorrect`, `SessionsCorrect` | `SlotsAccounted`, `ImplementsGracefulDrain`, `SessionsTypeOK` |
| `ConnectionRegistryProofs` | `ConnectionRegistry` | `RegistryTypeCorrect`, `RoutesCorrect`, `ReasonIsKept`, `EventsCorrect` | `RoutesAreRegistered`, `ReasonNotWeaker`, `EventsConverge` |
| `CacheProofs` | `MutationReplay`, `ClusterOverview`, `ResourceCache` | `ReplayTypeCorrect`, `ReplayPerformsOnce`, `ReplayAnswersAreDue`, `OverviewTypeCorrect`, `OverviewCorrect`, `SectionTypeCorrect`, `SectionCorrect`, `TotalsAddUp`, `WalksComplete` | `PerformedOnce`, `AnswersAreDue`, `OverviewGoesForward`, `TotalsMatchItems`, `WalkIsComplete` |
| `ServiceProofs` | `RowLocks`, `LoginSessions`, `AdministratorAccounts`, `AITurns`, `MetricsForwarding`, `ClusterLimiter` | `RowLocksCorrect`, `LockOrderIsKept`, `LoginTypeCorrect`, `SessionsStayCurrent`, `AccountTypeCorrect`, `AdministratorRemains`, `TurnTypeCorrect`, `TurnsWorkAlone`, `QuotaIsRespected`, `ApprovalsAreKept`, `ForwardTypeCorrect`, `NoSessionIsLost`, `LimiterTypeCorrect`, `RefusedWithReason` | `OnlyLateCompletionDeadlocks`, `SessionsAreCurrent`, `SomeAdministratorRemains`, `WorkBelongsToRunningTurn`, `QuotaHolds`, `PerformedAsDecided`, `OnlyUnsentAreOrphaned`, `RefusalsAreJustified` |
| `PodProofs` | `PodPortForward`, `PodAccess`, `TerminalSession` | `PortForwardTypeCorrect`, `PortForwardAccounts`, `AccessTypeCorrect`, `LatestAccessOnly`, `AccessIsLimited`, `TerminalTypeCorrect` | `ExitEndsTransfer`, `OnlyLatestAccess` |
| `CompositionProofs` | `MCServices` | `ServicesCorrect`, `ServicesTypeCorrect` | `ServicesTypeOK` |

With these every invariant of the passing runs is a theorem, and so are both refinements;
what is left to TLC is liveness.

What is assumed of the constants is the named ASSUME of each module, which TLC evaluates
on every run. It says that limits are natural numbers (at least 1 where the code's
defaults or checks make them so), that what stands for "none" is none of the values, and
that sets which are counted (requests, Clusters, users, AI sessions, objects, readers) are
finite. `ResourceCache` takes it, as the comment of `addScaled` does, that no total of the
cached objects reaches the ceiling at which it saturates; `TerminalSession`, that the janitor
is none of the requests. Nothing else is assumed: no bound on how much overlaps, no order,
and no fairness, nothing about how the two windows of the limiter relate, so that what is proved of a module holds of it wherever it is
composed with others.

### The inductive invariants

Few of the properties are inductive. What each proof adds, and why it must:

**`RotationInv`.** That the stored certificate is not revoked depends on what Activate,
running for some connection, takes for the newer one, and on the certificate that
`AgentSaves` puts in its place. `ProcessMatchesConnection`: the connection the process
uses presented the certificate it holds, carries at most the CSR it is waiting for, and
has an answer only while it is served, so that Activate on it keeps the stored
certificate. `ProcessMatchesSecret`: without mishaps, the process holds the stored
certificate, so that Activate for another one is a mishap, and recorded as one.
`AnswerIsLive`: a certificate on its way to the Secret is not revoked. The step lemmas
follow these; most actions are covered by `NothingRevoked`, the two that revoke by
`ActivateLive` and the case of `RevokeAgent`.

**`PairInv`**, for `AtMostTwoLive`, which holds whatever went wrong before. A renewal can
only add a certificate for the CSR in the Secret (`CsrsAnswered`: all the others have been
answered), and the process makes the next CSR only on a connection whose Activate has
revoked all but two (`OthersRevoked`, over the gap between the snapshot of Activate and
its commit).

**`EnrollmentInv`.** `RowsAgree` needs that a creation under way still holds the tokens it
has locked (`CreationHolds`), that a call is about a token and an installation that exist
(`CallsAreMeant`), that what a process was granted was made for it (`IdentitiesAreOwn`)
and that the token of an Agent is spent for good (`SpentForGood`). The refinement
(`GrantsOnce`) takes one lemma per action, with the step of `OneTimeGrant` it is. It
showed that the abstract `Void` must withdraw several tokens at once: with three tokens
of one name one creation does, which two tokens did not show.

**`DrainInv`.** `SlotsAccounted` is inductive with the types and the limits; the lemmas say
what the move of one request does to the sets that are counted. For the refinement:
only a session that drains has a timer (`DrainInOrder`), and who calls `finishDrain`
without having waited finds a draining session with no request in it
(`FinishersFindItIdle`). The latter holds although the test and the call are two critical
sections, because a draining session admits nobody.

**The registry.** `RoutesAreRegistered` and `EventsConverge` are inductive with the
types. `ReasonNotWeaker` needs that the connection of a handler that is over is
closed (`ClosedWhenOver`), so that what Unregister or a late close does to the reason
comes after its cause.

**`ReplayInv`.** `WorkersHoldKeys` (who works on a key has its entry, and the other way
round), `WaitersAreServed` (who waits does so for a call at work on the same request),
`OutcomesExpire` (the queue of expiries has each finished key once, so that eviction takes
none twice) and `CommitsAreRemembered` (a mutation that the API server took was taken once, and
its outcome is kept or about to be).

**`OverviewInv`.** The load an entry waits for is the last one of its Cluster
(`EntriesWaitForLatest`), and while a snapshot may be returned nobody has been or will be
told of a later load, unless of one that the entry stores first (`SnapshotsAreLatest`).
That is what a sweep, an eviction and a load without an entry could break.

**`SectionInv`.** The totals of a section are only ever added to and subtracted from.
`Matching` says that they are the number of the cached objects and of their units: an object
that contributes n is n pairs `<<object, i>>`, so that the sum over a set is a cardinality, and
one object more or less is a fact about finite sets, not an induction over them. That this
is the sum which `TotalsMatchItems` names (a fold) is proved from the least set where the
two would differ; and that the loop of `Replace`, which may meet an object twice, matches
what it stored, from its least prefix that does not. No total saturates, as a listing of
all objects would not. For `WalkIsComplete`: session keys are in the table once
(`Tables`), the keys of a session are those that matched when it was built, each once, and
a reader has been shown exactly what precedes the offset of his token, once, as far as it was
still cached then (`Along`); a reader whose session was pushed out is told to start
again, with nothing shown.

**`LSTypeInv`, `AccountInv`.** The types of `LoginSessions` need that an account is locked
by the very failure that reaches the limit, and that a change of password still finds the
password it read (`SnapshotBelowBound`). For `SomeAdministratorRemains`: the locks exclude
(`LocksExclude`), who deletes a binding found it under the lock (`BindingsStand`), and what was
counted under the advisory lock stays true while it is held (`CountsStayTrue`).

**`RLInv`.** Locks held on one row are compatible (`Compatible`), and only certain
transactions go on over a row that was deleted (`LocksRowsThatExist`). Given these,
`LockOrderIsKept` is about the sequences alone: the rows have an order
(`HierarchyOrder`), so that of those in a circle the one that waits for the highest row
has nobody to wait for. One lock is out of order, the attempt at the end of a
completion: only a deletion may have it and still wait, and it has locked the Cluster
before (`AttemptLast`), which a completion that knows its Cluster holds. One that does not
still holds Tenant and Project, so that the deletion it waits for can only be that of the
Cluster, which then waits for the enrollment it holds: the one circle that is left.

**`AIInv`, `QuotaInv`, `CallInv`.** A turn that was opened has not begun and belongs to one
request (`OpenedTurnsWait`); branches work while their loop delegates
(`BranchesAreDelegated`). Who was admitted under the quota holds its lock, and has room.
`CallInv` says of every lane what the call it is about to make has behind it (`LaneCalls`),
that an approval that waits is about the call its lane is parked with (`Waiter`), that
decisions and calls made are not ahead of their lane (`Before`), and that a call
is decided once. That the identifier of an approval names its branch is used where an
answer is matched to a call: `IdentifiersDiffer` says that no two calls share one.

**`ForwardInv`.** Under the mutex, who opens a session has a Stream to itself, and there
is no other session (`OpenersAreAlone`). A session is open only after the Server's handler
has taken its Stream (`OpenIsTaken`); who gives one up has closed it or has not written to
it (`DiscardedAreClosed`); what is open without a Connection is lost (`LostWithLink`).
With these `OnlyUnsentAreOrphaned` is inductive: the one way to leave a usable session
behind is to give up the session that others find, unwritten.

**`LimiterInv`, `TokensAreExact`.** The tokens are not merely below what rate and burst
allow: when a batch is looked at, they are no more than what is available since any moment
that counts, and no fewer than what is since some moment (`Exact`). That both directions are kept is what makes refusing and
accepting exact. A budget that was forgotten and is made anew is full. It had filled up by
then if `BurstWindow <= 2 * SeriesWindow`, which nothing checks (the defaults are one minute
and ten); otherwise it may be more than what is available since a moment before the
silence, so that only the moments after it count (`Accountable`). A refusal is justified by
one of these either way. For the series, `BudgetHolds` says since when those in the sketch
and those counted for the window before were reported; the latter are no more than were
reported since less than two windows before this one began.

**`PFInv`.** An Exit frame is the last thing written and says what the pumps, which have
both ended, counted (`ExitsAreFinal`); what the Agent has counted is on its way or with
the client (`PodChunksAccounted`), and the Pod has at most the one chunk more with which
its pump failed (`CutOffOnce`). `BusyBelowLimit` and `RoomForEnd` keep counters and queues in
their ranges.

**`PAInv`.** Tickets, sessions, reservations and remembered answers agree (`TablesAgree`): a
reservation names the last ticket drawn for its Pod, which pends, is active, or is
between the two critical sections of its activation; and a ticket that is, is in no table.
`AccessLimits` then counts; `EndedKept` says that an ending which is remembered is one of a
session, and that no more are kept than the limit.

**`TerminalInv`.** A worker does what is its own: only the janitor cleans up, only a request
creates, deletes or undoes; what it has still to call are objects of the session.

**The runs of several modules.** What the theorems say of each module alone they say of
`MCServices` and `MCSessions`, where one of several modules moves: a step of the composition is
a step of each module or leaves its variables as they are (`StepOfEach`, `StepOfEachPart`),
whatever its initial state chose. The modules whose specification states fairness have a
lemma without it (`TurnsSafe`, `ForwardSafe`, `AccessSafe`, `TerminalSafe`), because the
composition states it only of the module that moves. The registry of `MCSessions` is an
instance of `ConnectionRegistry` for two connections of one Agent, of which the theorems
of `ConnectionRegistryProofs` cannot be cited; its types are proved for that instance.

Every step lemma has one step per action, and under it one per part of the invariant which
that action can disturb; facts about records, finite sets, sequences and counters that
several need are lemmas before them.

### Only model-checked

* *Liveness*: `RevokedAgentIsDisconnected`, `AgentReconnects`, `ExpiredGrantsNothing`, `MetricsKeepFlowing`, `RegistrationReachesAgent`, `TurnEnds`, `ReplacedIsClosed`,
  `ShutdownCompletes`, `RevokedAccessEnds`, `ForwardsEnd`: fairness and ENABLED are out of
  the prover's reach.
* What the seven runs of section 4 refute.

No module declares a recursive operator.

## 7. Limits of the models

* Time is an event: a certificate, token, ticket or snapshot may expire at any moment,
  in the order the code compares. Only `ClusterLimiter` counts it.
* One Server instance. The documentation allows for several behind one database;
  `watching` models that a notification may be missed, not that the Agent moves to
  another instance.
* Project and Tenant are one `parent` in `CredentialRotation`; suspending either has
  the same effect there. `RowLocks` has them apart.
* Quotas on the sizes of frames and the versions and capabilities negotiated in the
  handshake are left out, but for the refusal of a request whose capability is missing;
  so is the bound on metrics Streams of the whole Server.
* Deleting a Cluster is in `Enrollment` and `RowLocks`, not in `CredentialRotation`.
* What a permission allows is never evaluated: in the modules a user has it or not.
  The models are about the consistency of state, not about what should be permitted.
