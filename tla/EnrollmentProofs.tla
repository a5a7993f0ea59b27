-------------------------- MODULE EnrollmentProofs --------------------------
(***************************************************************************)
(* Proofs about Enrollment, for every number of tokens, Agents,             *)
(* installations, calls and faults.                                         *)
(***************************************************************************)
EXTENDS Enrollment, TLAPS

-----------------------------------------------------------------------------
(* The inductive invariant.                                                 *)

\* Tokens are made in their order; one that is not made yet belongs to no Cluster, and one
\* that is open has a name.
TokensAreMade ==
    /\ \E n \in 0..MaxEnrollments : \A e \in Enrollments :
         enrollment[e].state # "none" <=> e <= n
    /\ \A e \in Enrollments : enrollment[e].state = "none" => enrollment[e].cluster = None
    /\ \A e \in Enrollments : Open(e) => enrollment[e].name \in Names

\* A creation under way has a token left to make, and those it is about to revoke stay
\* open, since it has locked them.
CreationHolds ==
    /\ issuing.step # "idle" =>
         issuing.name \in Names /\ enrollment[MaxEnrollments].state = "none"
    /\ \A e \in issuing.released : Open(e)

\* A request that is handled is an installation's, with a token; a process that has sent
\* one waits.
CallsAreMeant ==
    /\ \A k \in Calls : call[k].state # "idle" =>
         call[k].install \in Installs /\ call[k].token \in Enrollments
    /\ \A i \in Installs :
         process[i].phase \in {"ready", "waiting"} => process[i].token \in Enrollments
    /\ \A i \in Installs : process[i].call # NoCall => process[i].phase = "waiting"

\* A process that has no identity yet has its pending one stored; what it is granted, and
\* may then store, was made for it.
IdentitiesAreOwn ==
    /\ \A i \in Installs :
         process[i].phase \in {"ready", "waiting", "granted"} => secret[i].state = "pending"
    /\ \A i \in Installs : secret[i].state # "complete" => secret[i].agent = None
    /\ \A i \in Installs : process[i].phase = "granted" =>
         process[i].agent \in AgentIds /\ agents[process[i].agent].holder = i

\* The token of an Agent cannot be spent again.
SpentForGood ==
    \A a \in AgentIds : enrollment[agents[a].token].state \in {"consumed", "deleted"}

EnrollmentInv ==
    /\ TypeOK /\ TokensAreMade /\ CreationHolds /\ CallsAreMeant /\ IdentitiesAreOwn
    /\ SpentForGood /\ RowsAgree

-----------------------------------------------------------------------------
(* What a step leaves of Agents, and what an answer does.                   *)

\* The Agents there were are still there, with their installations, tokens and Clusters.
AgentsStay ==
    /\ AgentIds \subseteq AgentIds'
    /\ \A a \in AgentIds : /\ agents'[a].holder = agents[a].holder
                           /\ agents'[a].token = agents[a].token
                           /\ agents'[a].cluster = agents[a].cluster

ProcessRecords == [phase : Phases, token : 0..MaxEnrollments, call : Calls \cup {NoCall},
                   agent : 0..MaxAgents]
CallRecords == [state : {"idle", "sent", "begun"}, install : Installs \cup {NoCall},
                token : 0..MaxEnrollments]

LEMMA IdleRecords == Down \in ProcessRecords /\ IdleCall \in CallRecords
BY EnrollmentAssumption DEF Down, IdleCall, ProcessRecords, CallRecords, Phases, None

\* Changing one field of a process keeps the others.
LEMMA ProcessFields ==
    ASSUME NEW q \in ProcessRecords
    PROVE  /\ \A phase \in Phases :
                LET r == [q EXCEPT !.phase = phase] IN
                /\ r \in ProcessRecords /\ r.phase = phase
                /\ r.token = q.token /\ r.call = q.call /\ r.agent = q.agent
           /\ \A k \in Calls \cup {NoCall} :
                LET r == [q EXCEPT !.call = k] IN
                /\ r \in ProcessRecords /\ r.call = k
                /\ r.phase = q.phase /\ r.token = q.token /\ r.agent = q.agent
           /\ \A agent \in 0..MaxAgents :
                LET r == [q EXCEPT !.agent = agent] IN
                /\ r \in ProcessRecords /\ r.agent = agent
                /\ r.phase = q.phase /\ r.token = q.token /\ r.call = q.call
           /\ \A e \in 0..MaxEnrollments :
                LET r == [q EXCEPT !.token = e] IN
                /\ r \in ProcessRecords /\ r.token = e
                /\ r.phase = q.phase /\ r.call = q.call /\ r.agent = q.agent
BY DEF ProcessRecords

\* A process that is granted an identity, or told to try again.
Granted(p, agent) == [[[p EXCEPT !.phase = "granted"] EXCEPT !.call = NoCall]
                        EXCEPT !.agent = agent]
Released(p) == [[p EXCEPT !.phase = "ready"] EXCEPT !.call = NoCall]

LEMMA AnsweredRecords ==
    ASSUME NEW p \in ProcessRecords
    PROVE  /\ \A agent \in 0..MaxAgents :
                /\ Granted(p, agent) \in ProcessRecords
                /\ Granted(p, agent).phase = "granted" /\ Granted(p, agent).call = NoCall
                /\ Granted(p, agent).agent = agent
           /\ Released(p) \in ProcessRecords
           /\ Released(p).phase = "ready" /\ Released(p).call = NoCall
           /\ Released(p).token = p.token
<1>1. ASSUME NEW q \in ProcessRecords, NEW phase \in Phases
      PROVE  /\ [q EXCEPT !.phase = phase] \in ProcessRecords
             /\ [q EXCEPT !.phase = phase].phase = phase
             /\ [q EXCEPT !.phase = phase].token = q.token
  BY <1>1, ProcessFields
<1>2. ASSUME NEW q \in ProcessRecords
      PROVE  /\ [q EXCEPT !.call = NoCall] \in ProcessRecords
             /\ [q EXCEPT !.call = NoCall].phase = q.phase
             /\ [q EXCEPT !.call = NoCall].token = q.token
             /\ [q EXCEPT !.call = NoCall].call = NoCall
  BY <1>2, ProcessFields
<1>3. ASSUME NEW q \in ProcessRecords, NEW agent \in 0..MaxAgents
      PROVE  /\ [q EXCEPT !.agent = agent] \in ProcessRecords
             /\ [q EXCEPT !.agent = agent].phase = q.phase
             /\ [q EXCEPT !.agent = agent].call = q.call
             /\ [q EXCEPT !.agent = agent].agent = agent
  BY <1>3, ProcessFields
<1>4. "granted" \in Phases /\ "ready" \in Phases
  BY DEF Phases
<1>5. ASSUME NEW agent \in 0..MaxAgents
      PROVE  /\ Granted(p, agent) \in ProcessRecords
             /\ Granted(p, agent).phase = "granted" /\ Granted(p, agent).call = NoCall
             /\ Granted(p, agent).agent = agent
  <2> DEFINE q == [p EXCEPT !.phase = "granted"]
             r == [q EXCEPT !.call = NoCall]
  <2>1. q \in ProcessRecords /\ q.phase = "granted"
    BY <1>1, <1>4
  <2> HIDE DEF q
  <2>2. r \in ProcessRecords /\ r.phase = "granted" /\ r.call = NoCall
    BY <1>2, <2>1
  <2> HIDE DEF r
  <2>3. /\ [r EXCEPT !.agent = agent] \in ProcessRecords
        /\ [r EXCEPT !.agent = agent].phase = "granted"
        /\ [r EXCEPT !.agent = agent].call = NoCall
        /\ [r EXCEPT !.agent = agent].agent = agent
    BY <1>3, <2>2
  <2>4. Granted(p, agent) = [r EXCEPT !.agent = agent]
    BY DEF Granted, q, r
  <2> QED
    BY <2>3, <2>4
<1>6. /\ Released(p) \in ProcessRecords
      /\ Released(p).phase = "ready" /\ Released(p).call = NoCall
      /\ Released(p).token = p.token
  <2> DEFINE q == [p EXCEPT !.phase = "ready"]
  <2>1. q \in ProcessRecords /\ q.phase = "ready" /\ q.token = p.token
    BY <1>1, <1>4
  <2> HIDE DEF q
  <2>2. /\ [q EXCEPT !.call = NoCall] \in ProcessRecords
        /\ [q EXCEPT !.call = NoCall].phase = "ready"
        /\ [q EXCEPT !.call = NoCall].call = NoCall
        /\ [q EXCEPT !.call = NoCall].token = p.token
    BY <1>2, <2>1
  <2>3. Released(p) = [q EXCEPT !.call = NoCall]
    BY DEF Released, q
  <2> QED
    BY <2>2, <2>3
<1> QED
  BY <1>5, <1>6

\* An answer reaches the process that waits for it, and grants it nothing but its own.
LEMMA AnswerKeeps ==
    ASSUME EnrollmentInv, NEW k \in Calls, call[k].state # "idle",
           NEW answer, NEW agent \in 0..MaxAgents, Answer(k, answer, agent),
           UNCHANGED <<secret, token>>, AgentsStay,
           answer = "granted" =>
             agent \in AgentIds' /\ agents'[agent].holder = call[k].install
    PROVE  /\ call' \in [Calls -> CallRecords] /\ process' \in [Installs -> ProcessRecords]
           /\ CallsAreMeant' /\ IdentitiesAreOwn'
<1> DEFINE i == call[k].install
<1>1. i \in Installs /\ call' = [call EXCEPT ![k] = IdleCall] /\ k # NoCall
  BY EnrollmentAssumption DEF Answer, EnrollmentInv, CallsAreMeant
<1>2. call' \in [Calls -> CallRecords]
  BY <1>1, IdleRecords DEF EnrollmentInv, TypeOK, CallRecords
<1>3. process \in [Installs -> ProcessRecords]
  BY DEF EnrollmentInv, TypeOK, ProcessRecords
<1>4. \A j \in Installs \ {i} : process'[j] = process[j]
  BY <1>1, <1>3 DEF Answer
<1>5. \/ process' = process
      \/ /\ process[i].call = k /\ answer = "granted"
         /\ process' = [process EXCEPT ![i] = Granted(process[i], agent)]
      \/ process' = [process EXCEPT ![i] = Down]
      \/ process[i].call = k /\ process' = [process EXCEPT ![i] = Released(process[i])]
  BY <1>1, <1>3 DEF Answer, Granted, Released, ProcessRecords
<1>6. process' \in [Installs -> ProcessRecords]
  BY <1>1, <1>3, <1>5, IdleRecords, AnsweredRecords
<1>7. /\ process'[i].phase \in {"ready", "waiting"} => process'[i].token \in Enrollments
      /\ process'[i].call # NoCall => process'[i].phase = "waiting"
      /\ process'[i].phase \in {"ready", "waiting", "granted"} => secret[i].state = "pending"
      /\ process'[i].phase = "granted" =>
           process'[i].agent \in AgentIds' /\ agents'[process'[i].agent].holder = i
  <2>1. /\ process[i].phase \in {"ready", "waiting"} => process[i].token \in Enrollments
        /\ process[i].call # NoCall => process[i].phase = "waiting"
        /\ process[i].phase \in {"ready", "waiting", "granted"} => secret[i].state = "pending"
        /\ process[i].phase = "granted" =>
             process[i].agent \in AgentIds /\ agents[process[i].agent].holder = i
    BY <1>1 DEF EnrollmentInv, CallsAreMeant, IdentitiesAreOwn
  <2>2. process[i] \in ProcessRecords
    BY <1>1, <1>3
  <2>3. CASE process' = process
    BY <2>1, <2>3 DEF AgentsStay
  <2>4. CASE /\ process[i].call = k /\ answer = "granted"
             /\ process' = [process EXCEPT ![i] = Granted(process[i], agent)]
    <3>1. process'[i] = Granted(process[i], agent)
      BY <1>1, <1>3, <2>4
    <3>2. /\ Granted(process[i], agent).phase = "granted"
          /\ Granted(process[i], agent).call = NoCall
          /\ Granted(process[i], agent).agent = agent
      BY <2>2, AnsweredRecords
    <3>3. process'[i].phase = "granted" /\ process'[i].call = NoCall /\ process'[i].agent = agent
      BY <3>1, <3>2
    <3> QED
      BY <1>1, <2>1, <2>4, <3>3
  <2>5. CASE process' = [process EXCEPT ![i] = Down]
    <3>1. process'[i] = Down
      BY <1>1, <1>3, <2>5
    <3> QED
      BY <3>1 DEF Down
  <2>6. CASE process[i].call = k /\ process' = [process EXCEPT ![i] = Released(process[i])]
    <3>1. process'[i] = Released(process[i])
      BY <1>1, <1>3, <2>6
    <3> QED
      BY <1>1, <2>1, <2>2, <2>6, <3>1, AnsweredRecords
  <2> QED
    BY <1>5, <2>3, <2>4, <2>5, <2>6
<1>8. CallsAreMeant'
  <2>1. \A m \in Calls : call'[m].state # "idle" =>
          call'[m].install \in Installs /\ call'[m].token \in Enrollments
    BY <1>1 DEF EnrollmentInv, CallsAreMeant, TypeOK, IdleCall
  <2>2. \A j \in Installs :
          /\ process'[j].phase \in {"ready", "waiting"} => process'[j].token \in Enrollments
          /\ process'[j].call # NoCall => process'[j].phase = "waiting"
    BY <1>4, <1>7 DEF EnrollmentInv, CallsAreMeant
  <2> QED
    BY <2>1, <2>2 DEF CallsAreMeant
<1>9. IdentitiesAreOwn'
  <2> SUFFICES ASSUME NEW j \in Installs
               PROVE  /\ process'[j].phase \in {"ready", "waiting", "granted"}
                           => secret[j].state = "pending"
                      /\ secret[j].state # "complete" => secret[j].agent = None
                      /\ process'[j].phase = "granted" =>
                           /\ process'[j].agent \in AgentIds'
                           /\ agents'[process'[j].agent].holder = j
    BY DEF IdentitiesAreOwn
  <2>1. CASE j = i
    BY <2>1, <1>7 DEF EnrollmentInv, IdentitiesAreOwn
  <2>2. CASE j # i
    <3>1. process'[j] = process[j]
      BY <1>4, <2>2
    <3>2. /\ process[j].phase \in {"ready", "waiting", "granted"} => secret[j].state = "pending"
          /\ secret[j].state # "complete" => secret[j].agent = None
          /\ process[j].phase = "granted" =>
               process[j].agent \in AgentIds /\ agents[process[j].agent].holder = j
      BY DEF EnrollmentInv, IdentitiesAreOwn
    <3> QED
      BY <3>1, <3>2 DEF AgentsStay
  <2> QED
    BY <2>1, <2>2
<1> QED
  BY <1>2, <1>6, <1>8, <1>9

-----------------------------------------------------------------------------
(* What a transaction does to the rows.                                     *)

\* What the rows of a token e say of the attempt of installation i that has succeeded.
WonBy(e, i) ==
    LET a == attempt[e][i].agent IN
    /\ a \in AgentIds
    /\ agents[a].holder = i /\ agents[a].token = e
    /\ agents[a].cluster = enrollment[e].cluster

\* RowsAgree, attempt by attempt.
LEMMA RowsByAttempt ==
    RowsAgree <=>
      /\ \A e \in Enrollments : enrollment[e].state = "consumed" <=>
           \E i \in Installs : attempt[e][i].status = "succeeded"
      /\ \A e \in Enrollments, i, j \in Installs :
           attempt[e][i].status = "succeeded" /\ attempt[e][j].status = "succeeded" => i = j
      /\ \A e \in Enrollments, i \in Installs :
           attempt[e][i].status = "succeeded" => WonBy(e, i)
BY DEF RowsAgree, WonBy

\* CompleteAgentEnrollment's inserts and updates spend an open token for good.
LEMMA Spending ==
    ASSUME EnrollmentInv, NEW e \in Enrollments, NEW i \in Installs, EnrollAgent(e, i),
           Open(e), Unlocked(e), Len(agents) < MaxAgents, UNCHANGED issuing
    PROVE  /\ clusters' \in Seq(Cluster) /\ agents' \in Seq(Agent)
           /\ enrollment' \in [Enrollments -> Enrollment]
           /\ attempt' \in [Enrollments -> [Installs -> Attempt]]
           /\ TokensAreMade' /\ CreationHolds' /\ SpentForGood' /\ RowsAgree'
           /\ AgentsStay
           /\ Len(agents) + 1 \in 1..MaxAgents /\ Len(agents) + 1 \in AgentIds'
           /\ agents'[Len(agents) + 1].holder = i /\ agents'[Len(agents) + 1].token = e
<1> DEFINE c == IF enrollment[e].cluster = None THEN Len(clusters) + 1
                ELSE enrollment[e].cluster
           new == [cluster |-> c, holder |-> i, token |-> e, status |-> "pending"]
           n == Len(agents) + 1
<1>1. /\ clusters \in Seq(Cluster) /\ agents \in Seq(Agent)
      /\ enrollment \in [Enrollments -> Enrollment]
      /\ attempt \in [Enrollments -> [Installs -> Attempt]]
  BY DEF EnrollmentInv, TypeOK
<1>2. c \in Nat /\ enrollment[e].name \in Names /\ enrollment[e].state = "open"
  BY <1>1 DEF EnrollmentInv, TokensAreMade, Open, Enrollment
<1>3. clusters' \in Seq(Cluster)
  <2>1. [name |-> enrollment[e].name, status |-> "pending"] \in Cluster
    BY <1>2 DEF Cluster
  <2>2. \A row \in Cluster : Append(clusters, row) \in Seq(Cluster)
    BY <1>1
  <2> QED
    BY <1>1, <2>1, <2>2 DEF EnrollAgent
<1>4. new \in Agent
  BY <1>2 DEF Agent
<1>5. agents' = Append(agents, new)
  BY DEF EnrollAgent
<1> HIDE DEF c
<1>6. new.holder = i /\ new.token = e /\ new.cluster = c
  OBVIOUS
<1> HIDE DEF new
<1>7. /\ agents' \in Seq(Agent) /\ Len(agents') = n
      /\ agents'[n] = new /\ \A a \in AgentIds : agents'[a] = agents[a]
      /\ AgentIds' = AgentIds \cup {n} /\ n \in Nat /\ n \notin AgentIds
  BY <1>1, <1>4, <1>5 DEF AgentIds
<1>8. n \in 1..MaxAgents
  BY <1>1, <1>7, EnrollmentAssumption DEF AgentIds
<1>9. /\ enrollment' \in [Enrollments -> Enrollment]
      /\ enrollment'[e].state = "consumed" /\ enrollment'[e].cluster = c
      /\ enrollment'[e].name = enrollment[e].name
      /\ \A o \in Enrollments \ {e} : enrollment'[o] = enrollment[o]
  <2> DEFINE q == [enrollment[e] EXCEPT !.state = "consumed"]
             r == [q EXCEPT !.cluster = c]
  <2>1. q \in Enrollment /\ q.state = "consumed" /\ q.name = enrollment[e].name
    BY <1>1 DEF Enrollment
  <2> HIDE DEF q
  <2>2. r \in Enrollment /\ r.state = "consumed" /\ r.cluster = c /\ r.name = enrollment[e].name
    BY <1>2, <2>1 DEF Enrollment
  <2>3. enrollment' = [enrollment EXCEPT ![e] = r]
    BY <1>1 DEF EnrollAgent, Enrollment, q, c
  <2> HIDE DEF r
  <2> QED
    BY <1>1, <2>2, <2>3
<1>10. /\ attempt' \in [Enrollments -> [Installs -> Attempt]]
       /\ attempt'[e][i] = [status |-> "succeeded", agent |-> n]
       /\ \A o \in Enrollments, j \in Installs :
            o # e \/ j # i => attempt'[o][j] = attempt[o][j]
  <2> DEFINE won == [status |-> "succeeded", agent |-> n]
  <2>1. won \in Attempt
    BY <1>8 DEF Attempt
  <2> HIDE DEF won
  <2>2. attempt' = [attempt EXCEPT ![e] = [attempt[e] EXCEPT ![i] = won]]
    BY <1>1 DEF EnrollAgent, won
  <2>3. attempt[e] \in [Installs -> Attempt]
    BY <1>1
  <2>4. [attempt[e] EXCEPT ![i] = won] \in [Installs -> Attempt]
    BY <2>1, <2>3
  <2>5. /\ attempt' \in [Enrollments -> [Installs -> Attempt]]
        /\ attempt'[e] = [attempt[e] EXCEPT ![i] = won]
        /\ \A o \in Enrollments \ {e} : attempt'[o] = attempt[o]
    BY <1>1, <2>2, <2>4
  <2>6. attempt'[e][i] = won /\ \A j \in Installs \ {i} : attempt'[e][j] = attempt[e][j]
    BY <2>3, <2>5
  <2> QED
    BY <2>5, <2>6 DEF won
<1>11. AgentsStay
  BY <1>7 DEF AgentsStay
<1>12. TokensAreMade'
  <2>1. PICK m \in 0..MaxEnrollments :
          \A o \in Enrollments : enrollment[o].state # "none" <=> o <= m
    BY DEF EnrollmentInv, TokensAreMade
  <2>2. \A o \in Enrollments : enrollment'[o].state # "none" <=> o <= m
    BY <1>2, <1>9, <2>1
  <2>3. \A o \in Enrollments : enrollment'[o].state = "none" => enrollment'[o].cluster = None
    BY <1>9 DEF EnrollmentInv, TokensAreMade
  <2>4. \A o \in Enrollments : Open(o)' => enrollment'[o].name \in Names
    BY <1>9 DEF EnrollmentInv, TokensAreMade, Open
  <2> QED
    BY <2>2, <2>3, <2>4 DEF TokensAreMade
<1>13. CreationHolds'
  <2>1. MaxEnrollments \in Enrollments
    BY EnrollmentAssumption DEF Enrollments
  <2>2. \A o \in issuing.released : o \in Enrollments /\ o # e /\ enrollment[o].state = "open"
    BY DEF EnrollmentInv, CreationHolds, TypeOK, Unlocked, Open
  <2>3. \A o \in issuing.released : Open(o)'
    BY <1>9, <2>2 DEF Open
  <2>4. issuing.step # "idle" => enrollment'[MaxEnrollments].state = "none"
    BY <1>2, <1>9, <2>1 DEF EnrollmentInv, CreationHolds
  <2> QED
    BY <2>3, <2>4 DEF EnrollmentInv, CreationHolds
<1>14. SpentForGood'
  <2> SUFFICES ASSUME NEW a \in AgentIds'
               PROVE  enrollment'[agents'[a].token].state \in {"consumed", "deleted"}
    BY DEF SpentForGood
  <2>1. CASE a = n
    BY <1>6, <1>7, <1>9, <2>1
  <2>2. CASE a \in AgentIds
    <3>1. agents'[a] = agents[a] /\ agents[a] \in Agent
      BY <1>1, <1>7, <2>2 DEF AgentIds
    <3>2. enrollment[agents[a].token].state \in {"consumed", "deleted"}
      BY <2>2 DEF EnrollmentInv, SpentForGood
    <3>3. agents[a].token \in Enrollments
      BY <3>1 DEF Agent
    <3> QED
      BY <1>9, <3>1, <3>2, <3>3
  <2> QED
    BY <1>7, <2>1, <2>2
<1>15. RowsAgree'
  <2>1. /\ \A o \in Enrollments : enrollment[o].state = "consumed" <=>
             \E j \in Installs : attempt[o][j].status = "succeeded"
        /\ \A o \in Enrollments, j, k \in Installs :
             attempt[o][j].status = "succeeded" /\ attempt[o][k].status = "succeeded" => j = k
        /\ \A o \in Enrollments, j \in Installs :
             attempt[o][j].status = "succeeded" => WonBy(o, j)
    BY RowsByAttempt DEF EnrollmentInv
  <2>2. \A j \in Installs : attempt[e][j].status # "succeeded"
    BY <1>2, <2>1
  <2>3. \A o \in Enrollments, j \in Installs :
          attempt'[o][j].status = "succeeded" <=>
            (o = e /\ j = i) \/ attempt[o][j].status = "succeeded"
    BY <1>10
  <2>4. \A o \in Enrollments : enrollment'[o].state = "consumed" <=>
             \E j \in Installs : attempt'[o][j].status = "succeeded"
    BY <1>9, <2>1, <2>3
  <2>5. \A o \in Enrollments, j, k \in Installs :
             attempt'[o][j].status = "succeeded" /\ attempt'[o][k].status = "succeeded" => j = k
    BY <2>1, <2>2, <2>3
  <2>6. ASSUME NEW o \in Enrollments, NEW j \in Installs, attempt'[o][j].status = "succeeded"
        PROVE  WonBy(o, j)'
    <3>1. CASE o = e /\ j = i
      <4>1. attempt'[o][j].agent = n
        BY <1>10, <3>1
      <4> QED
        BY <1>6, <1>7, <1>9, <3>1, <4>1 DEF WonBy
    <3>2. CASE ~(o = e /\ j = i)
      <4>1. attempt[o][j].status = "succeeded" /\ attempt'[o][j] = attempt[o][j]
        BY <1>10, <2>6, <3>2
      <4>2. o # e /\ WonBy(o, j)
        BY <2>1, <2>2, <4>1
      <4> QED
        BY <1>7, <1>9, <4>1, <4>2 DEF WonBy
    <3> QED
      BY <3>1, <3>2
  <2> QED
    BY <2>4, <2>5, <2>6 DEF RowsAgree, WonBy
<1> QED
  BY <1>3, <1>6, <1>7, <1>8, <1>9, <1>10, <1>11, <1>12, <1>13, <1>14, <1>15

\* Tokens that stay in being, in their Cluster, with a name while they are open.
LEMMA TokensStayMade ==
    ASSUME EnrollmentInv,
           \A e \in Enrollments :
             /\ enrollment'[e].state = "none" <=> enrollment[e].state = "none"
             /\ enrollment[e].state = "none" => enrollment'[e].cluster = enrollment[e].cluster
             /\ enrollment'[e].state = "open" => enrollment'[e].name \in Names
    PROVE  TokensAreMade'
<1>1. PICK n \in 0..MaxEnrollments :
        \A e \in Enrollments : enrollment[e].state # "none" <=> e <= n
  BY DEF EnrollmentInv, TokensAreMade
<1>2. \A e \in Enrollments : enrollment'[e].state # "none" <=> e <= n
  BY <1>1
<1>3. \A e \in Enrollments : enrollment'[e].state = "none" => enrollment'[e].cluster = None
  BY DEF EnrollmentInv, TokensAreMade
<1> QED
  BY <1>2, <1>3 DEF TokensAreMade, Open

\* The rest of the invariant, when only the state of unspent tokens changes.
LEMMA TokenStep ==
    ASSUME EnrollmentInv, UNCHANGED <<attempt, agents, call, agentVars, faults>>,
           parent' \in {"active", "suspended"}, clusters' \in Seq(Cluster),
           enrollment' \in [Enrollments -> Enrollment],
           issuing' \in [step : {"idle", "requested", "checked"}, cluster : Nat,
                         name : Names \cup {NoName}, released : SUBSET Enrollments],
           \A e \in Enrollments :
             /\ enrollment[e].state \in {"consumed", "deleted"} =>
                  /\ enrollment'[e].state = enrollment[e].state
                  /\ enrollment'[e].cluster = enrollment[e].cluster
             /\ enrollment'[e].state = "consumed" => enrollment[e].state = "consumed",
           TokensAreMade', CreationHolds'
    PROVE  EnrollmentInv'
<1> USE DEF agentVars
<1>1. TypeOK'
  BY DEF EnrollmentInv, TypeOK
<1>2. CallsAreMeant'
  BY DEF EnrollmentInv, CallsAreMeant
<1>3. AgentIds' = AgentIds
  BY DEF AgentIds
<1>4. IdentitiesAreOwn'
  BY <1>3 DEF EnrollmentInv, IdentitiesAreOwn
<1>5. \A a \in AgentIds : agents[a].token \in Enrollments
  <2> TAKE a \in AgentIds
  <2>1. agents[a] \in Agent
    BY DEF EnrollmentInv, TypeOK, AgentIds
  <2> QED
    BY <2>1 DEF Agent
<1>6. SpentForGood'
  BY <1>3, <1>5 DEF EnrollmentInv, SpentForGood
<1>7. RowsAgree'
  <2>1. /\ \A e \in Enrollments : enrollment[e].state = "consumed" <=>
             \E i \in Installs : attempt[e][i].status = "succeeded"
        /\ \A e \in Enrollments, i, j \in Installs :
             attempt[e][i].status = "succeeded" /\ attempt[e][j].status = "succeeded" => i = j
        /\ \A e \in Enrollments, i \in Installs :
             attempt[e][i].status = "succeeded" => WonBy(e, i)
    BY RowsByAttempt DEF EnrollmentInv
  <2>2. \A e \in Enrollments : enrollment'[e].state = "consumed" <=>
             \E i \in Installs : attempt[e][i].status = "succeeded"
    BY <2>1
  <2>3. \A e \in Enrollments, i \in Installs :
          attempt[e][i].status = "succeeded" =>
            LET a == attempt[e][i].agent IN
            /\ a \in AgentIds /\ agents[a].holder = i /\ agents[a].token = e
            /\ agents[a].cluster = enrollment'[e].cluster
    BY <2>1 DEF WonBy
  <2> QED
    BY <1>3, <2>1, <2>2, <2>3 DEF RowsAgree
<1> QED
  BY <1>1, <1>2, <1>4, <1>6, <1>7 DEF EnrollmentInv

\* And when only processes and calls move.
LEMMA ProcessStep ==
    ASSUME EnrollmentInv, UNCHANGED <<dbVars, issuing>>,
           call' \in [Calls -> CallRecords], process' \in [Installs -> ProcessRecords],
           secret' \in [Installs -> [state : {"none", "pending", "complete"},
                                     agent : 0..MaxAgents]],
           token' \in [Installs -> 0..MaxEnrollments], faults' \in 0..MaxFaults,
           CallsAreMeant', IdentitiesAreOwn'
    PROVE  EnrollmentInv'
<1> USE DEF dbVars
<1>1. TypeOK'
  BY DEF EnrollmentInv, TypeOK, CallRecords, ProcessRecords
<1>2. TokensAreMade' /\ CreationHolds'
  BY DEF EnrollmentInv, TokensAreMade, CreationHolds, Open
<1>3. AgentIds' = AgentIds
  BY DEF AgentIds
<1>4. SpentForGood'
  BY <1>3 DEF EnrollmentInv, SpentForGood
<1>5. RowsAgree'
  BY <1>3 DEF EnrollmentInv, RowsAgree
<1> QED
  BY <1>1, <1>2, <1>4, <1>5 DEF EnrollmentInv

LEMMA FaultType == EnrollmentInv /\ Fault => faults' \in 0..MaxFaults
BY EnrollmentAssumption DEF EnrollmentInv, TypeOK, Fault

LEMMA EnrollmentInit == Init => EnrollmentInv
<1> SUFFICES ASSUME Init PROVE EnrollmentInv
  OBVIOUS
<1>1. /\ 0 \in 0..MaxEnrollments /\ 0 \in 0..MaxAgents /\ 0 \in 0..MaxFaults
      /\ MaxEnrollments \in Enrollments
  BY EnrollmentAssumption DEF Enrollments
<1>2. TypeOK
  <2>1. clusters \in Seq(Cluster) /\ agents \in Seq(Agent)
    BY DEF Init
  <2>2. enrollment \in [Enrollments -> Enrollment]
    BY DEF Init, Enrollment, None
  <2>3. attempt \in [Enrollments -> [Installs -> Attempt]]
    <3>1. NoAttempt \in Attempt
      BY <1>1 DEF NoAttempt, Attempt, None
    <3> QED
      BY <3>1 DEF Init
  <2>4. issuing \in [step : {"idle", "requested", "checked"}, cluster : Nat,
                     name : Names \cup {NoName}, released : SUBSET Enrollments]
    BY DEF Init, NotIssuing, None
  <2>5. call \in [Calls -> CallRecords] /\ process \in [Installs -> ProcessRecords]
    BY IdleRecords DEF Init
  <2>6. /\ secret \in [Installs -> [state : {"none", "pending", "complete"},
                                    agent : 0..MaxAgents]]
        /\ token \in [Installs -> 0..MaxEnrollments]
    BY <1>1 DEF Init, None
  <2> QED
    BY <1>1, <2>1, <2>2, <2>3, <2>4, <2>5, <2>6
       DEF Init, TypeOK, CallRecords, ProcessRecords
<1>3. TokensAreMade
  <2>1. \A e \in Enrollments : enrollment[e].state # "none" <=> e <= 0
    BY DEF Init, Enrollments
  <2>2. \A e \in Enrollments : enrollment[e].state = "none" /\ enrollment[e].cluster = None
    BY DEF Init
  <2> QED
    BY <1>1, <2>1, <2>2 DEF TokensAreMade, Open
<1>4. CreationHolds
  BY DEF Init, CreationHolds, NotIssuing
<1>5. CallsAreMeant
  BY DEF Init, CallsAreMeant, IdleCall, Down
<1>6. IdentitiesAreOwn
  BY DEF Init, IdentitiesAreOwn, Down
<1>7. AgentIds = {}
  BY DEF Init, AgentIds
<1>8. SpentForGood
  BY <1>7 DEF SpentForGood
<1>9. RowsAgree
  BY DEF Init, RowsAgree, NoAttempt
<1> QED
  BY <1>2, <1>3, <1>4, <1>5, <1>6, <1>8, <1>9 DEF EnrollmentInv

-----------------------------------------------------------------------------
(* The Agent's steps.                                                       *)

SecretRecords == [state : {"none", "pending", "complete"}, agent : 0..MaxAgents]

\* A process that moves soundly, with its Secret, keeps the invariant.
LEMMA ProcessMoves ==
    ASSUME EnrollmentInv, NEW i \in Installs, NEW p \in ProcessRecords,
           process' = [process EXCEPT ![i] = p],
           NEW s \in SecretRecords, secret' = [secret EXCEPT ![i] = s],
           UNCHANGED <<dbVars, issuing, token>>, faults' \in 0..MaxFaults,
           call' \in [Calls -> CallRecords],
           \A k \in Calls : call'[k].state # "idle" =>
             call'[k].install \in Installs /\ call'[k].token \in Enrollments,
           p.phase \in {"ready", "waiting"} => p.token \in Enrollments,
           p.call # NoCall => p.phase = "waiting",
           p.phase \in {"ready", "waiting", "granted"} => s.state = "pending",
           s.state # "complete" => s.agent = None,
           p.phase = "granted" => p.agent \in AgentIds /\ agents[p.agent].holder = i
    PROVE  EnrollmentInv'
<1>1. /\ process \in [Installs -> ProcessRecords] /\ secret \in [Installs -> SecretRecords]
      /\ token \in [Installs -> 0..MaxEnrollments]
  BY DEF EnrollmentInv, TypeOK, ProcessRecords, SecretRecords
<1>2. process' \in [Installs -> ProcessRecords] /\ secret' \in [Installs -> SecretRecords]
  BY <1>1
<1>3. CallsAreMeant'
  BY <1>1 DEF EnrollmentInv, CallsAreMeant
<1>4. AgentIds' = AgentIds /\ agents' = agents
  BY DEF AgentIds, dbVars
<1>5. IdentitiesAreOwn'
  <2> SUFFICES ASSUME NEW j \in Installs
               PROVE  /\ process'[j].phase \in {"ready", "waiting", "granted"}
                           => secret'[j].state = "pending"
                      /\ secret'[j].state # "complete" => secret'[j].agent = None
                      /\ process'[j].phase = "granted" =>
                           /\ process'[j].agent \in AgentIds
                           /\ agents[process'[j].agent].holder = j
    BY <1>4 DEF IdentitiesAreOwn
  <2>1. CASE j = i
    <3>1. process'[j] = p /\ secret'[j] = s
      BY <1>1, <2>1
    <3> QED
      BY <2>1, <3>1
  <2>2. CASE j # i
    <3>1. process'[j] = process[j] /\ secret'[j] = secret[j]
      BY <1>1, <2>2
    <3> QED
      BY <3>1 DEF EnrollmentInv, IdentitiesAreOwn
  <2> QED
    BY <2>1, <2>2
<1> QED
  BY <1>1, <1>2, <1>3, <1>5, ProcessStep DEF SecretRecords

\* What those steps find.
LEMMA ProcessNow ==
    ASSUME EnrollmentInv, NEW i \in Installs
    PROVE  /\ process \in [Installs -> ProcessRecords] /\ process[i] \in ProcessRecords
           /\ secret \in [Installs -> SecretRecords] /\ secret[i] \in SecretRecords
           /\ secret = [secret EXCEPT ![i] = secret[i]]
           /\ call \in [Calls -> CallRecords] /\ token[i] \in 0..MaxEnrollments
           /\ faults \in 0..MaxFaults
           /\ \A k \in Calls : call[k].state # "idle" =>
                call[k].install \in Installs /\ call[k].token \in Enrollments
           /\ process[i].phase \in {"ready", "waiting"} => process[i].token \in Enrollments
           /\ process[i].call # NoCall => process[i].phase = "waiting"
           /\ process[i].phase \in {"ready", "waiting", "granted"} => secret[i].state = "pending"
           /\ secret[i].state # "complete" => secret[i].agent = None
           /\ process[i].phase = "granted" =>
                process[i].agent \in AgentIds /\ agents[process[i].agent].holder = i
<1>1. /\ process \in [Installs -> ProcessRecords] /\ secret \in [Installs -> SecretRecords]
      /\ call \in [Calls -> CallRecords] /\ token \in [Installs -> 0..MaxEnrollments]
  BY DEF EnrollmentInv, TypeOK, ProcessRecords, SecretRecords, CallRecords
<1> QED
  BY <1>1 DEF EnrollmentInv, TypeOK, CallsAreMeant, IdentitiesAreOwn

\* A process that has been started again waits for nothing.
LEMMA DownFacts ==
    /\ Down \in ProcessRecords /\ Down.phase = "down" /\ Down.call = NoCall
BY IdleRecords DEF Down

LEMMA StartStep ==
    ASSUME EnrollmentInv, NEW i \in Installs, AgentStart(i)
    PROVE  EnrollmentInv'
<1>1. token[i] \in Enrollments
  BY ProcessNow DEF AgentStart, Enrollments, None
<1>2. CASE secret[i].state = "complete"
  <2> DEFINE q == [Down EXCEPT !.phase = "running"]
             r == [q EXCEPT !.agent = secret[i].agent]
  <2>1. q \in ProcessRecords /\ q.phase = "running" /\ q.call = NoCall
    BY DownFacts, ProcessFields DEF Phases
  <2>2. process' = [process EXCEPT ![i] = r]
    BY <1>2 DEF AgentStart, q
  <2> HIDE DEF q
  <2>3. secret[i].agent \in 0..MaxAgents
    BY ProcessNow DEF SecretRecords
  <2>4. r \in ProcessRecords /\ r.phase = "running" /\ r.call = NoCall
    BY <2>1, <2>3, ProcessFields
  <2> HIDE DEF r
  <2>5. secret' = [secret EXCEPT ![i] = secret[i]]
    BY <1>2, ProcessNow DEF AgentStart
  <2>6. UNCHANGED <<dbVars, issuing, call, token, faults>>
    BY DEF AgentStart
  <2> QED
    BY <1>2, <2>2, <2>4, <2>5, <2>6, ProcessNow, ProcessMoves
<1>3. CASE secret[i].state # "complete"
  <2> DEFINE q == [Down EXCEPT !.phase = "ready"]
             r == [q EXCEPT !.token = token[i]]
             s == [secret[i] EXCEPT !.state = "pending"]
  <2>1. q \in ProcessRecords /\ q.phase = "ready" /\ q.call = NoCall
    BY DownFacts, ProcessFields DEF Phases
  <2>2. process' = [process EXCEPT ![i] = r]
    BY <1>3 DEF AgentStart, q
  <2> HIDE DEF q
  <2>3. r \in ProcessRecords /\ r.phase = "ready" /\ r.call = NoCall /\ r.token = token[i]
    BY <2>1, ProcessFields, ProcessNow
  <2> HIDE DEF r
  <2>4. s \in SecretRecords /\ s.state = "pending" /\ s.agent = None
    BY <1>3, ProcessNow DEF SecretRecords
  <2>5. secret' = [secret EXCEPT ![i] = s]
    BY <1>3 DEF AgentStart
  <2> HIDE DEF s
  <2>6. UNCHANGED <<dbVars, issuing, call, token, faults>>
    BY DEF AgentStart
  <2> QED
    BY <1>1, <2>2, <2>3, <2>4, <2>5, <2>6, ProcessNow, ProcessMoves
<1> QED
  BY <1>2, <1>3

LEMMA CallStep ==
    ASSUME EnrollmentInv, NEW i \in Installs, AgentCalls(i)
    PROVE  EnrollmentInv'
<1> DEFINE sent == [state |-> "sent", install |-> i, token |-> process[i].token]
<1>1. PICK k \in Calls :
        /\ call[k].state = "idle" /\ call' = [call EXCEPT ![k] = sent]
        /\ process' = [process EXCEPT ![i].phase = "waiting", ![i].call = k]
  BY DEF AgentCalls
<1> DEFINE q == [process[i] EXCEPT !.phase = "waiting"]
           r == [q EXCEPT !.call = k]
<1>2. process[i].phase = "ready" /\ process[i].token \in Enrollments
  BY ProcessNow DEF AgentCalls
<1>3. q \in ProcessRecords /\ q.phase = "waiting" /\ q.token = process[i].token
  <2>1. process[i] \in ProcessRecords /\ "waiting" \in Phases
    BY ProcessNow DEF Phases
  <2> QED
    BY <2>1, ProcessFields
<1>4. process' = [process EXCEPT ![i] = r]
  BY <1>1, ProcessNow DEF ProcessRecords
<1> HIDE DEF q
<1>5. r \in ProcessRecords /\ r.phase = "waiting" /\ r.token = process[i].token
  BY <1>3, ProcessFields
<1> HIDE DEF r
<1>6. sent \in CallRecords
  BY <1>2 DEF CallRecords, Enrollments
<1>7. /\ call' \in [Calls -> CallRecords]
      /\ \A m \in Calls : call'[m].state # "idle" =>
           call'[m].install \in Installs /\ call'[m].token \in Enrollments
  BY <1>1, <1>2, <1>6, ProcessNow
<1>8. UNCHANGED <<dbVars, issuing, token, faults>> /\ secret' = [secret EXCEPT ![i] = secret[i]]
  BY ProcessNow DEF AgentCalls
<1> QED
  BY <1>2, <1>4, <1>5, <1>7, <1>8, ProcessNow, ProcessMoves

\* The steps after which the process is down or runs, or asks once more.
LEMMA LeaveStep ==
    ASSUME EnrollmentInv, NEW i \in Installs,
           \/ AgentGivesUp(i) \/ AgentCrash(i) \/ AgentStores(i) \/ AgentFailsToStore(i)
    PROVE  EnrollmentInv'
<1> DEFINE q == [process[i] EXCEPT !.phase = "ready"]
           r == [q EXCEPT !.call = NoCall]
           running == [process[i] EXCEPT !.phase = "running"]
           s == [state |-> "complete", agent |-> process[i].agent]
<1>1. r \in ProcessRecords /\ r.phase = "ready" /\ r.call = NoCall /\ r.token = process[i].token
  <2>1. q \in ProcessRecords /\ q.phase = "ready" /\ q.token = process[i].token
    <3>1. process[i] \in ProcessRecords /\ "ready" \in Phases
      BY ProcessNow DEF Phases
    <3> QED
      BY <3>1, ProcessFields
  <2> HIDE DEF q
  <2> QED
    BY <2>1, ProcessFields
<1>2. /\ running \in ProcessRecords /\ running.phase = "running"
      /\ running.call = process[i].call
  BY ProcessNow, ProcessFields DEF Phases
<1>3. s \in SecretRecords /\ s.state = "complete"
  BY ProcessNow DEF SecretRecords, ProcessRecords
<1>4. UNCHANGED <<dbVars, issuing, call, token>> /\ faults' \in 0..MaxFaults
  BY FaultType, ProcessNow DEF AgentGivesUp, AgentCrash, AgentStores, AgentFailsToStore
<1>5. CASE AgentGivesUp(i)
  <2>1. process' = [process EXCEPT ![i] = r]
    BY <1>5, ProcessNow DEF AgentGivesUp, ProcessRecords
  <2>2. /\ secret' = [secret EXCEPT ![i] = secret[i]] /\ process[i].phase = "waiting"
    BY <1>5, ProcessNow DEF AgentGivesUp
  <2> HIDE DEF r
  <2> QED
    BY <1>1, <1>4, <2>1, <2>2, ProcessNow, ProcessMoves
<1>6. CASE AgentCrash(i)
  <2>1. /\ process' = [process EXCEPT ![i] = Down]
        /\ secret' = [secret EXCEPT ![i] = secret[i]]
    BY <1>6, ProcessNow DEF AgentCrash
  <2> QED
    BY <1>4, <2>1, DownFacts, ProcessNow, ProcessMoves
<1>7. CASE AgentStores(i)
  <2>1. process' = [process EXCEPT ![i] = running] /\ process[i].phase = "granted"
    BY <1>7, ProcessNow DEF AgentStores
  <2>2. secret' = [secret EXCEPT ![i] = s]
    BY <1>7 DEF AgentStores, StoreIdentity
  <2>3. process[i].call = NoCall
    BY <2>1, ProcessNow
  <2> HIDE DEF running, s
  <2> QED
    BY <1>2, <1>3, <1>4, <2>1, <2>2, <2>3, ProcessNow, ProcessMoves
<1>8. CASE AgentFailsToStore(i)
  <2>1. process' = [process EXCEPT ![i] = Down]
    BY <1>8 DEF AgentFailsToStore
  <2>2. secret' = [secret EXCEPT ![i] = s] \/ secret' = [secret EXCEPT ![i] = secret[i]]
    BY <1>8, ProcessNow DEF AgentFailsToStore, StoreIdentity
  <2> HIDE DEF s
  <2>3. CASE secret' = [secret EXCEPT ![i] = s]
    BY <1>3, <1>4, <2>1, <2>3, DownFacts, ProcessNow, ProcessMoves
  <2>4. CASE secret' = [secret EXCEPT ![i] = secret[i]]
    BY <1>4, <2>1, <2>4, DownFacts, ProcessNow, ProcessMoves
  <2> QED
    BY <2>2, <2>3, <2>4
<1> QED
  BY <1>5, <1>6, <1>7, <1>8

LEMMA InstallStep ==
    ASSUME EnrollmentInv, NEW i \in Installs, NEW e \in Enrollments, Install(i, e)
    PROVE  EnrollmentInv'
<1>1. token' \in [Installs -> 0..MaxEnrollments]
  BY DEF Install, EnrollmentInv, TypeOK, Enrollments
<1>2. UNCHANGED <<dbVars, issuing, call, secret, process, faults>>
  BY DEF Install
<1>3. CallsAreMeant' /\ IdentitiesAreOwn'
  BY <1>2 DEF EnrollmentInv, CallsAreMeant, IdentitiesAreOwn, AgentIds, dbVars
<1> QED
  BY <1>1, <1>2, <1>3, ProcessStep, ProcessNow
     DEF EnrollmentInv, TypeOK, CallRecords, ProcessRecords

-----------------------------------------------------------------------------
(* The Server's steps.                                                      *)

\* A request that is handled is known, with its row of enrollment_attempts.
LEMMA CallNow ==
    ASSUME EnrollmentInv, NEW k \in Calls, call[k].state # "idle"
    PROVE  /\ call[k].install \in Installs /\ call[k].token \in Enrollments
           /\ attempt[call[k].token][call[k].install] \in Attempt
<1>1. call[k].install \in Installs /\ call[k].token \in Enrollments
  BY DEF EnrollmentInv, CallsAreMeant
<1> QED
  BY <1>1 DEF EnrollmentInv, TypeOK

LEMMA SameAgents == UNCHANGED agents => AgentsStay
BY DEF AgentsStay, AgentIds

\* The answer to a request that has been handled before is that of the winner.
LEMMA ReplayStep ==
    ASSUME EnrollmentInv, NEW k \in Calls, Replay(k) \/ Refuse(k)
    PROVE  EnrollmentInv'
<1> DEFINE past == attempt[call[k].token][call[k].install]
<1>1. call[k].state # "idle"
  BY DEF Replay, Refuse
<1>2. past \in Attempt /\ call[k].token \in Enrollments /\ call[k].install \in Installs
  BY <1>1, CallNow
<1>3. past.agent \in 0..MaxAgents /\ None \in 0..MaxAgents
  BY <1>2, EnrollmentAssumption DEF Attempt, None
<1>4. UNCHANGED <<dbVars, issuing, secret, token, faults>>
  BY DEF Replay, Refuse
<1>5. AgentsStay /\ AgentIds' = AgentIds /\ agents' = agents
  BY <1>4, SameAgents DEF dbVars, AgentIds
<1>6. /\ call' \in [Calls -> CallRecords] /\ process' \in [Installs -> ProcessRecords]
      /\ CallsAreMeant' /\ IdentitiesAreOwn'
  <2>1. CASE Replay(k)
    <3>1. past.status = "succeeded" /\ Answer(k, "granted", past.agent)
      BY <2>1 DEF Replay
    <3>2. WonBy(call[k].token, call[k].install)
      BY <1>2, <3>1, RowsByAttempt DEF EnrollmentInv
    <3>3. past.agent \in AgentIds /\ agents[past.agent].holder = call[k].install
      BY <3>2 DEF WonBy
    <3> QED
      BY <1>1, <1>3, <1>4, <1>5, <3>1, <3>3, AnswerKeeps
  <2>2. CASE Refuse(k)
    <3>1. Answer(k, "refused", None)
      BY <2>2 DEF Refuse
    <3> QED
      BY <1>1, <1>3, <1>4, <1>5, <3>1, AnswerKeeps
  <2> QED
    BY <2>1, <2>2
<1> QED
  BY <1>4, <1>6, ProcessStep DEF EnrollmentInv, TypeOK

\* A pending attempt takes nobody's place.
LEMMA BeginStep ==
    ASSUME EnrollmentInv, NEW k \in Calls, Begin(k)
    PROVE  EnrollmentInv'
<1> DEFINE e == call[k].token
           i == call[k].install
           begun == [attempt[e][i] EXCEPT !.status = "pending"]
           asked == [call[k] EXCEPT !.state = "begun"]
<1>1. /\ e \in Enrollments /\ i \in Installs /\ attempt[e][i] \in Attempt
      /\ attempt[e][i].status # "succeeded"
  BY CallNow DEF Begin
<1>2. begun \in Attempt /\ begun.status = "pending"
  BY <1>1 DEF Attempt
<1>3. attempt' = [attempt EXCEPT ![e] = [attempt[e] EXCEPT ![i] = begun]]
  BY DEF Begin
<1> HIDE DEF begun
<1>4. attempt \in [Enrollments -> [Installs -> Attempt]]
  BY DEF EnrollmentInv, TypeOK
<1>5. [attempt[e] EXCEPT ![i] = begun] \in [Installs -> Attempt]
  BY <1>1, <1>2, <1>4
<1>6. attempt' \in [Enrollments -> [Installs -> Attempt]]
  BY <1>3, <1>4, <1>5
<1>7. \A o \in Enrollments, j \in Installs :
        /\ attempt'[o][j].status = "succeeded" <=> attempt[o][j].status = "succeeded"
        /\ attempt'[o][j].status = "succeeded" => attempt'[o][j] = attempt[o][j]
  BY <1>1, <1>2, <1>3, <1>4
<1>8. /\ asked \in CallRecords /\ asked.install = i /\ asked.token = e
      /\ call' = [call EXCEPT ![k] = asked]
  <2>1. call \in [Calls -> CallRecords] /\ call[k] \in CallRecords
    BY DEF CallRecords, EnrollmentInv, TypeOK
  <2>2. asked \in CallRecords /\ asked.install = i /\ asked.token = e
    BY <2>1 DEF CallRecords
  <2>3. call' = [call EXCEPT ![k] = asked]
    BY DEF Begin
  <2> QED
    BY <2>2, <2>3
<1> HIDE DEF asked
<1>9. call' \in [Calls -> CallRecords]
  BY <1>8 DEF EnrollmentInv, TypeOK, CallRecords
<1>10. UNCHANGED <<parent, clusters, enrollment, agents, issuing, secret, token, process,
                   faults>>
  BY DEF Begin, agentVars
<1>11. TypeOK'
  BY <1>6, <1>9, <1>10 DEF EnrollmentInv, TypeOK, CallRecords
<1>12. TokensAreMade' /\ CreationHolds'
  BY <1>10 DEF EnrollmentInv, TokensAreMade, CreationHolds, Open
<1>13. CallsAreMeant'
  BY <1>1, <1>8, <1>10 DEF EnrollmentInv, CallsAreMeant, TypeOK
<1>14. AgentIds' = AgentIds
  BY <1>10 DEF AgentIds
<1>15. IdentitiesAreOwn' /\ SpentForGood'
  BY <1>10, <1>14 DEF EnrollmentInv, IdentitiesAreOwn, SpentForGood
<1>16. RowsAgree'
  <2>1. /\ \A o \in Enrollments : enrollment[o].state = "consumed" <=>
             \E j \in Installs : attempt[o][j].status = "succeeded"
        /\ \A o \in Enrollments, j, m \in Installs :
             attempt[o][j].status = "succeeded" /\ attempt[o][m].status = "succeeded" => j = m
        /\ \A o \in Enrollments, j \in Installs :
             attempt[o][j].status = "succeeded" => WonBy(o, j)
    BY RowsByAttempt DEF EnrollmentInv
  <2> QED
    BY <1>7, <1>10, <1>14, <2>1 DEF RowsAgree, WonBy
<1> QED
  BY <1>11, <1>12, <1>13, <1>15, <1>16 DEF EnrollmentInv

\* A transaction that spends the token, with an answer that reaches the process or not.
LEMMA SpendStep ==
    ASSUME EnrollmentInv, NEW k \in Calls, Completable(k),
           EnrollAgent(call[k].token, call[k].install),
           NEW answer, NEW agent \in 0..MaxAgents, Answer(k, answer, agent),
           answer = "granted" => agent = Len(agents) + 1,
           UNCHANGED <<issuing, secret, token>>, faults' \in 0..MaxFaults
    PROVE  EnrollmentInv'
<1>1. call[k].state # "idle" /\ call[k].install \in Installs /\ call[k].token \in Enrollments
  BY CallNow DEF Completable
<1>2. Open(call[k].token) /\ Unlocked(call[k].token) /\ Len(agents) < MaxAgents
  BY DEF Completable, Usable
<1>3. /\ clusters' \in Seq(Cluster) /\ agents' \in Seq(Agent)
      /\ enrollment' \in [Enrollments -> Enrollment]
      /\ attempt' \in [Enrollments -> [Installs -> Attempt]]
      /\ TokensAreMade' /\ CreationHolds' /\ SpentForGood' /\ RowsAgree' /\ AgentsStay
      /\ Len(agents) + 1 \in AgentIds' /\ agents'[Len(agents) + 1].holder = call[k].install
  BY <1>1, <1>2, Spending
<1>4. /\ call' \in [Calls -> CallRecords] /\ process' \in [Installs -> ProcessRecords]
      /\ CallsAreMeant' /\ IdentitiesAreOwn'
  BY <1>1, <1>3, AnswerKeeps
<1>5. parent' = parent
  BY DEF EnrollAgent
<1>6. TypeOK'
  BY <1>3, <1>4, <1>5 DEF EnrollmentInv, TypeOK, CallRecords, ProcessRecords
<1> QED
  BY <1>3, <1>4, <1>6 DEF EnrollmentInv

LEMMA CompleteStep ==
    ASSUME EnrollmentInv, NEW k \in Calls, Complete(k) \/ CallFails(k)
    PROVE  EnrollmentInv'
<1> DEFINE e == call[k].token
           i == call[k].install
<1>1. call[k].state # "idle" /\ UNCHANGED <<issuing, secret, token>>
  BY DEF Complete, Completable, CallFails
<1>2. None \in 0..MaxAgents
  BY EnrollmentAssumption DEF None
<1>3. faults' \in 0..MaxFaults
  BY FaultType DEF Complete, CallFails, EnrollmentInv, TypeOK
<1>4. ASSUME NEW answer \in {"refused", "failed"}, Answer(k, answer, None), UNCHANGED dbVars
      PROVE  EnrollmentInv'
  <2>1. AgentsStay
    BY <1>4, SameAgents DEF dbVars
  <2>2. answer # "granted"
    BY <1>4
  <2>3. /\ call' \in [Calls -> CallRecords] /\ process' \in [Installs -> ProcessRecords]
        /\ CallsAreMeant' /\ IdentitiesAreOwn'
    BY <1>1, <1>2, <1>4, <2>1, <2>2, AnswerKeeps
  <2> QED
    BY <1>1, <1>3, <1>4, <2>3, ProcessStep DEF EnrollmentInv, TypeOK
<1>5. CASE Complete(k)
  <2>1. CASE NameConflict(e) \/ AgentConflict(e)
    <3>1. /\ Answer(k, IF NameConflict(e) THEN "refused" ELSE "failed", None)
          /\ UNCHANGED dbVars
      BY <1>5, <2>1 DEF Complete
    <3>2. CASE NameConflict(e)
      BY <1>4, <3>1, <3>2
    <3>3. CASE ~NameConflict(e)
      BY <1>4, <3>1, <3>3
    <3> QED
      BY <3>2, <3>3
  <2>2. CASE ~(NameConflict(e) \/ AgentConflict(e))
    <3>1. Completable(k) /\ EnrollAgent(e, i) /\ Answer(k, "granted", Len(agents) + 1)
      BY <1>5, <2>2 DEF Complete
    <3>2. Len(agents) \in Nat /\ Len(agents) < MaxAgents
      BY <3>1 DEF EnrollmentInv, TypeOK, Completable
    <3>3. Len(agents) + 1 \in 0..MaxAgents
      BY <3>2, EnrollmentAssumption
    <3> QED
      BY <1>1, <1>3, <3>1, <3>3, SpendStep
  <2> QED
    BY <2>1, <2>2
<1>6. CASE CallFails(k)
  <2>1. Answer(k, "failed", None)
    BY <1>6 DEF CallFails
  <2>2. CASE UNCHANGED dbVars
    BY <1>4, <2>1, <2>2
  <2>3. CASE Completable(k) /\ EnrollAgent(e, i)
    BY <1>1, <1>2, <1>3, <2>1, <2>3, SpendStep
  <2> QED
    BY <1>6, <2>2, <2>3 DEF CallFails
<1> QED
  BY <1>5, <1>6

-----------------------------------------------------------------------------
(* The administrators' steps.                                               *)

IssuingRecords == [step : {"idle", "requested", "checked"}, cluster : Nat,
                   name : Names \cup {NoName}, released : SUBSET Enrollments]

LEMMA NotIssuingFacts ==
    /\ NotIssuing \in IssuingRecords
    /\ NotIssuing.step = "idle" /\ NotIssuing.released = {}
BY DEF NotIssuing, IssuingRecords, None

\* When only the creation of a token under way moves.
LEMMA IssuingMoves ==
    ASSUME EnrollmentInv, UNCHANGED <<dbVars, call, agentVars, faults>>,
           issuing' \in IssuingRecords, CreationHolds'
    PROVE  EnrollmentInv'
<1>1. TokensAreMade'
  BY DEF EnrollmentInv, TokensAreMade, Open, dbVars
<1> QED
  BY <1>1, TokenStep DEF dbVars, agentVars, EnrollmentInv, TypeOK, IssuingRecords

LEMMA RequestStep ==
    ASSUME EnrollmentInv, NEW c \in {None} \cup ClusterIds, NEW n \in Names,
           RequestEnrollment(c, n)
    PROVE  EnrollmentInv'
<1>1. c \in Nat
  BY DEF EnrollmentInv, TypeOK, ClusterIds, None
<1> DEFINE p == [NotIssuing EXCEPT !.step = "requested"]
           q == [p EXCEPT !.cluster = c]
           r == [q EXCEPT !.name = n]
<1>2. p \in IssuingRecords /\ p.step = "requested" /\ p.released = {}
  BY NotIssuingFacts DEF IssuingRecords
<1>3. issuing' = r
  BY DEF RequestEnrollment
<1> HIDE DEF p
<1>4. q \in IssuingRecords /\ q.released = {}
  BY <1>1, <1>2 DEF IssuingRecords
<1> HIDE DEF q
<1>5. r \in IssuingRecords /\ r.released = {} /\ r.name = n
  BY <1>4 DEF IssuingRecords
<1> HIDE DEF r
<1>6. enrollment[MaxEnrollments].state = "none" /\ UNCHANGED <<dbVars, call, agentVars, faults>>
  BY DEF RequestEnrollment
<1>7. CreationHolds'
  BY <1>3, <1>5, <1>6 DEF CreationHolds, dbVars
<1> QED
  BY <1>3, <1>5, <1>6, <1>7, IssuingMoves

LEMMA CheckStep ==
    ASSUME EnrollmentInv, CheckEnrollment
    PROVE  EnrollmentInv'
<1> DEFINE released == {e \in Enrollments :
             Open(e) /\ enrollment[e].lapsed /\ enrollment[e].name = issuing.name}
           p == [issuing EXCEPT !.step = "checked"]
           q == [p EXCEPT !.released = released]
<1>1. issuing \in IssuingRecords /\ issuing.step = "requested"
  BY DEF EnrollmentInv, TypeOK, IssuingRecords, CheckEnrollment
<1>2. issuing' = q \/ issuing' = NotIssuing
  BY DEF CheckEnrollment
<1>3. released \in SUBSET Enrollments /\ \A e \in released : Open(e)
  OBVIOUS
<1> HIDE DEF released
<1>4. p \in IssuingRecords /\ p.name = issuing.name
  BY <1>1 DEF IssuingRecords
<1> HIDE DEF p
<1>5. q \in IssuingRecords /\ q.name = issuing.name /\ q.released = released
  BY <1>3, <1>4 DEF IssuingRecords
<1> HIDE DEF q
<1>6. UNCHANGED <<dbVars, call, agentVars, faults>>
  BY DEF CheckEnrollment
<1>7. CreationHolds'
  <2>1. issuing.name \in Names /\ enrollment[MaxEnrollments].state = "none"
    BY <1>1 DEF EnrollmentInv, CreationHolds
  <2>2. CASE issuing' = NotIssuing
    BY <1>6, <2>2, NotIssuingFacts DEF CreationHolds
  <2>3. CASE issuing' = q
    BY <1>3, <1>5, <1>6, <2>1, <2>3 DEF CreationHolds, dbVars, Open
  <2> QED
    BY <1>2, <2>2, <2>3
<1> QED
  BY <1>2, <1>5, <1>6, <1>7, NotIssuingFacts, IssuingMoves

\* A creation finds the next token: there is one, as it was there when it was asked for.
LEMMA NextToken ==
    ASSUME EnrollmentInv, issuing.step = "checked"
    PROVE  LET e == CHOOSE e \in Enrollments :
                      /\ enrollment[e].state = "none"
                      /\ \A earlier \in 1..(e - 1) : enrollment[earlier].state # "none"
           IN /\ e \in Enrollments /\ enrollment[e].state = "none"
              /\ e - 1 \in 0..MaxEnrollments
              /\ \A o \in Enrollments : enrollment[o].state # "none" <=> o <= e - 1
<1>1. PICK n \in 0..MaxEnrollments :
        \A o \in Enrollments : enrollment[o].state # "none" <=> o <= n
  BY DEF EnrollmentInv, TokensAreMade
<1>2. n < MaxEnrollments
  <2>1. MaxEnrollments \in Enrollments /\ enrollment[MaxEnrollments].state = "none"
    BY EnrollmentAssumption DEF EnrollmentInv, CreationHolds, Enrollments
  <2> QED
    BY <1>1, <2>1, EnrollmentAssumption DEF Enrollments
<1> DEFINE First(e) == /\ enrollment[e].state = "none"
                       /\ \A earlier \in 1..(e - 1) : enrollment[earlier].state # "none"
<1>3. n + 1 \in Enrollments /\ First(n + 1)
  <2>1. n + 1 \in Enrollments /\ ~(n + 1 <= n) /\ n + 1 - 1 = n
    BY <1>2, EnrollmentAssumption DEF Enrollments
  <2>2. \A earlier \in 1..n : earlier \in Enrollments /\ earlier <= n
    BY <1>2, EnrollmentAssumption DEF Enrollments
  <2> QED
    BY <1>1, <2>1, <2>2
<1>4. \A e \in Enrollments : First(e) => e = n + 1
  <2> SUFFICES ASSUME NEW e \in Enrollments, First(e) PROVE e = n + 1
    OBVIOUS
  <2>1. ~(e <= n)
    BY <1>1
  <2>2. n + 1 < e => n + 1 \in 1..(e - 1)
    BY <1>2, EnrollmentAssumption DEF Enrollments
  <2>3. enrollment[n + 1].state = "none"
    BY <1>3
  <2>4. ~(n + 1 < e)
    BY <2>2, <2>3
  <2> QED
    BY <2>1, <2>4, EnrollmentAssumption DEF Enrollments
<1>5. (CHOOSE e \in Enrollments : First(e)) \in Enrollments
      /\ First(CHOOSE e \in Enrollments : First(e))
  BY <1>3
<1> DEFINE first == CHOOSE e \in Enrollments : First(e)
<1>6. first = n + 1
  BY <1>4, <1>5
<1> SUFFICES /\ first \in Enrollments /\ enrollment[first].state = "none"
             /\ first - 1 \in 0..MaxEnrollments
             /\ \A o \in Enrollments : enrollment[o].state # "none" <=> o <= first - 1
  OBVIOUS
<1> HIDE DEF first
<1>7. first - 1 = n
  BY <1>6, EnrollmentAssumption
<1> QED
  BY <1>1, <1>3, <1>6, <1>7

LEMMA CreateStep ==
    ASSUME EnrollmentInv, CreateEnrollment
    PROVE  EnrollmentInv'
<1> DEFINE e == CHOOSE e \in Enrollments :
                  /\ enrollment[e].state = "none"
                  /\ \A earlier \in 1..(e - 1) : enrollment[earlier].state # "none"
           made == [state |-> "open", lapsed |-> FALSE, cluster |-> issuing.cluster,
                    name |-> issuing.name]
<1>1. issuing.step = "checked" /\ issuing' = NotIssuing
      /\ UNCHANGED <<parent, clusters, attempt, agents, call, agentVars, faults>>
  BY DEF CreateEnrollment
<1>2. /\ e \in Enrollments /\ enrollment[e].state = "none" /\ e - 1 \in 0..MaxEnrollments
      /\ \A o \in Enrollments : enrollment[o].state # "none" <=> o <= e - 1
  BY <1>1, NextToken
<1>3. enrollment' = enrollment \/
      enrollment' = [o \in Enrollments |->
        IF o = e THEN made
        ELSE IF o \in issuing.released
        THEN [enrollment[o] EXCEPT !.state = "revoked"] ELSE enrollment[o]]
  BY DEF CreateEnrollment
<1> HIDE DEF e
<1>4. /\ enrollment \in [Enrollments -> Enrollment] /\ issuing \in IssuingRecords
      /\ issuing.name \in Names
      /\ \A o \in issuing.released : o \in Enrollments /\ enrollment[o].state = "open"
  BY <1>1 DEF EnrollmentInv, TypeOK, IssuingRecords, CreationHolds, Open
<1>5. CreationHolds'
  BY <1>1, NotIssuingFacts DEF CreationHolds
<1>6. ASSUME enrollment' \in [Enrollments -> Enrollment], TokensAreMade',
             \A o \in Enrollments :
               /\ enrollment[o].state \in {"consumed", "deleted"}
                    => enrollment'[o] = enrollment[o]
               /\ enrollment'[o].state = "consumed" => enrollment[o].state = "consumed"
      PROVE  EnrollmentInv'
  BY <1>1, <1>5, <1>6, NotIssuingFacts, TokenStep DEF EnrollmentInv, TypeOK, IssuingRecords
<1>7. CASE enrollment' = enrollment
  <2>1. TokensAreMade'
    BY <1>7 DEF EnrollmentInv, TokensAreMade, Open
  <2> QED
    BY <1>4, <1>6, <1>7, <2>1
<1>8. CASE enrollment' = [o \in Enrollments |->
        IF o = e THEN made
        ELSE IF o \in issuing.released
        THEN [enrollment[o] EXCEPT !.state = "revoked"] ELSE enrollment[o]]
  <2>1. made \in Enrollment /\ made.state = "open" /\ made.name \in Names
    BY <1>4 DEF Enrollment, IssuingRecords
  <2> HIDE DEF made
  <2>2. \A o \in Enrollments :
          LET r == [enrollment[o] EXCEPT !.state = "revoked"] IN
          r \in Enrollment /\ r.state = "revoked" /\ r.cluster = enrollment[o].cluster
    BY <1>4 DEF Enrollment
  <2>3. enrollment' \in [Enrollments -> Enrollment]
    BY <1>4, <1>8, <2>1, <2>2
  <2>4. /\ enrollment'[e] = made
        /\ \A o \in issuing.released : o # e /\ enrollment'[o].state = "revoked"
        /\ \A o \in Enrollments \ {e} : o \notin issuing.released
                                          => enrollment'[o] = enrollment[o]
    BY <1>2, <1>4, <1>8, <2>2
  <2>5. TokensAreMade'
    <3>1. \A o \in Enrollments : enrollment'[o].state # "none" <=> o <= e
      <4> TAKE o \in Enrollments
      <4>1. CASE o = e
        BY <2>1, <2>4, <4>1, EnrollmentAssumption DEF Enrollments
      <4>2. CASE o # e
        <5>1. enrollment'[o].state # "none" <=> enrollment[o].state # "none"
          BY <1>4, <2>4, <4>2
        <5>2. o <= e - 1 <=> o <= e
          BY <1>2, <4>2, EnrollmentAssumption DEF Enrollments
        <5> QED
          BY <1>2, <5>1, <5>2
      <4> QED
        BY <4>1, <4>2
    <3>2. e \in 0..MaxEnrollments
      BY <1>2, EnrollmentAssumption DEF Enrollments
    <3>3. \A o \in Enrollments : enrollment'[o].state = "none" => enrollment'[o].cluster = None
      BY <2>1, <2>4 DEF EnrollmentInv, TokensAreMade
    <3>4. \A o \in Enrollments : Open(o)' => enrollment'[o].name \in Names
      BY <2>1, <2>4 DEF EnrollmentInv, TokensAreMade, Open
    <3> QED
      BY <3>1, <3>2, <3>3, <3>4 DEF TokensAreMade
  <2>6. \A o \in Enrollments :
          /\ enrollment[o].state \in {"consumed", "deleted"} => enrollment'[o] = enrollment[o]
          /\ enrollment'[o].state = "consumed" => enrollment[o].state = "consumed"
    BY <1>2, <1>4, <2>1, <2>4
  <2> QED
    BY <1>6, <2>3, <2>5, <2>6
<1> QED
  BY <1>3, <1>7, <1>8

\* The rest of the invariant, when open tokens are revoked, renamed or lapse, and none of
\* them is locked by a creation.
LEMMA OpenTokensChange ==
    ASSUME EnrollmentInv, UNCHANGED <<issuing, attempt, agents, call, agentVars, faults>>,
           parent' \in {"active", "suspended"}, clusters' \in Seq(Cluster),
           enrollment' \in [Enrollments -> Enrollment],
           \A e \in Enrollments :
             \/ enrollment'[e] = enrollment[e]
             \/ /\ enrollment[e].state = "open"
                /\ \/ enrollment'[e].state = "revoked" /\ Unlocked(e)
                   \/ enrollment'[e].state = "open" /\ enrollment'[e].name \in Names
    PROVE  EnrollmentInv'
<1>1. \A e \in Enrollments :
        /\ enrollment'[e].state = "none" <=> enrollment[e].state = "none"
        /\ enrollment[e].state = "none" => enrollment'[e].cluster = enrollment[e].cluster
        /\ enrollment'[e].state = "open" => enrollment'[e].name \in Names
  BY DEF EnrollmentInv, TokensAreMade, Open
<1>2. TokensAreMade'
  BY <1>1, TokensStayMade
<1>3. CreationHolds'
  <2>1. MaxEnrollments \in Enrollments /\ issuing.released \subseteq Enrollments
    BY EnrollmentAssumption DEF Enrollments, EnrollmentInv, TypeOK
  <2>2. issuing.step # "idle" => enrollment'[MaxEnrollments].state = "none"
    BY <1>1, <2>1 DEF EnrollmentInv, CreationHolds
  <2>3. \A e \in issuing.released : enrollment'[e].state = "open"
    BY <2>1 DEF EnrollmentInv, CreationHolds, Unlocked, Open
  <2> QED
    BY <2>2, <2>3 DEF EnrollmentInv, CreationHolds, Open
<1> QED
  BY <1>2, <1>3, TokenStep DEF EnrollmentInv, TypeOK

LEMMA WithdrawStep ==
    ASSUME EnrollmentInv, NEW e \in Enrollments, RevokeEnrollment(e) \/ Lapse(e)
    PROVE  EnrollmentInv'
<1>1. enrollment \in [Enrollments -> Enrollment] /\ enrollment[e].state = "open"
      /\ enrollment[e].name \in Names
  BY DEF EnrollmentInv, TypeOK, TokensAreMade, RevokeEnrollment, Lapse, Open
<1> DEFINE revoked == [enrollment[e] EXCEPT !.state = "revoked"]
           lapsed == [enrollment[e] EXCEPT !.lapsed = TRUE]
<1>2. revoked \in Enrollment /\ revoked.state = "revoked"
  BY <1>1 DEF Enrollment
<1>3. lapsed \in Enrollment /\ lapsed.state = "open" /\ lapsed.name \in Names
  BY <1>1 DEF Enrollment
<1>4. UNCHANGED <<parent, clusters, issuing, attempt, agents, call, agentVars, faults>>
  BY DEF RevokeEnrollment, Lapse
<1>5. \/ enrollment' = [enrollment EXCEPT ![e] = revoked] /\ Unlocked(e)
      \/ enrollment' = [enrollment EXCEPT ![e] = lapsed]
  BY DEF RevokeEnrollment, Lapse
<1> HIDE DEF revoked, lapsed
<1>6. enrollment' \in [Enrollments -> Enrollment]
  BY <1>1, <1>2, <1>3, <1>5
<1>7. \A o \in Enrollments :
        \/ enrollment'[o] = enrollment[o]
        \/ /\ enrollment[o].state = "open"
           /\ \/ enrollment'[o].state = "revoked" /\ Unlocked(o)
              \/ enrollment'[o].state = "open" /\ enrollment'[o].name \in Names
  BY <1>1, <1>2, <1>3, <1>5
<1> QED
  BY <1>4, <1>6, <1>7, OpenTokensChange DEF EnrollmentInv, TypeOK

LEMMA UpdateStep ==
    ASSUME EnrollmentInv, NEW c \in ClusterIds, NEW n \in Names, NEW suspend \in BOOLEAN,
           UpdateCluster(c, n, suspend)
    PROVE  EnrollmentInv'
<1> DEFINE renamed == {e \in Enrollments : Open(e) /\ enrollment[e].cluster = c}
           released == {e \in Enrollments :
             /\ Open(e) /\ enrollment[e].lapsed
             /\ enrollment[e].name = n \/ e \in renamed}
           row == [name |-> n, status |-> IF suspend THEN "suspended" ELSE "pending"]
<1>1. enrollment \in [Enrollments -> Enrollment]
  BY DEF EnrollmentInv, TypeOK
<1>2. clusters' \in Seq(Cluster)
  <2>1. row \in Cluster
    BY DEF Cluster
  <2>2. clusters' = [clusters EXCEPT ![c] = row]
    BY DEF UpdateCluster
  <2>3. clusters \in Seq(Cluster) /\ c \in 1..Len(clusters)
    BY DEF EnrollmentInv, TypeOK, ClusterIds
  <2> HIDE DEF row
  <2> QED
    BY <2>1, <2>2, <2>3
<1>3. /\ \A e \in released : Unlocked(e)
      /\ enrollment' = [e \in Enrollments |->
           IF e \in released THEN [enrollment[e] EXCEPT !.state = "revoked"]
           ELSE IF e \in renamed THEN [enrollment[e] EXCEPT !.name = n]
           ELSE enrollment[e]]
      /\ UNCHANGED <<parent, issuing, attempt, agents, call, agentVars, faults>>
  BY DEF UpdateCluster
<1>4. \A e \in released \cup renamed : e \in Enrollments /\ enrollment[e].state = "open"
  BY DEF Open
<1> HIDE DEF renamed, released
<1>5. \A e \in Enrollments :
        LET r == [enrollment[e] EXCEPT !.state = "revoked"] IN
        r \in Enrollment /\ r.state = "revoked"
  BY <1>1 DEF Enrollment
<1>6. \A e \in Enrollments :
        LET r == [enrollment[e] EXCEPT !.name = n] IN
        r \in Enrollment /\ r.state = enrollment[e].state /\ r.name = n
  BY <1>1 DEF Enrollment
<1>7. enrollment' \in [Enrollments -> Enrollment]
  BY <1>1, <1>3, <1>5, <1>6
<1>8. \A e \in Enrollments :
        \/ enrollment'[e] = enrollment[e]
        \/ /\ enrollment[e].state = "open"
           /\ \/ enrollment'[e].state = "revoked" /\ Unlocked(e)
              \/ enrollment'[e].state = "open" /\ enrollment'[e].name \in Names
  <2> TAKE e \in Enrollments
  <2>1. CASE e \in released
    BY <1>3, <1>4, <1>5, <2>1
  <2>2. CASE e \notin released /\ e \in renamed
    BY <1>3, <1>4, <1>6, <2>2
  <2>3. CASE e \notin released /\ e \notin renamed
    BY <1>3, <2>3
  <2> QED
    BY <2>1, <2>2, <2>3
<1> QED
  BY <1>2, <1>3, <1>7, <1>8, OpenTokensChange DEF EnrollmentInv, TypeOK

LEMMA ParentStep ==
    ASSUME EnrollmentInv, UpdateParent
    PROVE  EnrollmentInv'
BY OpenTokensChange DEF EnrollmentInv, TypeOK, UpdateParent

\* When Agents are only marked, and the rows of some tokens go with the Agents'.
LEMMA DeleteStep ==
    ASSUME EnrollmentInv, NEW c \in ClusterIds, DeleteCluster(c)
    PROVE  EnrollmentInv'
<1> DEFINE gone == {e \in Enrollments : enrollment[e].cluster = c}
<1>1. /\ enrollment \in [Enrollments -> Enrollment] /\ agents \in Seq(Agent)
      /\ attempt \in [Enrollments -> [Installs -> Attempt]]
      /\ clusters \in Seq(Cluster) /\ c \in 1..Len(clusters)
  BY DEF EnrollmentInv, TypeOK, ClusterIds
<1>2. /\ \A e \in gone : Unlocked(e)
      /\ clusters' = [clusters EXCEPT ![c].status = "deleted"]
      /\ enrollment' = [e \in Enrollments |->
           IF e \in gone THEN [enrollment[e] EXCEPT !.state = "deleted"] ELSE enrollment[e]]
      /\ attempt' = [e \in Enrollments |->
           IF e \in gone THEN [i \in Installs |-> NoAttempt] ELSE attempt[e]]
      /\ agents' = [a \in AgentIds |->
           IF agents[a].cluster = c THEN [agents[a] EXCEPT !.status = "deleted"] ELSE agents[a]]
      /\ UNCHANGED <<parent, issuing, call, secret, token, process, faults>>
  BY DEF DeleteCluster, agentVars
<1>3. \A e \in gone : e \in Enrollments /\ enrollment[e].state # "none"
  BY <1>1 DEF EnrollmentInv, TokensAreMade, None
<1> HIDE DEF gone
<1>4. clusters' \in Seq(Cluster)
  <2>1. clusters[c] \in Cluster
    BY <1>1
  <2>2. [clusters[c] EXCEPT !.status = "deleted"] \in Cluster
    BY <2>1 DEF Cluster
  <2> QED
    BY <1>1, <1>2, <2>2
<1>5. \A e \in Enrollments :
        LET r == [enrollment[e] EXCEPT !.state = "deleted"] IN
        r \in Enrollment /\ r.state = "deleted"
  BY <1>1 DEF Enrollment
<1>6. /\ enrollment' \in [Enrollments -> Enrollment]
      /\ \A e \in gone : enrollment'[e].state = "deleted"
      /\ \A e \in Enrollments \ gone : enrollment'[e] = enrollment[e]
  BY <1>1, <1>2, <1>3, <1>5
<1>7. /\ attempt' \in [Enrollments -> [Installs -> Attempt]]
      /\ \A e \in gone, i \in Installs : attempt'[e][i].status = "none"
      /\ \A e \in Enrollments \ gone : attempt'[e] = attempt[e]
  <2>1. NoAttempt \in Attempt /\ NoAttempt.status = "none"
    BY EnrollmentAssumption DEF NoAttempt, Attempt, None
  <2> HIDE DEF NoAttempt
  <2> QED
    BY <1>1, <1>2, <1>3, <2>1
<1>8. \A a \in AgentIds :
        LET r == [agents[a] EXCEPT !.status = "deleted"] IN
        /\ r \in Agent /\ r.holder = agents[a].holder /\ r.token = agents[a].token
        /\ r.cluster = agents[a].cluster
  <2> TAKE a \in AgentIds
  <2>1. agents[a] \in Agent
    BY <1>1 DEF AgentIds
  <2> QED
    BY <2>1 DEF Agent
<1>9. /\ agents' \in Seq(Agent) /\ AgentIds' = AgentIds /\ AgentsStay
  <2>1. /\ agents' \in [AgentIds -> Agent]
        /\ \A a \in AgentIds : /\ agents'[a].holder = agents[a].holder
                               /\ agents'[a].token = agents[a].token
                               /\ agents'[a].cluster = agents[a].cluster
    BY <1>1, <1>2, <1>8 DEF AgentIds
  <2>2. Len(agents) \in Nat
    BY <1>1
  <2>3. agents' \in Seq(Agent) /\ Len(agents') = Len(agents)
    BY <2>1, <2>2 DEF AgentIds
  <2> QED
    BY <2>1, <2>3 DEF AgentsStay, AgentIds
<1>10. TypeOK'
  BY <1>2, <1>4, <1>6, <1>7, <1>9 DEF EnrollmentInv, TypeOK
<1>11. TokensAreMade'
  <2>1. \A e \in Enrollments :
          /\ enrollment'[e].state = "none" <=> enrollment[e].state = "none"
          /\ enrollment[e].state = "none" => enrollment'[e].cluster = enrollment[e].cluster
          /\ enrollment'[e].state = "open" => enrollment'[e].name \in Names
    BY <1>3, <1>6 DEF EnrollmentInv, TokensAreMade, Open
  <2> QED
    BY <2>1, TokensStayMade
<1>12. CreationHolds'
  <2>1. MaxEnrollments \in Enrollments /\ issuing.released \subseteq Enrollments
    BY EnrollmentAssumption DEF Enrollments, EnrollmentInv, TypeOK
  <2>2. issuing.step # "idle" => enrollment'[MaxEnrollments].state = "none"
    BY <1>3, <1>6, <2>1 DEF EnrollmentInv, CreationHolds
  <2>3. \A e \in issuing.released : enrollment'[e].state = "open"
    BY <1>2, <1>6, <2>1 DEF EnrollmentInv, CreationHolds, Unlocked, Open
  <2> QED
    BY <1>2, <2>2, <2>3 DEF EnrollmentInv, CreationHolds, Open
<1>13. CallsAreMeant' /\ IdentitiesAreOwn'
  BY <1>2, <1>9 DEF EnrollmentInv, CallsAreMeant, IdentitiesAreOwn, AgentsStay
<1>14. SpentForGood'
  <2> SUFFICES ASSUME NEW a \in AgentIds
               PROVE  enrollment'[agents'[a].token].state \in {"consumed", "deleted"}
    BY <1>9 DEF SpentForGood
  <2>1. agents[a] \in Agent /\ agents'[a].token = agents[a].token
    BY <1>1, <1>9 DEF AgentIds, AgentsStay
  <2>2. agents[a].token \in Enrollments
    BY <2>1 DEF Agent
  <2>3. enrollment[agents[a].token].state \in {"consumed", "deleted"}
    BY DEF EnrollmentInv, SpentForGood
  <2> QED
    BY <1>6, <2>1, <2>2, <2>3
<1>15. RowsAgree'
  <2>1. /\ \A o \in Enrollments : enrollment[o].state = "consumed" <=>
             \E j \in Installs : attempt[o][j].status = "succeeded"
        /\ \A o \in Enrollments, j, m \in Installs :
             attempt[o][j].status = "succeeded" /\ attempt[o][m].status = "succeeded" => j = m
        /\ \A o \in Enrollments, j \in Installs :
             attempt[o][j].status = "succeeded" => WonBy(o, j)
    BY RowsByAttempt DEF EnrollmentInv
  <2>2. \A o \in Enrollments : enrollment'[o].state = "consumed" <=>
             \E j \in Installs : attempt'[o][j].status = "succeeded"
    BY <1>6, <1>7, <2>1
  <2>3. \A o \in Enrollments, j, m \in Installs :
             attempt'[o][j].status = "succeeded" /\ attempt'[o][m].status = "succeeded" => j = m
    BY <1>7, <2>1
  <2>4. ASSUME NEW o \in Enrollments, NEW j \in Installs, attempt'[o][j].status = "succeeded"
        PROVE  WonBy(o, j)'
    <3>1. o \notin gone /\ attempt'[o] = attempt[o] /\ enrollment'[o] = enrollment[o]
      BY <1>6, <1>7, <2>4
    <3>2. WonBy(o, j)
      BY <2>1, <2>4, <3>1
    <3> QED
      BY <1>9, <3>1, <3>2 DEF WonBy, AgentsStay
  <2> QED
    BY <2>2, <2>3, <2>4 DEF RowsAgree, WonBy
<1> QED
  BY <1>10, <1>11, <1>12, <1>13, <1>14, <1>15 DEF EnrollmentInv

LEMMA RevokeStep ==
    ASSUME EnrollmentInv, NEW b \in AgentIds, RevokeAgent(b)
    PROVE  EnrollmentInv'
<1> DEFINE row == [agents[b] EXCEPT !.status = "revoked"]
<1>1. agents \in Seq(Agent) /\ b \in 1..Len(agents) /\ agents[b] \in Agent
  BY DEF EnrollmentInv, TypeOK, AgentIds
<1>2. /\ row \in Agent /\ row.holder = agents[b].holder /\ row.token = agents[b].token
      /\ row.cluster = agents[b].cluster
  BY <1>1 DEF Agent
<1>3. /\ agents' = [agents EXCEPT ![b] = row]
      /\ UNCHANGED <<parent, clusters, enrollment, attempt, issuing, call, secret, token,
                     process, faults>>
  BY DEF RevokeAgent, agentVars
<1> HIDE DEF row
<1>4. agents' \in Seq(Agent) /\ AgentIds' = AgentIds
  BY <1>1, <1>2, <1>3 DEF AgentIds
<1>5. \A a \in AgentIds : /\ agents'[a].holder = agents[a].holder
                          /\ agents'[a].token = agents[a].token
                          /\ agents'[a].cluster = agents[a].cluster
  BY <1>1, <1>2, <1>3 DEF AgentIds
<1>6. TypeOK'
  BY <1>3, <1>4 DEF EnrollmentInv, TypeOK
<1>7. TokensAreMade' /\ CreationHolds' /\ CallsAreMeant'
  BY <1>3 DEF EnrollmentInv, TokensAreMade, CreationHolds, CallsAreMeant, Open
<1>8. IdentitiesAreOwn' /\ SpentForGood'
  BY <1>3, <1>4, <1>5 DEF EnrollmentInv, IdentitiesAreOwn, SpentForGood
<1>9. RowsAgree'
  BY <1>3, <1>4, <1>5 DEF EnrollmentInv, RowsAgree
<1> QED
  BY <1>6, <1>7, <1>8, <1>9 DEF EnrollmentInv

-----------------------------------------------------------------------------
(* The invariant.                                                           *)

\* Every step keeps it.
LEMMA EnrollmentStep == EnrollmentInv /\ [Next]_vars => EnrollmentInv'
<1> SUFFICES ASSUME EnrollmentInv, [Next]_vars PROVE EnrollmentInv'
  OBVIOUS
<1>1. CASE UNCHANGED vars
  <2>1. CallsAreMeant' /\ IdentitiesAreOwn'
    BY <1>1 DEF EnrollmentInv, CallsAreMeant, IdentitiesAreOwn, AgentIds, vars, dbVars,
       agentVars
  <2> QED
    BY <1>1, <2>1, ProcessStep DEF vars, dbVars, agentVars, EnrollmentInv, TypeOK,
       CallRecords, ProcessRecords
<1>2. ASSUME NEW i \in Installs,
             AgentStep(i) \/ AgentGivesUp(i) \/ AgentCrash(i) \/ AgentFailsToStore(i)
      PROVE  EnrollmentInv'
  BY <1>2, StartStep, CallStep, LeaveStep DEF AgentStep
<1>3. ASSUME NEW k \in Calls, ServerStep(k) \/ CallFails(k) PROVE EnrollmentInv'
  BY <1>3, ReplayStep, BeginStep, CompleteStep DEF ServerStep
<1>4. CASE Issuing
  BY <1>4, CheckStep, CreateStep DEF Issuing
<1> QED
  BY <1>1, <1>2, <1>3, <1>4, RequestStep, WithdrawStep, UpdateStep, ParentStep, DeleteStep,
     RevokeStep, InstallStep DEF Next

LEMMA EnrollmentCorrect == Spec => []EnrollmentInv
BY EnrollmentInit, EnrollmentStep, PTL DEF Spec

\* The rows of pkg/server/store, the calls of pkg/server/enrollment and the Secrets of
\* pkg/agent keep their types, and the bounds are kept.
THEOREM EnrollmentTypeCorrect == Spec => []TypeOK
BY EnrollmentCorrect, PTL DEF EnrollmentInv

\* CompleteAgentEnrollment, against every other transaction: a token that was spent has one
\* attempt that succeeded, and the Agent of that attempt is the one that was made for that
\* installation with that token, in the token's Cluster.
THEOREM RowsStayInAgreement == Spec => []RowsAgree
BY EnrollmentCorrect, PTL DEF EnrollmentInv

-----------------------------------------------------------------------------
(* Enrollment implements OneTimeGrant.                                      *)

\* What OneTimeGrant sees, as Grant has it.
Issued == {[token |-> agents[a].token, agent |-> a, holder |-> agents[a].holder] :
             a \in AgentIds}
Voided == {e \in Enrollments :
             /\ enrollment[e].state \in {"revoked", "deleted"}
             /\ \A a \in AgentIds : agents[a].token # e}
Identity == [i \in Installs |-> secret[i].agent]

\* The tokens of the identities are those of the Agents.
LEMMA IssuedTokens == {r.token : r \in Issued} = {agents[a].token : a \in AgentIds}
<1>1. ASSUME NEW r \in Issued PROVE r.token \in {agents[a].token : a \in AgentIds}
  <2>1. PICK a \in AgentIds :
          r = [token |-> agents[a].token, agent |-> a, holder |-> agents[a].holder]
    BY DEF Issued
  <2> QED
    BY <2>1
<1>2. ASSUME NEW a \in AgentIds PROVE agents[a].token \in {r.token : r \in Issued}
  <2> DEFINE row == [token |-> agents[a].token, agent |-> a, holder |-> agents[a].holder]
  <2>1. row \in Issued
    BY DEF Issued
  <2>2. row.token = agents[a].token
    OBVIOUS
  <2> HIDE DEF row
  <2> QED
    BY <2>1, <2>2
<1> QED
  BY <1>1, <1>2

\* A step that makes no identity, and gives none to an installation, voids some tokens or
\* does nothing, if those that are void stay so.
LEMMA VoidStep ==
    ASSUME Issued' = Issued, Identity' = Identity, Voided \subseteq Voided'
    PROVE  [Grant!Next]_Grant!grantVars
<1> DEFINE gone == Voided' \ Voided
<1>1. ASSUME NEW r \in Issued PROVE r.token \notin gone
  <2>1. r \in Issued'
    OBVIOUS
  <2>2. PICK a \in AgentIds' :
          r = [token |-> agents'[a].token, agent |-> a, holder |-> agents'[a].holder]
    BY <2>1 DEF Issued
  <2>3. r.token = agents'[a].token
    BY <2>2
  <2> QED
    BY <2>3 DEF Voided
<1>2. gone \cap {r.token : r \in Issued} = {}
  BY <1>1
<1>3. Voided' = Voided \cup gone /\ gone \subseteq Enrollments
  BY DEF Voided
<1>4. gone \cap ({r.token : r \in Issued} \cup Voided) = {}
  BY <1>2
<1> HIDE DEF gone
<1>5. \E lost \in SUBSET Enrollments :
        /\ lost \cap ({r.token : r \in Issued} \cup Voided) = {}
        /\ Voided' = Voided \cup lost
  BY <1>3, <1>4
<1>6. Grant!Next
  BY <1>5 DEF Grant!Next, Grant!Void, Grant!Spent, Issued, Voided, Identity
<1> QED
  BY <1>6

\* A step that leaves tokens, Agents and Secrets is not seen.
LEMMA Unseen ==
    ASSUME UNCHANGED <<enrollment, agents>>, Identity' = Identity
    PROVE  [Grant!Next]_Grant!grantVars
<1>1. AgentIds' = AgentIds
  BY DEF AgentIds
<1>2. Issued' = Issued /\ Voided' = Voided
  BY <1>1 DEF Issued, Voided
<1> QED
  BY <1>2, VoidStep

\* CompleteAgentEnrollment issues an identity for a token that was neither spent nor void.
LEMMA IssueStep ==
    ASSUME EnrollmentInv, NEW e \in Enrollments, NEW i \in Installs, EnrollAgent(e, i),
           Open(e), Unlocked(e), Len(agents) < MaxAgents, UNCHANGED <<issuing, secret>>
    PROVE  [Grant!Next]_Grant!grantVars
<1> DEFINE n == Len(agents) + 1
           row == [token |-> e, agent |-> n, holder |-> i]
<1>1. /\ n \in 1..MaxAgents /\ agents'[n].holder = i /\ agents'[n].token = e
      /\ SpentForGood'
  BY Spending
<1>2. /\ AgentIds' = AgentIds \cup {n} /\ n \notin AgentIds
      /\ \A a \in AgentIds : agents'[a] = agents[a]
  <2> DEFINE c == IF enrollment[e].cluster = None THEN Len(clusters) + 1
                  ELSE enrollment[e].cluster
             new == [cluster |-> c, holder |-> i, token |-> e, status |-> "pending"]
  <2>1. agents' = Append(agents, new)
    BY DEF EnrollAgent
  <2> HIDE DEF new
  <2>2. agents \in Seq(Agent)
    BY DEF EnrollmentInv, TypeOK
  <2> QED
    BY <2>1, <2>2 DEF AgentIds
<1>3. Issued' = Issued \cup {row}
  <2>1. Issued' = {[token |-> agents'[a].token, agent |-> a, holder |-> agents'[a].holder] :
                     a \in AgentIds \cup {n}}
    BY <1>2 DEF Issued
  <2>2. \A a \in AgentIds :
          [token |-> agents'[a].token, agent |-> a, holder |-> agents'[a].holder]
            = [token |-> agents[a].token, agent |-> a, holder |-> agents[a].holder]
    BY <1>2
  <2>3. [token |-> agents'[n].token, agent |-> n, holder |-> agents'[n].holder] = row
    BY <1>1
  <2> QED
    BY <2>1, <2>2, <2>3 DEF Issued
<1>4. \A a \in AgentIds : agents[a].token # e
  BY DEF EnrollmentInv, SpentForGood, Open
<1>5. e \notin {r.token : r \in Issued} \cup Voided
  <2>1. e \notin Voided
    BY DEF Voided, Open
  <2> QED
    BY <1>4, <2>1, IssuedTokens
<1>6. \A r \in Issued : r.agent \in AgentIds
  BY DEF Issued
<1>7. n \in 1..MaxAgents \ {r.agent : r \in Issued}
  BY <1>1, <1>2, <1>6
<1>8. Voided' = Voided
  <2>1. \A o \in Enrollments \ {e} : enrollment'[o] = enrollment[o]
    BY DEF EnrollAgent, EnrollmentInv, TypeOK
  <2>2. e \notin Voided'
    BY <1>1, <1>2 DEF Voided
  <2>3. \A o \in Enrollments \ {e} : o \in Voided' <=> o \in Voided
    <3> TAKE o \in Enrollments \ {e}
    <3>1. (\A a \in AgentIds' : agents'[a].token # o) <=> (\A a \in AgentIds : agents[a].token # o)
      BY <1>1, <1>2
    <3> QED
      BY <2>1, <3>1 DEF Voided
  <2>4. Voided \subseteq Enrollments /\ Voided' \subseteq Enrollments /\ e \notin Voided
    BY <1>5 DEF Voided
  <2> QED
    BY <2>2, <2>3, <2>4
<1>9. Identity' = Identity
  BY DEF Identity
<1> HIDE DEF n
<1>10. Grant!Issue(e, i)
  BY <1>3, <1>5, <1>7, <1>8, <1>9 DEF Grant!Issue, Grant!Spent, Issued, Voided, Identity
<1> QED
  BY <1>10 DEF Grant!Next

\* An installation that stores what it was granted adopts an identity made for it.
LEMMA AdoptStep ==
    ASSUME EnrollmentInv, NEW i \in Installs, process[i].phase = "granted", StoreIdentity(i),
           UNCHANGED dbVars
    PROVE  [Grant!Next]_Grant!grantVars
<1> DEFINE a == process[i].agent
           row == [token |-> agents[a].token, agent |-> a, holder |-> agents[a].holder]
<1>1. a \in AgentIds /\ agents[a].holder = i /\ secret[i].agent = None
  BY DEF EnrollmentInv, IdentitiesAreOwn
<1>2. row \in Issued /\ row.holder = i /\ row.agent = a
  BY <1>1 DEF Issued
<1>3. secret' = [secret EXCEPT ![i] = [state |-> "complete", agent |-> a]]
  BY DEF StoreIdentity
<1>4. Identity' = [Identity EXCEPT ![i] = a] /\ Identity[i] = None
  BY <1>1, <1>3 DEF Identity, EnrollmentInv, TypeOK
<1>5. Issued' = Issued /\ Voided' = Voided
  BY DEF Issued, Voided, AgentIds, dbVars
<1> HIDE DEF row
<1>6. Identity' = [Identity EXCEPT ![i] = row.agent]
  BY <1>2, <1>4
<1>7. Grant!Adopt(i)
  BY <1>2, <1>4, <1>5, <1>6 DEF Grant!Adopt, Issued, Voided, Identity
<1> QED
  BY <1>7 DEF Grant!Next

\* Every step is one of OneTimeGrant, or none.
LEMMA GrantSteps ==
    ASSUME EnrollmentInv, [Next]_vars
    PROVE  [Grant!Next]_Grant!grantVars
<1> USE DEF dbVars, agentVars
<1>1. CASE UNCHANGED <<enrollment, agents, secret>>
  BY <1>1, Unseen DEF Identity
<1>2. ASSUME NEW i \in Installs, AgentStart(i) PROVE [Grant!Next]_Grant!grantVars
  <2>1. \A j \in Installs : secret'[j].agent = secret[j].agent
    <3>1. secret' = secret \/ secret' = [secret EXCEPT ![i].state = "pending"]
      BY <1>2, Zenon DEF AgentStart
    <3>2. secret \in [Installs -> SecretRecords]
      BY DEF EnrollmentInv, TypeOK, SecretRecords
    <3> QED
      BY <3>1, <3>2 DEF SecretRecords
  <2>2. UNCHANGED <<enrollment, agents>> /\ Identity' = Identity
    BY <1>2, <2>1 DEF AgentStart, Identity
  <2> QED
    BY <2>2, Unseen
<1>3. ASSUME NEW i \in Installs, AgentCalls(i) \/ AgentGivesUp(i) \/ AgentCrash(i)
      PROVE  [Grant!Next]_Grant!grantVars
  BY <1>1, <1>3 DEF AgentCalls, AgentGivesUp, AgentCrash
<1>4. ASSUME NEW i \in Installs, AgentStores(i) \/ AgentFailsToStore(i)
      PROVE  [Grant!Next]_Grant!grantVars
  <2>1. process[i].phase = "granted" /\ UNCHANGED dbVars
    BY <1>4 DEF AgentStores, AgentFailsToStore
  <2>2. StoreIdentity(i) \/ UNCHANGED secret
    BY <1>4 DEF AgentStores, AgentFailsToStore
  <2> QED
    BY <1>1, <2>1, <2>2, AdoptStep
<1>5. ASSUME NEW k \in Calls, Replay(k) \/ Refuse(k) \/ Begin(k)
      PROVE  [Grant!Next]_Grant!grantVars
  BY <1>1, <1>5 DEF Replay, Refuse, Begin
<1>6. ASSUME NEW k \in Calls, Complete(k) \/ CallFails(k)
      PROVE  [Grant!Next]_Grant!grantVars
  <2>1. call[k].state # "idle" /\ UNCHANGED <<issuing, secret>>
    BY <1>6 DEF Complete, Completable, CallFails
  <2>2. CASE UNCHANGED dbVars
    BY <1>1, <2>1, <2>2
  <2>3. CASE Completable(k) /\ EnrollAgent(call[k].token, call[k].install)
    <3>1. Open(call[k].token) /\ Unlocked(call[k].token) /\ Len(agents) < MaxAgents
      BY <2>3 DEF Completable, Usable
    <3> QED
      BY <2>1, <2>3, <3>1, CallNow, IssueStep
  <2> QED
    BY <1>6, <2>2, <2>3 DEF Complete, CallFails
<1>7. ASSUME UNCHANGED <<agents, secret>>, Voided \subseteq Voided'
      PROVE  [Grant!Next]_Grant!grantVars
  BY <1>7, VoidStep DEF Issued, Identity, AgentIds
<1>8. ASSUME NEW c \in {None} \cup ClusterIds, NEW n \in Names, RequestEnrollment(c, n)
      PROVE  [Grant!Next]_Grant!grantVars
  BY <1>1, <1>8 DEF RequestEnrollment
<1>9. CASE CheckEnrollment
  BY <1>1, <1>9 DEF CheckEnrollment
<1>10. CASE CreateEnrollment
  <2> DEFINE e == CHOOSE e \in Enrollments :
                    /\ enrollment[e].state = "none"
                    /\ \A earlier \in 1..(e - 1) : enrollment[earlier].state # "none"
  <2>1. e \in Enrollments /\ enrollment[e].state = "none"
    BY <1>10, NextToken DEF CreateEnrollment
  <2>2. /\ UNCHANGED <<agents, secret>>
        /\ \/ enrollment' = enrollment
           \/ enrollment' = [o \in Enrollments |->
                IF o = e THEN [state |-> "open", lapsed |-> FALSE,
                               cluster |-> issuing.cluster, name |-> issuing.name]
                ELSE IF o \in issuing.released
                THEN [enrollment[o] EXCEPT !.state = "revoked"] ELSE enrollment[o]]
    BY <1>10 DEF CreateEnrollment
  <2> HIDE DEF e
  <2>3. \A o \in issuing.released : enrollment[o].state = "open"
    BY DEF EnrollmentInv, CreationHolds, Open
  <2>4. \A o \in Voided : o \in Enrollments /\ enrollment'[o] = enrollment[o]
    BY <2>1, <2>2, <2>3 DEF Voided
  <2>5. Voided \subseteq Voided'
    BY <2>2, <2>4 DEF Voided, AgentIds
  <2> QED
    BY <1>7, <2>2, <2>5
<1>11. ASSUME NEW e \in Enrollments, RevokeEnrollment(e) \/ Lapse(e)
       PROVE  [Grant!Next]_Grant!grantVars
  <2>1. UNCHANGED <<agents, secret>> /\ enrollment[e].state = "open"
    BY <1>11 DEF RevokeEnrollment, Lapse, Open
  <2>2. \A o \in Enrollments : o # e => enrollment'[o] = enrollment[o]
    BY <1>11 DEF RevokeEnrollment, Lapse, EnrollmentInv, TypeOK
  <2>3. Voided \subseteq Voided'
    BY <2>1, <2>2 DEF Voided, AgentIds
  <2> QED
    BY <1>7, <2>1, <2>3
<1>12. ASSUME NEW c \in ClusterIds, NEW n \in Names, NEW suspend \in BOOLEAN,
              UpdateCluster(c, n, suspend)
       PROVE  [Grant!Next]_Grant!grantVars
  <2>1. UNCHANGED <<agents, secret>>
    BY <1>12 DEF UpdateCluster
  <2>2. \A e \in Enrollments : ~Open(e) => enrollment'[e] = enrollment[e]
    BY <1>12 DEF UpdateCluster
  <2>3. Voided \subseteq Voided'
    BY <2>1, <2>2 DEF Voided, AgentIds, Open
  <2> QED
    BY <1>7, <2>1, <2>3
<1>13. CASE UpdateParent
  BY <1>1, <1>13 DEF UpdateParent
<1>14. ASSUME NEW c \in ClusterIds, DeleteCluster(c) PROVE [Grant!Next]_Grant!grantVars
  <2>1. /\ AgentIds' = AgentIds
        /\ \A a \in AgentIds : agents'[a].holder = agents[a].holder
                               /\ agents'[a].token = agents[a].token
    <3>1. agents \in Seq(Agent) /\ Len(agents) \in Nat
      BY DEF EnrollmentInv, TypeOK
    <3>2. agents' = [a \in AgentIds |->
            IF agents[a].cluster = c THEN [agents[a] EXCEPT !.status = "deleted"] ELSE agents[a]]
      BY <1>14 DEF DeleteCluster
    <3>3. \A a \in AgentIds :
            LET r == [agents[a] EXCEPT !.status = "deleted"] IN
            r \in Agent /\ r.holder = agents[a].holder /\ r.token = agents[a].token
      <4> TAKE a \in AgentIds
      <4>1. agents[a] \in Agent
        BY <3>1 DEF AgentIds
      <4> QED
        BY <4>1 DEF Agent
    <3>4. agents' \in [1..Len(agents) -> Agent]
      BY <3>1, <3>2, <3>3 DEF AgentIds
    <3>5. agents' \in Seq(Agent) /\ Len(agents') = Len(agents)
      BY <3>1, <3>4
    <3> QED
      BY <3>2, <3>3, <3>5 DEF AgentIds
  <2>2. Issued' = Issued
    BY <2>1 DEF Issued
  <2>3. Identity' = Identity
    BY <1>14 DEF DeleteCluster, Identity
  <2>4. \A e \in Enrollments :
          enrollment'[e].state = enrollment[e].state \/ enrollment'[e].state = "deleted"
    BY <1>14 DEF DeleteCluster, EnrollmentInv, TypeOK, Enrollment
  <2>5. Voided \subseteq Voided'
    BY <2>1, <2>4 DEF Voided
  <2> QED
    BY <2>2, <2>3, <2>5, VoidStep
<1>15. ASSUME NEW b \in AgentIds, RevokeAgent(b) PROVE [Grant!Next]_Grant!grantVars
  <2>1. agents \in Seq(Agent) /\ b \in 1..Len(agents) /\ agents[b] \in Agent
    BY DEF EnrollmentInv, TypeOK, AgentIds
  <2> DEFINE row == [agents[b] EXCEPT !.status = "revoked"]
  <2>2. row \in Agent /\ row.holder = agents[b].holder /\ row.token = agents[b].token
    BY <2>1 DEF Agent
  <2>3. agents' = [agents EXCEPT ![b] = row] /\ UNCHANGED <<enrollment, secret>>
    BY <1>15 DEF RevokeAgent
  <2> HIDE DEF row
  <2>4. /\ AgentIds' = AgentIds
        /\ \A a \in AgentIds : agents'[a].holder = agents[a].holder
                               /\ agents'[a].token = agents[a].token
    BY <2>1, <2>2, <2>3 DEF AgentIds
  <2>5. Issued' = Issued /\ Identity' = Identity
    BY <2>3, <2>4 DEF Issued, Identity
  <2>6. Voided \subseteq Voided'
    BY <2>3, <2>4 DEF Voided
  <2> QED
    BY <2>5, <2>6, VoidStep
<1>16. ASSUME NEW i \in Installs, NEW e \in Enrollments, Install(i, e)
       PROVE  [Grant!Next]_Grant!grantVars
  BY <1>1, <1>16 DEF Install
<1>17. CASE UNCHANGED vars
  BY <1>1, <1>17 DEF vars
<1> QED
  BY <1>2, <1>3, <1>4, <1>5, <1>6, <1>8, <1>9, <1>10, <1>11, <1>12, <1>13, <1>14, <1>15,
     <1>16, <1>17 DEF Next, AgentStep, ServerStep, Issuing

\* What transactions, retries, crashes and administrators do step by step is the one-time
\* grant that enrollment promises: a token is good for one identity, made for the
\* installation that asked for it, unless it was withdrawn first; and an installation takes
\* on one identity, made for it, for good.
THEOREM GrantsOnce == Spec => ImplementsOneTimeGrant
<1>1. Init => Grant!Init
  <2> SUFFICES ASSUME Init PROVE Grant!Init
    OBVIOUS
  <2>1. AgentIds = {}
    BY DEF Init, AgentIds
  <2>2. Issued = {}
    BY <2>1 DEF Issued
  <2>3. Voided = {} /\ Identity = [i \in Installs |-> None]
    BY DEF Init, Voided, Identity
  <2> QED
    BY <2>2, <2>3 DEF Grant!Init, Issued, Voided, Identity
<1>2. EnrollmentInv /\ [Next]_vars => [Grant!Next]_Grant!grantVars
  BY GrantSteps
<1> QED
  BY <1>1, <1>2, EnrollmentCorrect, PTL DEF Spec, ImplementsOneTimeGrant, Grant!Spec
=============================================================================
