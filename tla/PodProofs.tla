----------------------------- MODULE PodProofs -----------------------------
(***************************************************************************)
(* Proofs about PodPortForward, for every window and whatever ends a       *)
(* stream first; about PodAccess, for any number of requests, users, Pods  *)
(* and tickets and for every limit; and about TerminalSession, for any     *)
(* number of requests, failed calls and crashes.                           *)
(***************************************************************************)
EXTENDS PodPortForward, PodAccess, TerminalSession, SequenceTheorems,
        FiniteSetTheorems, TLAPS

-----------------------------------------------------------------------------
(* PodPortForward: the inductive invariant.                                 *)

\* How many chunks the direction to the Server holds.
ChunksDown ==
    IF down # <<>> /\ down[Len(down)].kind = "exit" THEN Len(down) - 1 ELSE Len(down)

ExitIsLast == \A i \in 1 .. Len(down) : down[i].kind = "exit" => i = Len(down)

\* Until the Server leaves, what the Agent has counted is on the way or with the client.
PodChunksAccounted ==
    relay # "left" =>
        count.pod = count.given + (IF relay = "giving" THEN 1 ELSE 0) + ChunksDown

\* An Exit frame says what the pumps have counted, which have both ended.
Final(exit) ==
    /\ handling = "done" /\ PumpsGone
    /\ exit.client = count.client /\ exit.pod = count.pod

ExitsAreFinal ==
    /\ \A i \in 1 .. Len(down) : down[i].kind = "exit" => Final(down[i])
    /\ result # NoExit =>
         /\ Final(result)
         /\ relay = "left" /\ down = <<>> /\ count.given = result.pod

\* The Pod has been given at most one chunk that is not counted, with which the
\* pump failed.
CutOffOnce ==
    /\ count.passed - count.client \in {0, 1}
    /\ count.passed # count.client => pump["receive"] = "failed"

\* A pump carries a chunk only below its limit.
BusyBelowLimit ==
    /\ pump["receive"] = "busy" => count.client < ClientLimit
    /\ pump["send"] = "busy" => count.pod < PodLimit

\* There is always room for the end of the direction to the Agent.
RoomForEnd == relay # "left" => Len(up) <= Window

FirstIsKnown == handling = "ending" => first \in Ended

PFInv ==
    /\ PFTypeOK /\ ExitIsLast /\ PodChunksAccounted /\ ExitsAreFinal
    /\ CutOffOnce /\ BusyBelowLimit /\ RoomForEnd /\ FirstIsKnown

FramesUp == {"data", "close", "fin", "cut"}
FramesDown == {Data} \cup Exits

LEMMA LeavesUp ==
    ASSUME PFInv, relay # "left", Leaves
    PROVE  /\ up' \in Seq(FramesUp) /\ Len(up') <= Window + 1
           /\ relay' = "left"
<1>1. up \in Seq(FramesUp) /\ Len(up) <= Window
  BY DEF PFInv, PFTypeOK, RoomForEnd, FramesUp
<1>2. PICK f \in FramesUp : up' = Append(up, f)
  BY DEF Leaves, FramesUp
<1>3. Len(up') = Len(up) + 1 /\ up' \in Seq(FramesUp)
  BY <1>1, <1>2
<1>4. Len(up) \in Nat /\ Window \in Nat
  BY <1>1, PortForwardAssumption
<1> QED BY <1>1, <1>3, <1>4 DEF Leaves

LEMMA WritesUpTyped ==
    ASSUME PFInv, NEW f \in {"data", "close"}, WritesUp(f), relay' = relay
    PROVE  /\ up' \in Seq(FramesUp) /\ Len(up') <= Window + 1
           /\ relay' # "left" => Len(up') <= Window
<1>1. up \in Seq(FramesUp) /\ Len(up) <= Window + 1 /\ f \in FramesUp
  BY DEF PFInv, PFTypeOK, FramesUp
<1>2. CASE UNCHANGED up
  BY <1>1, <1>2 DEF PFInv, RoomForEnd
<1>3. CASE Len(up) < Window /\ up' = Append(up, f)
  <2>1. Len(up') = Len(up) + 1 /\ up' \in Seq(FramesUp)
    BY <1>1, <1>3
  <2>2. Len(up) \in Nat /\ Window \in Nat
    BY <1>1, PortForwardAssumption
  <2> QED BY <1>3, <2>1, <2>2
<1> QED BY <1>2, <1>3 DEF WritesUp

LEMMA TailUp ==
    ASSUME up \in Seq(FramesUp), up # <<>>
    PROVE  /\ Tail(up) \in Seq(FramesUp) /\ Len(Tail(up)) = Len(up) - 1
           /\ Len(up) \in Nat /\ Head(up) \in FramesUp
BY HeadTailProperties

-----------------------------------------------------------------------------
(* PodPortForward: the steps.                                               *)

LEMMA PFInvInit == PFInit => PFInv
<1> SUFFICES ASSUME PFInit PROVE PFInv
  OBVIOUS
<1>1. Window \in Nat /\ ClientLimit \in Nat /\ PodLimit \in Nat
  BY PortForwardAssumption
<1>2. down = <<>> /\ up = <<>> /\ Len(down) = 0 /\ Len(up) = 0
  BY DEF PFInit
<1>3. PFTypeOK
  <2>1. pump \in [{"receive", "send"} -> {"reading", "busy"} \cup Ended]
    BY DEF PFInit
  <2>2. count \in [{"sent", "passed", "client", "read", "pod", "given"} -> Nat]
    BY DEF PFInit
  <2>3. count.client = 0 /\ count.pod = 0
    BY DEF PFInit
  <2>4. Len(up) <= Window + 1 /\ Len(down) <= Window
    BY <1>1, <1>2
  <2>5. /\ up \in Seq({"data", "close", "fin", "cut"})
        /\ down \in Seq({Data} \cup Exits)
    BY <1>2
  <2>6. /\ relay \in {"opening", "relaying", "giving", "left"}
        /\ input \in {"idle", "reading", "writing", "closing", "failing", "eof", "error"}
        /\ result \in {NoExit} \cup Exits
        /\ client \in {"open", "closed"}
        /\ handling \in {"opening", "relaying", "ending", "done"}
        /\ first \in {"none"} \cup Ended
        /\ tunnel \in {"none", "open", "ended", "closed"}
        /\ response \in {"none", "ok", "refused"}
        /\ timedOut \in BOOLEAN /\ linkLost \in BOOLEAN
    BY DEF PFInit
  <2> QED BY <1>1, <2>1, <2>2, <2>3, <2>4, <2>5, <2>6 DEF PFTypeOK
<1> QED BY <1>1, <1>2, <1>3 DEF PFInit, PFInv, ExitIsLast, PodChunksAccounted, ChunksDown,
        ExitsAreFinal, CutOffOnce, BusyBelowLimit, RoomForEnd, FirstIsKnown

\* Steps that neither move a chunk of the Pod nor a pump.
LEMMA OthersKeep ==
    ASSUME PFInv, PFTypeOK', UNCHANGED <<relay, result, pump, down, count>>,
           handling = "done" => handling' = "done",
           handling' = "ending" => first' \in Ended,
           relay # "left" => Len(up') <= Window
    PROVE  PFInv'
<1>1. ExitIsLast' /\ PodChunksAccounted' /\ CutOffOnce' /\ BusyBelowLimit'
  BY DEF PFInv, ExitIsLast, PodChunksAccounted, ChunksDown, CutOffOnce, BusyBelowLimit
<1>2. ExitsAreFinal'
  BY DEF PFInv, ExitsAreFinal, Final, PumpsGone
<1>3. RoomForEnd' /\ FirstIsKnown'
  BY DEF PFInv, RoomForEnd, FirstIsKnown
<1> QED BY <1>1, <1>2, <1>3 DEF PFInv

\* The Server leaves without an Exit frame.
LEMMA LeavingKeeps ==
    ASSUME PFInv, relay # "left", Leaves,
           UNCHANGED <<input, result, client, pfAgentVars, response, down, timedOut,
                       linkLost, count>>
    PROVE  PFInv'
<1>1. up' \in Seq(FramesUp) /\ Len(up') <= Window + 1 /\ relay' = "left"
  BY LeavesUp
<1>2. PFTypeOK'
  BY <1>1 DEF PFInv, PFTypeOK, pfAgentVars, FramesUp
<1>3. ExitsAreFinal'
  BY <1>1 DEF PFInv, ExitsAreFinal, Final, PumpsGone, pfAgentVars
<1> QED BY <1>1, <1>2, <1>3 DEF PFInv, ExitIsLast, PodChunksAccounted, CutOffOnce,
        BusyBelowLimit, RoomForEnd, FirstIsKnown, pfAgentVars

LEMMA ReadAnswerKeeps == PFInv /\ ReadAnswer => PFInv'
<1> SUFFICES ASSUME PFInv, ReadAnswer PROVE PFInv'
  OBVIOUS
<1>1. CASE Leaves /\ UNCHANGED input
  BY <1>1, LeavingKeeps DEF ReadAnswer
<1>2. CASE relay' = "relaying" /\ input' = "reading" /\ UNCHANGED up
  <2>1. PFTypeOK'
    BY <1>2 DEF PFInv, PFTypeOK, ReadAnswer, pfAgentVars
  <2>2. PodChunksAccounted'
    BY <1>2 DEF PFInv, PodChunksAccounted, ChunksDown, ReadAnswer
  <2>3. ExitsAreFinal'
    BY <1>2 DEF PFInv, ExitsAreFinal, Final, PumpsGone, ReadAnswer, pfAgentVars
  <2> QED BY <1>2, <2>1, <2>2, <2>3 DEF PFInv, ReadAnswer, ExitIsLast, CutOffOnce,
          BusyBelowLimit, RoomForEnd, FirstIsKnown, pfAgentVars
<1> QED BY <1>1, <1>2 DEF ReadAnswer

LEMMA LeaverKeeps == PFInv /\ (GiveFails \/ RelayStops \/ ContextEnds) => PFInv'
<1>1. GiveFails \/ RelayStops \/ ContextEnds =>
        /\ relay # "left" /\ Leaves
        /\ UNCHANGED <<input, result, client, pfAgentVars, response, down, timedOut,
                       linkLost, count>>
  BY DEF GiveFails, RelayStops, ContextEnds
<1> QED BY <1>1, LeavingKeeps

LEMMA TakesKeeps == PFInv /\ Takes => PFInv'
<1> SUFFICES ASSUME PFInv, Takes PROVE PFInv'
  OBVIOUS
<1>1. down \in Seq(FramesDown) /\ down # <<>> /\ Len(down) <= Window
  BY DEF PFInv, PFTypeOK, FramesDown, Takes
<1>2. /\ down' = Tail(down) /\ down' \in Seq(FramesDown)
      /\ Len(down) \in Nat /\ Len(down) > 0 /\ Len(down') = Len(down) - 1
      /\ \A i \in 1 .. Len(down') : down'[i] = down[i + 1]
      /\ Head(down) = down[1] /\ down[1] \in FramesDown
  BY <1>1 DEF Takes
<1>3. UNCHANGED <<input, client, pfAgentVars, response, timedOut, linkLost, count>>
  BY DEF Takes
<1>4. ExitIsLast'
  <2> SUFFICES ASSUME NEW i \in 1 .. Len(down'), down'[i].kind = "exit"
               PROVE  i = Len(down')
    BY DEF ExitIsLast
  <2>1. i + 1 \in 1 .. Len(down) /\ down[i + 1].kind = "exit"
    BY <1>2
  <2>2. i + 1 = Len(down)
    BY <2>1 DEF PFInv, ExitIsLast
  <2>3. i \in Int /\ Len(down) \in Nat /\ Len(down') = Len(down) - 1
    BY <1>2
  <2> QED BY <2>2, <2>3
<1>5. Window \in Nat
  BY PortForwardAssumption
<1>6. CASE Head(down).kind = "data" /\ relay' = "giving" /\ UNCHANGED <<result, up>>
  <2>1. PFTypeOK'
    BY <1>1, <1>2, <1>3, <1>5, <1>6 DEF PFInv, PFTypeOK, FramesDown, pfAgentVars
  <2>2. ChunksDown' = ChunksDown - 1
    BY <1>2, <1>6 DEF ChunksDown
  <2>3. PodChunksAccounted'
    BY <1>2, <1>3, <1>6, <2>2 DEF PFInv, PFTypeOK, PodChunksAccounted, ChunksDown, Takes
  <2>4. ExitsAreFinal'
    BY <1>2, <1>3, <1>6 DEF PFInv, ExitsAreFinal, Final, PumpsGone, pfAgentVars, Takes
  <2> QED BY <1>3, <1>4, <1>6, <2>1, <2>3, <2>4 DEF PFInv, CutOffOnce, BusyBelowLimit,
          RoomForEnd, FirstIsKnown, pfAgentVars, Takes
<1>7. CASE Head(down).kind = "exit" /\ result' = Head(down) /\ Leaves
  <2>1. up' \in Seq(FramesUp) /\ Len(up') <= Window + 1 /\ relay' = "left"
    BY <1>7, LeavesUp DEF Takes
  <2>2. Head(down) \in Exits
    BY <1>2, <1>7 DEF FramesDown, Data
  <2>3. PFTypeOK'
    BY <1>1, <1>2, <1>3, <1>5, <1>7, <2>1, <2>2
    DEF PFInv, PFTypeOK, FramesDown, FramesUp, pfAgentVars
  <2>4. Len(down) = 1 /\ down' = <<>>
    <3>1. 1 \in 1 .. Len(down) /\ down[1].kind = "exit"
      BY <1>2, <1>7
    <3>2. Len(down) = 1
      BY <3>1 DEF PFInv, ExitIsLast
    <3>3. down' \in Seq(FramesDown) /\ Len(down') = 0
      BY <1>2, <3>2
    <3>4. down' = <<>>
      BY <3>3
    <3> QED BY <3>2, <3>4
  <2>5. count.given = count.pod
    BY <1>2, <1>7, <2>4 DEF PFInv, PFTypeOK, PodChunksAccounted, ChunksDown, Takes
  <2>6. Final(Head(down))
    BY <1>2, <1>7 DEF PFInv, ExitsAreFinal
  <2>7. ExitsAreFinal'
    BY <1>3, <1>7, <2>1, <2>4, <2>5, <2>6
    DEF ExitsAreFinal, Final, PumpsGone, pfAgentVars
  <2> QED BY <1>3, <1>4, <2>1, <2>3, <2>7 DEF PFInv, PodChunksAccounted, CutOffOnce,
          BusyBelowLimit, RoomForEnd, FirstIsKnown, pfAgentVars
<1> QED BY <1>6, <1>7 DEF Takes

LEMMA ClientReadsKeeps == PFInv /\ ClientReads => PFInv'
<1> SUFFICES ASSUME PFInv, ClientReads PROVE PFInv'
  OBVIOUS
<1>1. PFTypeOK'
  BY DEF PFInv, PFTypeOK, ClientReads, Counting, pfAgentVars, pfStreamVars
<1>2. PodChunksAccounted'
  BY DEF PFInv, PFTypeOK, PodChunksAccounted, ChunksDown, ClientReads, Counting,
         pfStreamVars
<1>3. ExitsAreFinal'
  BY DEF PFInv, PFTypeOK, ExitsAreFinal, Final, PumpsGone, ClientReads, Counting,
         pfAgentVars, pfStreamVars
<1> QED BY <1>1, <1>2, <1>3 DEF PFInv, PFTypeOK, ClientReads, Counting, ExitIsLast,
        CutOffOnce, BusyBelowLimit, RoomForEnd, FirstIsKnown, pfAgentVars, pfStreamVars

LEMMA InputReadsKeeps == PFInv /\ InputReads => PFInv'
<1> SUFFICES ASSUME PFInv, InputReads PROVE PFInv'
  OBVIOUS
<1>1. PFTypeOK'
  BY DEF PFInv, PFTypeOK, InputReads, InputTo, Counting, pfAgentVars
<1>2. /\ UNCHANGED <<relay, result, pump, down, handling, first, up>>
      /\ count'.pod = count.pod /\ count'.given = count.given
      /\ count'.client = count.client /\ count'.passed = count.passed
  BY DEF PFInv, PFTypeOK, InputReads, InputTo, Counting, pfAgentVars
<1>3. ExitsAreFinal'
  BY <1>2 DEF PFInv, ExitsAreFinal, Final, PumpsGone
<1> QED BY <1>1, <1>2, <1>3 DEF PFInv, ExitIsLast, PodChunksAccounted, ChunksDown,
        CutOffOnce, BusyBelowLimit, RoomForEnd, FirstIsKnown

\* The goroutine of the input.
LEMMA InputKeeps == PFInv /\ (InputEnds \/ InputWrites \/ InputCloses) => PFInv'
<1> SUFFICES ASSUME PFInv, InputEnds \/ InputWrites \/ InputCloses PROVE PFInv'
  OBVIOUS
<1>1. /\ UNCHANGED <<relay, result, client, pfAgentVars, response, down, timedOut,
                     linkLost, count>>
      /\ input' \in {"reading", "closing", "failing", "eof", "error"}
  BY DEF InputEnds, InputWrites, InputCloses, InputTo
<1>2. /\ up' \in Seq(FramesUp) /\ Len(up') <= Window + 1
      /\ relay # "left" => Len(up') <= Window
  <2>1. CASE InputEnds
    BY <2>1 DEF InputEnds, PFInv, PFTypeOK, RoomForEnd, FramesUp
  <2>2. CASE InputWrites
    BY <2>2, <1>1, WritesUpTyped DEF InputWrites
  <2>3. CASE InputCloses
    BY <2>3, <1>1, WritesUpTyped DEF InputCloses
  <2> QED BY <2>1, <2>2, <2>3
<1>3. PFTypeOK'
  BY <1>1, <1>2 DEF PFInv, PFTypeOK, FramesUp, pfAgentVars
<1> QED BY <1>1, <1>2, <1>3, OthersKeep DEF PFInv, FirstIsKnown, pfAgentVars

\* The handler begins, refuses and hears of the pump that ends first.
LEMMA HandlerKeeps == PFInv /\ (Opens \/ Refuses \/ FirstEnds) => PFInv'
<1> SUFFICES ASSUME PFInv, Opens \/ Refuses \/ FirstEnds PROVE PFInv'
  OBVIOUS
<1>1. PFTypeOK'
  BY DEF PFInv, PFTypeOK, Opens, Refuses, FirstEnds, Ended, pfServerVars, pfStreamVars
<1>2. UNCHANGED <<relay, result, pump, down, count, up>>
  BY DEF Opens, Refuses, FirstEnds, pfServerVars, pfStreamVars
<1>3. handling # "done" /\ (handling' = "ending" => first' \in Ended)
  BY DEF PFInv, Opens, Refuses, FirstEnds, Ended
<1> QED BY <1>1, <1>2, <1>3, OthersKeep DEF PFInv, RoomForEnd

\* Client, Pod, connection and deadline.
LEMMA AroundKeeps ==
    PFInv /\ (ClientCloses \/ PodEnds \/ LinkBreaks \/ DeadlinePasses) => PFInv'
<1> SUFFICES ASSUME PFInv, ClientCloses \/ PodEnds \/ LinkBreaks \/ DeadlinePasses
             PROVE  PFInv'
  OBVIOUS
<1>1. UNCHANGED <<relay, result, pump, down, count, up, handling, first>>
  BY DEF ClientCloses, PodEnds, LinkBreaks, DeadlinePasses, pfServerVars, pfAgentVars,
         pfStreamVars
<1>2. PFTypeOK'
  BY DEF PFInv, PFTypeOK, ClientCloses, PodEnds, LinkBreaks, DeadlinePasses,
         pfServerVars, pfAgentVars, pfStreamVars
<1> QED BY <1>1, <1>2, OthersKeep DEF PFInv, RoomForEnd, FirstIsKnown

\* While a pump moves no Exit frame has been written.
LEMMA NoExitYet ==
    ASSUME PFInv, NEW p \in {"receive", "send"}, pump[p] \notin Ended
    PROVE  result = NoExit /\ \A i \in 1 .. Len(down) : down[i].kind # "exit"
BY DEF PFInv, ExitsAreFinal, Final, PumpsGone

\* A step of one pump, which may count for it.
LEMMA PumpKeeps ==
    ASSUME PFInv, NEW p \in {"receive", "send"}, pump[p] \notin Ended,
           PFTypeOK', CutOffOnce', BusyBelowLimit',
           UNCHANGED <<relay, result, handling, first, down>>,
           count'.pod = count.pod, count'.given = count.given,
           relay # "left" => Len(up') <= Window
    PROVE  PFInv'
<1>1. ExitsAreFinal'
  BY NoExitYet DEF ExitsAreFinal
<1> QED BY <1>1 DEF PFInv, ExitIsLast, PodChunksAccounted, ChunksDown, RoomForEnd,
        FirstIsKnown

LEMMA ReceiveReadsKeeps == PFInv /\ ReceiveReads => PFInv'
<1> SUFFICES ASSUME PFInv, ReceiveReads PROVE PFInv'
  OBVIOUS
<1>1. PICK s \in {"limit", "busy", "eof", "failed"} :
        /\ PumpTo("receive", s)
        /\ s = "busy" => count.client < ClientLimit
        /\ (up' = up) \/ (up # <<>> /\ up' = Tail(up))
  <2>1. CASE PumpTo("receive", "failed") /\ UNCHANGED up
    BY <2>1
  <2>2. CASE up # <<>> /\ up' = Tail(up) /\ handling = "relaying"
    <3>1. Head(up) \in FramesUp
      BY <2>2, TailUp DEF PFInv, PFTypeOK, FramesUp
    <3>2. count.client + 1 <= ClientLimit => count.client < ClientLimit
      BY PortForwardAssumption DEF PFInv, PFTypeOK
    <3>3. \/ Head(up) = "data"
          \/ Head(up) \in {"close", "fin"} /\ PumpTo("receive", "eof")
          \/ Head(up) = "cut" /\ PumpTo("receive", "failed")
      BY <2>2, <3>1 DEF ReceiveReads, FramesUp
    <3>4. Head(up) = "data" =>
            PumpTo("receive", IF count.client + 1 > ClientLimit THEN "limit" ELSE "busy")
      BY <2>2 DEF ReceiveReads
    <3>5. count.client \in Nat /\ ClientLimit \in Nat
      BY PortForwardAssumption DEF PFInv, PFTypeOK
    <3> QED BY <2>2, <3>2, <3>3, <3>4, <3>5
  <2> QED BY <2>1, <2>2 DEF ReceiveReads
<1>2. /\ pump["receive"] = "reading"
      /\ pump' = [pump EXCEPT !["receive"] = s]
      /\ UNCHANGED <<relay, input, result, client, handling, first, tunnel, response,
                     down, timedOut, linkLost, count>>
  BY <1>1 DEF ReceiveReads, PumpTo, pfServerVars
<1>3. /\ up' \in Seq(FramesUp) /\ Len(up') <= Window + 1
      /\ relay # "left" => Len(up') <= Window
  <2>1. /\ up \in Seq(FramesUp) /\ Len(up) <= Window + 1 /\ Window \in Nat
        /\ relay # "left" => Len(up) <= Window
    BY PortForwardAssumption DEF PFInv, PFTypeOK, RoomForEnd, FramesUp
  <2>2. CASE up' = up
    BY <2>1, <2>2
  <2>3. CASE up # <<>> /\ up' = Tail(up)
    <3>1. /\ Tail(up) \in Seq(FramesUp) /\ Len(Tail(up)) = Len(up) - 1
          /\ Len(up) \in Nat
      BY <2>1, <2>3, TailUp
    <3> QED BY <2>1, <2>3, <3>1
  <2> QED BY <1>1, <2>2, <2>3
<1>4. PFTypeOK'
  BY <1>2, <1>3 DEF PFInv, PFTypeOK, FramesUp, Ended
<1>5. pump'["receive"] = s /\ pump'["send"] = pump["send"]
  BY <1>2 DEF PFInv, PFTypeOK
<1>6. CutOffOnce' /\ BusyBelowLimit'
  BY <1>1, <1>2, <1>5 DEF PFInv, CutOffOnce, BusyBelowLimit
<1> QED BY <1>2, <1>3, <1>4, <1>6, PumpKeeps DEF Ended

LEMMA CountsTwo ==
    ASSUME NEW D, NEW q \in [D -> Nat], NEW a \in D, NEW b \in D, a # b
    PROVE  /\ [q EXCEPT ![a] = @ + 1, ![b] = @ + 1] \in [D -> Nat]
           /\ \A d \in D : [q EXCEPT ![a] = @ + 1, ![b] = @ + 1][d] =
                              IF d \in {a, b} THEN q[d] + 1 ELSE q[d]
OBVIOUS

LEMMA PodPumpKeeps ==
    PFInv /\ (PodReads \/ PodReadsNoMore \/ PodWrites \/ PodWritesNoMore) => PFInv'
<1> SUFFICES ASSUME PFInv, PodReads \/ PodReadsNoMore \/ PodWrites \/ PodWritesNoMore
             PROVE  PFInv'
  OBVIOUS
<1>1. PFTypeOK'
  <2>1. CASE PodReads
    <3>1. pump' \in [{"receive", "send"} -> {"reading", "busy"} \cup Ended]
      BY <2>1 DEF PFInv, PFTypeOK, PodReads, PumpTo, Onward, Ended
    <3>2. /\ count' \in [{"sent", "passed", "client", "read", "pod", "given"} -> Nat]
          /\ count'.client <= ClientLimit /\ count'.pod <= PodLimit
      <4>1. /\ count \in [{"sent", "passed", "client", "read", "pod", "given"} -> Nat]
            /\ count.client <= ClientLimit /\ count.pod <= PodLimit
            /\ count.client < ClientLimit /\ ClientLimit \in Nat
        BY <2>1, PortForwardAssumption DEF PFInv, PFTypeOK, BusyBelowLimit, PodReads
      <4>2. count' = [count EXCEPT !.passed = @ + 1, !.client = @ + 1]
        BY <2>1 DEF PodReads
      <4> DEFINE D == {"sent", "passed", "client", "read", "pod", "given"}
      <4>3. "passed" \in D /\ "client" \in D /\ "pod" \in D /\ "passed" # "client"
        OBVIOUS
      <4> HIDE DEF D
      <4>4. /\ count' \in [D -> Nat]
            /\ \A d \in D : count'[d] = IF d \in {"passed", "client"} THEN count[d] + 1
                                        ELSE count[d]
        BY <4>1, <4>2, <4>3, CountsTwo DEF D
      <4> QED BY <4>1, <4>3, <4>4 DEF D
    <3> QED BY <2>1, <3>1, <3>2 DEF PFInv, PFTypeOK, PodReads, PumpTo, pfServerVars
  <2>2. CASE PodReadsNoMore
    <3>1. pump' \in [{"receive", "send"} -> {"reading", "busy"} \cup Ended]
      BY <2>2 DEF PFInv, PFTypeOK, PodReadsNoMore, PumpTo, Ended
    <3>2. /\ count' \in [{"sent", "passed", "client", "read", "pod", "given"} -> Nat]
          /\ count'.client <= ClientLimit /\ count'.pod <= PodLimit
      <4>1. /\ count \in [{"sent", "passed", "client", "read", "pod", "given"} -> Nat]
            /\ count.client <= ClientLimit /\ count.pod <= PodLimit
            /\ count.client < ClientLimit /\ ClientLimit \in Nat
        BY <2>2, PortForwardAssumption DEF PFInv, PFTypeOK, BusyBelowLimit, PodReadsNoMore
      <4>2. count' = [count EXCEPT !["passed"] = @ + 1] \/ count' = count
        BY <2>2 DEF PodReadsNoMore, Counting
      <4> QED BY <4>1, <4>2
    <3> QED BY <2>2, <3>1, <3>2 DEF PFInv, PFTypeOK, PodReadsNoMore, PumpTo, pfServerVars
  <2>3. CASE PodWrites
    BY <2>3, PortForwardAssumption
    DEF PFInv, PFTypeOK, BusyBelowLimit, PodWrites, PumpTo, Counting, Ended, pfServerVars
  <2>4. CASE PodWritesNoMore
    BY <2>4, PortForwardAssumption
    DEF PFInv, PFTypeOK, BusyBelowLimit, PodWritesNoMore, PumpTo, Ended, pfServerVars
  <2> QED BY <2>1, <2>2, <2>3, <2>4
<1>2. CutOffOnce' /\ BusyBelowLimit'
  <2>1. CASE PodReads
    BY <2>1, PortForwardAssumption
    DEF PFInv, PFTypeOK, CutOffOnce, BusyBelowLimit, PodReads, PumpTo, Onward, Ended, pfServerVars
  <2>2. CASE PodReadsNoMore
    BY <2>2, PortForwardAssumption
    DEF PFInv, PFTypeOK, CutOffOnce, BusyBelowLimit, PodReadsNoMore, PumpTo, Counting, Ended, pfServerVars
  <2>3. CASE PodWrites
    BY <2>3, PortForwardAssumption
    DEF PFInv, PFTypeOK, CutOffOnce, BusyBelowLimit, PodWrites, PumpTo, Counting, Ended, pfServerVars
  <2>4. CASE PodWritesNoMore
    BY <2>4, PortForwardAssumption
    DEF PFInv, PFTypeOK, CutOffOnce, BusyBelowLimit, PodWritesNoMore, PumpTo, Ended, pfServerVars
  <2> QED BY <2>1, <2>2, <2>3, <2>4
<1>3. /\ UNCHANGED <<relay, result, handling, first, down, up>>
      /\ count'.pod = count.pod /\ count'.given = count.given
  BY DEF PFInv, PFTypeOK, PodReads, PodReadsNoMore, PodWrites, PodWritesNoMore, PumpTo,
         Counting, pfServerVars
<1>4. \E p \in {"receive", "send"} : pump[p] \notin Ended
  BY DEF PodReads, PodReadsNoMore, PodWrites, PodWritesNoMore, Ended
<1> QED BY <1>1, <1>2, <1>3, <1>4, PumpKeeps DEF PFInv, RoomForEnd

LEMMA SendWritesKeeps == PFInv /\ SendWrites => PFInv'
<1> SUFFICES ASSUME PFInv, SendWrites PROVE PFInv'
  OBVIOUS
<1>1. /\ pump["send"] = "busy" /\ "busy" \notin Ended
      /\ UNCHANGED <<relay, input, result, client, handling, first, tunnel, response,
                     up, timedOut, linkLost>>
  BY DEF SendWrites, PumpTo, Ended, pfServerVars
<1>2. CASE PumpTo("send", "failed") /\ UNCHANGED <<down, count>>
  <2>1. PFTypeOK'
    BY <1>1, <1>2 DEF PFInv, PFTypeOK, PumpTo, Ended
  <2>2. CutOffOnce' /\ BusyBelowLimit'
    BY <1>1, <1>2 DEF PFInv, PFTypeOK, CutOffOnce, BusyBelowLimit, PumpTo
  <2> QED BY <1>1, <1>2, <2>1, <2>2, PumpKeeps DEF PFInv, RoomForEnd
<1>3. CASE /\ Len(down) < Window /\ down' = Append(down, Data)
           /\ Counting("pod") /\ PumpTo("send", Onward)
  <2>1. /\ down \in Seq(FramesDown) /\ Data \in FramesDown /\ Len(down) \in Nat
        /\ Window \in Nat
    BY PortForwardAssumption DEF PFInv, PFTypeOK, FramesDown
  <2>2. /\ down' \in Seq(FramesDown) /\ Len(down') = Len(down) + 1
        /\ down'[Len(down) + 1] = Data
        /\ \A i \in 1 .. Len(down) : down'[i] = down[i]
    BY <1>3, <2>1
  <2>3. PFTypeOK'
    BY <1>1, <1>3, <2>1, <2>2, PortForwardAssumption
    DEF PFInv, PFTypeOK, BusyBelowLimit, FramesDown, Counting, PumpTo, Onward, Ended
  <2>4. result = NoExit /\ \A i \in 1 .. Len(down) : down[i].kind # "exit"
    BY <1>1, NoExitYet
  <2>5. \A i \in 1 .. Len(down') : down'[i].kind # "exit"
    BY <2>1, <2>2, <2>4 DEF Data
  <2>6. ChunksDown' = ChunksDown + 1
    BY <2>1, <2>2, <2>4, <2>5 DEF ChunksDown
  <2>7. PodChunksAccounted'
    <3>1. count.pod \in Nat /\ count.given \in Nat /\ ChunksDown \in Nat
      BY <2>1, <2>4 DEF PFInv, PFTypeOK, ChunksDown
    <3>2. count'.pod = count.pod + 1 /\ count'.given = count.given
      BY <1>3 DEF PFInv, PFTypeOK, Counting
    <3> QED BY <1>1, <2>6, <3>1, <3>2 DEF PFInv, PodChunksAccounted
  <2>8. ExitsAreFinal' /\ ExitIsLast'
    BY <1>1, <2>4, <2>5 DEF ExitsAreFinal, ExitIsLast
  <2>9. CutOffOnce' /\ BusyBelowLimit'
    BY <1>1, <1>3 DEF PFInv, PFTypeOK, CutOffOnce, BusyBelowLimit, Counting, PumpTo, Onward
  <2> QED BY <1>1, <2>3, <2>7, <2>8, <2>9 DEF PFInv, RoomForEnd, FirstIsKnown
<1> QED BY <1>2, <1>3 DEF SendWrites

LEMMA WritesExitKeeps == PFInv /\ WritesExit => PFInv'
<1> SUFFICES ASSUME PFInv, WritesExit PROVE PFInv'
  OBVIOUS
<1>1. /\ handling = "ending" /\ handling' = "done" /\ PumpsGone
      /\ UNCHANGED <<relay, input, result, client, pump, first, tunnel, response, up,
                     timedOut, linkLost, count>>
  BY DEF WritesExit, pfServerVars
<1>2. CASE UNCHANGED down
  <2>1. PFTypeOK'
    BY <1>1, <1>2 DEF PFInv, PFTypeOK
  <2> QED BY <1>1, <1>2, <2>1, OthersKeep DEF PFInv, RoomForEnd
<1>3. CASE Len(down) < Window /\ down' = Append(down, ExitFrame)
  <2>1. ExitFrame \in Exits
    BY <1>1, PortForwardAssumption
    DEF PFInv, PFTypeOK, FirstIsKnown, ExitFrame, MeaningfulError, Exits, Ended
  <2>2. /\ down \in Seq(FramesDown) /\ ExitFrame \in FramesDown /\ Len(down) \in Nat
        /\ Window \in Nat
    BY <2>1, PortForwardAssumption DEF PFInv, PFTypeOK, FramesDown
  <2>3. /\ down' \in Seq(FramesDown) /\ Len(down') = Len(down) + 1
        /\ down'[Len(down) + 1] = ExitFrame
        /\ \A i \in 1 .. Len(down) : down'[i] = down[i]
    BY <1>3, <2>2
  <2>4. PFTypeOK'
    BY <1>1, <1>3, <2>2, <2>3 DEF PFInv, PFTypeOK, FramesDown
  <2>5. result = NoExit /\ \A i \in 1 .. Len(down) : down[i].kind # "exit"
    BY <1>1 DEF PFInv, ExitsAreFinal, Final
  <2>6. ExitIsLast'
    BY <2>2, <2>3, <2>5 DEF ExitIsLast
  <2>7. /\ ExitFrame.kind = "exit" /\ ExitFrame.client = count.client
        /\ ExitFrame.pod = count.pod
    BY DEF ExitFrame
  <2>8. ChunksDown' = ChunksDown
    BY <2>2, <2>3, <2>5, <2>7 DEF ChunksDown
  <2>9. PodChunksAccounted'
    BY <1>1, <2>8 DEF PFInv, PodChunksAccounted
  <2>10. ExitsAreFinal'
    BY <1>1, <2>2, <2>3, <2>5, <2>7 DEF ExitsAreFinal, Final, PumpsGone
  <2> QED BY <1>1, <2>4, <2>6, <2>9, <2>10
          DEF PFInv, CutOffOnce, BusyBelowLimit, RoomForEnd, FirstIsKnown
<1> QED BY <1>2, <1>3 DEF WritesExit

LEMMA PFInvStep == PFInv /\ [PFNext]_pfVars => PFInv'
<1> SUFFICES ASSUME PFInv, [PFNext]_pfVars PROVE PFInv'
  OBVIOUS
<1>1. CASE UNCHANGED pfVars
  <2>1. UNCHANGED <<relay, input, result, client, handling, pump, first, tunnel,
                    response, up, down, timedOut, linkLost, count>>
    BY <1>1 DEF pfVars, pfServerVars, pfAgentVars, pfStreamVars
  <2>2. PFTypeOK'
    BY <2>1 DEF PFInv, PFTypeOK
  <2> QED BY <2>1, <2>2, OthersKeep DEF PFInv, RoomForEnd, FirstIsKnown
<1>2. CASE PFNext
  BY <1>2, ReadAnswerKeeps, TakesKeeps, LeaverKeeps, ClientReadsKeeps, InputReadsKeeps,
     InputKeeps, HandlerKeeps, AroundKeeps, ReceiveReadsKeeps, PodPumpKeeps,
     SendWritesKeeps, WritesExitKeeps
  DEF PFNext, RelaySteps, InputSteps, AgentSteps, ReceiveSteps, SendSteps
<1> QED BY <1>1, <1>2

-----------------------------------------------------------------------------
(* PodPortForward: the theorems.                                            *)

LEMMA PortForwardInv == PFSpec => []PFInv
<1> QED BY PFInvInit, PFInvStep, PTL DEF PFSpec

\* Every variable of a port forward stays in its range, the directions within their
\* windows and the counters within their limits, for every window and every limit.
THEOREM PortForwardTypeCorrect == PFSpec => []PFTypeOK
<1>1. PFInv => PFTypeOK
  BY DEF PFInv
<1> QED BY <1>1, PortForwardInv, PTL

\* An Exit frame is the last thing that the Server reads, and accounts for every chunk
\* that the client was given and for every one that the Pod was, but for one that was
\* cut off.
THEOREM PortForwardAccounts == PFSpec => []ExitEndsTransfer
<1>1. PFInv => ExitEndsTransfer
  BY DEF PFInv, ExitEndsTransfer, ExitIsLast, ExitsAreFinal, Final, CutOffOnce
<1> QED BY <1>1, PortForwardInv, PTL

-----------------------------------------------------------------------------
(* PodAccess: the inductive invariant.                                      *)

PodFor(who, t) == RequestOf[who[t]].pod

\* Tickets pend in P and sessions are active in A, R reserves Pods and I remembers
\* answers; n tickets have been drawn for the requests in who, and act activates.
TablesAgree(P, A, R, I, n, who, act) ==
    /\ n \in 0 .. MaxTickets /\ who \in [PATickets -> PARequests]
    /\ P \subseteq 1 .. n /\ A \subseteq 1 .. n /\ P \cap A = {}
    /\ R \in [Pods -> [key : 0 .. n, active : BOOLEAN]]
    /\ I \in [PARequests -> 0 .. n]
    /\ \A t \in P \cup A : R[PodFor(who, t)].key = t
    /\ \A t \in P : ~R[PodFor(who, t)].active
    /\ \A t \in A : R[PodFor(who, t)].active
    /\ \A t \in P : I[who[t]] = t
    /\ \A p \in Pods : R[p].key # NoTicket =>
         /\ PodFor(who, R[p].key) = p
         /\ R[p].active => R[p].key \in A
         /\ ~R[p].active => R[p].key \in P \/ act[R[p].key].pc # "none"
         /\ \A u \in (R[p].key + 1) .. n : PodFor(who, u) = p =>
              u \notin P \cup A /\ act[u].pc = "none"
    /\ \A t \in PATickets : act[t].pc # "none" => t \in 1 .. n /\ t \notin P \cup A

Activations == {NotActivating} \cup
    [pc : {"checking", "checked"}, late : SUBSET PATickets]

PAInv ==
    /\ activating \in [PATickets -> Activations]
    /\ lapsed \subseteq PATickets
    /\ TablesAgree(pending, active, reservations, idempotency, tickets, asked, activating)

LEMMA TicketTypes ==
    ASSUME NEW n \in 0 .. MaxTickets, NEW who \in [PATickets -> PARequests]
    PROVE  /\ 1 .. n \subseteq PATickets
           /\ \A t \in 1 .. n : who[t] \in PARequests /\ PodFor(who, t) \in Pods
<1>1. 1 .. n \subseteq PATickets
  BY AccessAssumption DEF PATickets
<1> QED BY <1>1, AccessAssumption DEF PodFor

\* What has expired goes from all tables at once.
LEMMA SweptAgrees ==
    ASSUME NEW n, NEW who, NEW act, NEW late,
           TablesAgree(pending, active, reservations, idempotency, n, who, act)
    PROVE  TablesAgree(Swept(late).pending, Swept(late).active, Swept(late).reservations,
                       Swept(late).idempotency, n, who, act)
<1> DEFINE P == Swept(late).pending
           A == Swept(late).active
           R == Swept(late).reservations
           I == Swept(late).idempotency
           stale == pending \cap late
           over == active \cap sessionDone
<1>1. P = pending \ stale /\ A = active \ over
  BY DEF Swept
<1>2. R = [p \in Pods |-> IF reservations[p].key \in (IF reservations[p].active THEN over ELSE stale)
                          THEN Unreserved ELSE reservations[p]]
  BY DEF Swept
<1>3. I = [k \in PARequests |-> IF idempotency[k] \in late THEN NoTicket ELSE idempotency[k]]
  BY DEF Swept
<1> HIDE DEF P, A, R, I
<1>4. P \subseteq 1 .. n /\ A \subseteq 1 .. n /\ P \cap A = {}
  BY <1>1 DEF TablesAgree
<1>5. Unreserved \in [key : 0 .. n, active : BOOLEAN] /\ Unreserved.key = NoTicket
  BY DEF Unreserved, NoTicket, TablesAgree
<1>6. R \in [Pods -> [key : 0 .. n, active : BOOLEAN]]
  BY <1>2, <1>5 DEF TablesAgree
<1>7. I \in [PARequests -> 0 .. n]
  BY <1>3 DEF TablesAgree, NoTicket
<1>8. \A p \in Pods : R[p] = reservations[p] \/ R[p].key = NoTicket
  BY <1>2, <1>5
<1>9. ASSUME NEW t \in P \cup A
      PROVE  /\ PodFor(who, t) \in Pods => R[PodFor(who, t)] = reservations[PodFor(who, t)]
             /\ t \notin stale \cup over
  <2>1. /\ reservations[PodFor(who, t)].key = t
        /\ t \in P => ~reservations[PodFor(who, t)].active
        /\ t \in A => reservations[PodFor(who, t)].active
    BY <1>1 DEF TablesAgree
  <2>2. t \notin stale \cup over
    BY <1>1 DEF TablesAgree
  <2> QED BY <1>2, <2>1, <2>2
<1>10. \A t \in P \cup A : who[t] \in PARequests /\ PodFor(who, t) \in Pods
  BY <1>4, TicketTypes DEF TablesAgree
<1>11. /\ \A t \in P \cup A : R[PodFor(who, t)].key = t
       /\ \A t \in P : ~R[PodFor(who, t)].active
       /\ \A t \in A : R[PodFor(who, t)].active
  BY <1>1, <1>9, <1>10 DEF TablesAgree
<1>12. ASSUME NEW t \in P PROVE I[who[t]] = t
  <2>1. t \notin late /\ idempotency[who[t]] = t
    BY <1>1 DEF TablesAgree
  <2> QED BY <1>3, <1>10, <2>1
<1>13. ASSUME NEW p \in Pods, R[p].key # NoTicket
       PROVE  /\ PodFor(who, R[p].key) = p
              /\ R[p].active => R[p].key \in A
              /\ ~R[p].active => R[p].key \in P \/ act[R[p].key].pc # "none"
              /\ \A u \in (R[p].key + 1) .. n : PodFor(who, u) = p =>
                   u \notin P \cup A /\ act[u].pc = "none"
  <2>1. R[p] = reservations[p]
    BY <1>8, <1>13
  <2>2. R[p].key \notin (IF R[p].active THEN over ELSE stale)
    BY <1>2, <1>5, <1>13, <2>1
  <2> QED BY <1>1, <1>13, <2>1, <2>2 DEF TablesAgree
<1>14. \A t \in PATickets : act[t].pc # "none" => t \in 1 .. n /\ t \notin P \cup A
  BY <1>1 DEF TablesAgree
<1>15. n \in 0 .. MaxTickets /\ who \in [PATickets -> PARequests]
  BY DEF TablesAgree
<1> QED BY <1>4, <1>6, <1>7, <1>11, <1>12, <1>13, <1>14, <1>15 DEF TablesAgree, P, A, R, I

-----------------------------------------------------------------------------
(* PodAccess: what the operations do to the tables.                         *)

LEMMA ReservedTypes ==
    ASSUME NEW n \in Nat
    PROVE  /\ Unreserved \in [key : 0 .. n, active : BOOLEAN] /\ Unreserved.key = NoTicket
           /\ \A t \in 0 .. n, a \in BOOLEAN :
                /\ [key |-> t, active |-> a] \in [key : 0 .. n, active : BOOLEAN]
                /\ [key |-> t, active |-> a].key = t
                /\ [key |-> t, active |-> a].active = a
BY DEF Unreserved, NoTicket

\* A new ticket takes the place of what has the Pod.
LEMMA CreateAgrees ==
    ASSUME NEW P, NEW A, NEW R, NEW I, NEW n, NEW who, NEW act,
           TablesAgree(P, A, R, I, n, who, act),
           NEW k \in PARequests, n + 1 \in PATickets, I[k] = NoTicket,
           NEW pod, pod = RequestOf[k].pod,
           NEW key, key = R[pod].key,
           NEW I2 \in [PARequests -> 0 .. (n + 1)], I2[k] = n + 1,
           \A q \in PARequests : q # k =>
               I2[q] = I[q] \/ (key # NoTicket /\ q = who[key])
    PROVE  TablesAgree((P \ {key}) \cup {n + 1}, A \ {key},
                       [R EXCEPT ![pod] = [key |-> n + 1, active |-> FALSE]],
                       I2, n + 1, [who EXCEPT ![n + 1] = k], act)
<1> DEFINE t == n + 1
           P2 == (P \ {key}) \cup {t}
           A2 == A \ {key}
           R2 == [R EXCEPT ![pod] = [key |-> t, active |-> FALSE]]
           who2 == [who EXCEPT ![t] = k]
<1>1. /\ n \in 0 .. MaxTickets /\ who \in [PATickets -> PARequests] /\ n \in Nat
      /\ pod \in Pods
  BY AccessAssumption DEF TablesAgree
<1>2. t \in 0 .. MaxTickets /\ who2 \in [PATickets -> PARequests] /\ t \in Nat
  BY <1>1, AccessAssumption DEF PATickets
<1>3. PodFor(who2, t) = pod /\ who2[t] = k
  BY <1>1 DEF PodFor
<1>4. \A u \in 1 .. n : who2[u] = who[u] /\ PodFor(who2, u) = PodFor(who, u) /\ u # t
  BY <1>1 DEF PodFor
<1>5. \A u \in 1 .. n : who[u] \in PARequests /\ PodFor(who, u) \in Pods
  BY <1>1, TicketTypes
<1>6. P \subseteq 1 .. n /\ A \subseteq 1 .. n /\ P \cap A = {}
  BY DEF TablesAgree
<1>7. R \in [Pods -> [key : 0 .. n, active : BOOLEAN]]
  BY DEF TablesAgree
<1>8. /\ R2[pod].key = t /\ R2[pod].active = FALSE
      /\ \A p \in Pods \ {pod} : R2[p] = R[p]
      /\ R2 \in [Pods -> [key : 0 .. t, active : BOOLEAN]]
  <2>1. R \in [Pods -> [key : 0 .. t, active : BOOLEAN]]
    BY <1>1, <1>7
  <2>2. [key |-> t, active |-> FALSE] \in [key : 0 .. t, active : BOOLEAN]
    BY <1>2
  <2> QED BY <1>1, <2>1, <2>2
<1>9. \A u \in P \cup A : R[PodFor(who, u)].key = u
  BY DEF TablesAgree
<1>10. \A u \in (P \cup A) \ {key} : PodFor(who, u) # pod
  BY <1>9
<1>11. P2 \subseteq 1 .. t /\ A2 \subseteq 1 .. t /\ P2 \cap A2 = {}
  <2>1. t \notin 1 .. n /\ 1 .. n \subseteq 1 .. t /\ t \in 1 .. t
    BY <1>1
  <2> QED BY <2>1, <1>6
<1>12. act[t].pc = "none"
  BY <1>1 DEF TablesAgree
<1> HIDE DEF R2, who2, P2, A2
<1>13. /\ \A u \in P2 \cup A2 : R2[PodFor(who2, u)].key = u
       /\ \A u \in P2 : ~R2[PodFor(who2, u)].active
       /\ \A u \in A2 : R2[PodFor(who2, u)].active
  <2>1. ASSUME NEW u \in (P \cup A) \ {key}
        PROVE  R2[PodFor(who2, u)] = R[PodFor(who, u)]
    BY <1>4, <1>5, <1>6, <1>8, <1>10
  <2> QED BY <2>1, <1>3, <1>6, <1>8 DEF TablesAgree, P2, A2
<1>14. ASSUME NEW u \in P2 PROVE I2[who2[u]] = u
  <2>1. CASE u = t
    BY <2>1, <1>3
  <2>2. CASE u \in P \ {key}
    <3>1. who2[u] = who[u] /\ who[u] \in PARequests /\ I[who[u]] = u /\ u \in 1 .. n
      BY <2>2, <1>4, <1>5, <1>6 DEF TablesAgree
    <3>2. who[u] # k
      BY <3>1 DEF NoTicket
    <3>3. ~(key # NoTicket /\ who[u] = who[key])
      <4> SUFFICES ASSUME key # NoTicket, who[u] = who[key] PROVE FALSE
        OBVIOUS
      <4>1. PodFor(who, key) = pod
        BY <1>1 DEF TablesAgree
      <4> QED BY <4>1, <2>2, <1>10 DEF PodFor
    <3> QED BY <3>1, <3>2, <3>3
  <2> QED BY <2>1, <2>2 DEF P2
<1>15. ASSUME NEW p \in Pods, R2[p].key # NoTicket
       PROVE  /\ PodFor(who2, R2[p].key) = p
              /\ R2[p].active => R2[p].key \in A2
              /\ ~R2[p].active => R2[p].key \in P2 \/ act[R2[p].key].pc # "none"
              /\ \A u \in (R2[p].key + 1) .. t : PodFor(who2, u) = p =>
                   u \notin P2 \cup A2 /\ act[u].pc = "none"
  <2>1. CASE p = pod
    <3>1. t \in P2
      BY DEF P2
    <3> QED BY <2>1, <3>1, <1>2, <1>3, <1>8
  <2>2. CASE p # pod
    <3> DEFINE r == R[p]
    <3>1. R2[p] = r /\ r.key \in 1 .. n
      BY <2>2, <1>1, <1>7, <1>8, <1>15 DEF NoTicket
    <3>2. /\ PodFor(who, r.key) = p
          /\ r.active => r.key \in A
          /\ ~r.active => r.key \in P \/ act[r.key].pc # "none"
          /\ \A u \in (r.key + 1) .. n : PodFor(who, u) = p =>
                   u \notin P \cup A /\ act[u].pc = "none"
      BY <3>1, <1>15 DEF TablesAgree
    <3> HIDE DEF r
    <3>3. r.key # key
      <4>1. key # NoTicket => PodFor(who, key) = pod
        BY <1>1 DEF TablesAgree
      <4> QED BY <4>1, <3>1, <3>2, <2>2 DEF NoTicket
    <3>4. PodFor(who2, r.key) = p
      BY <3>1, <3>2, <1>4
    <3>5. ASSUME NEW u \in (r.key + 1) .. t, PodFor(who2, u) = p
          PROVE  u \notin P2 \cup A2 /\ act[u].pc = "none"
      <4>1. u # t
        BY <3>5, <2>2, <1>3
      <4>2. u \in (r.key + 1) .. n /\ u \in 1 .. n
        BY <4>1, <3>1, <1>1
      <4> QED BY <4>1, <4>2, <3>2, <3>5, <1>4 DEF P2, A2
    <3> QED BY <3>1, <3>2, <3>3, <3>4, <3>5 DEF P2, A2
  <2> QED BY <2>1, <2>2
<1>16. ASSUME NEW u \in PATickets, act[u].pc # "none"
       PROVE  u \in 1 .. t /\ u \notin P2 \cup A2
  <2>1. u \in 1 .. n /\ u \notin P \cup A
    BY <1>16 DEF TablesAgree
  <2> QED BY <2>1, <1>1, <1>4 DEF P2, A2
<1> QED BY <1>2, <1>8, <1>11, <1>13, <1>14, <1>15, <1>16
        DEF TablesAgree, R2, who2, P2, A2

\* An activation that goes on.
LEMMA ActivatingAgrees ==
    ASSUME NEW P, NEW A, NEW R, NEW I, NEW n, NEW who, NEW act, NEW act2,
           TablesAgree(P, A, R, I, n, who, act),
           \A t \in PATickets : act2[t].pc = "none" <=> act[t].pc = "none"
    PROVE  TablesAgree(P, A, R, I, n, who, act2)
<1>1. 1 .. n \subseteq PATickets /\ n \in Nat
  BY TicketTypes DEF TablesAgree
<1>2. ASSUME NEW p \in Pods, R[p].key # NoTicket
      PROVE  /\ R[p].key \in PATickets
             /\ \A u \in (R[p].key + 1) .. n : u \in PATickets
  <2>1. R[p].key \in 0 .. n
    BY DEF TablesAgree
  <2> QED BY <1>1, <1>2, <2>1 DEF NoTicket
<1> QED BY <1>2 DEF TablesAgree

\* An activation takes its ticket.
LEMMA TakeAgrees ==
    ASSUME NEW P, NEW A, NEW R, NEW I, NEW n, NEW who, NEW act, NEW act2,
           TablesAgree(P, A, R, I, n, who, act), NEW t \in P,
           act2[t].pc # "none",
           \A u \in PATickets \ {t} : act2[u] = act[u]
    PROVE  TablesAgree(P \ {t}, A, R, I, n, who, act2)
<1>1. 1 .. n \subseteq PATickets /\ n \in Nat
  BY TicketTypes DEF TablesAgree
<1>2. t \in 1 .. n /\ t \notin A /\ t \in PATickets /\ R[PodFor(who, t)].key = t
  BY <1>1 DEF TablesAgree
<1>3. ASSUME NEW p \in Pods, R[p].key # NoTicket
      PROVE  /\ PodFor(who, R[p].key) = p
             /\ R[p].active => R[p].key \in A
             /\ ~R[p].active => R[p].key \in P \ {t} \/ act2[R[p].key].pc # "none"
             /\ \A u \in (R[p].key + 1) .. n : PodFor(who, u) = p =>
                  u \notin (P \ {t}) \cup A /\ act2[u].pc = "none"
  <2>1. R[p].key \in 0 .. n
    BY DEF TablesAgree
  <2>2. R[p].key \in 1 .. n
    BY <1>1, <1>3, <2>1 DEF NoTicket
  <2>3. /\ PodFor(who, R[p].key) = p
        /\ R[p].active => R[p].key \in A
        /\ ~R[p].active => R[p].key \in P \ {t} \/ act2[R[p].key].pc # "none"
    BY <1>1, <1>3, <2>2 DEF TablesAgree
  <2>4. ASSUME NEW u \in (R[p].key + 1) .. n, PodFor(who, u) = p
        PROVE  u \notin (P \ {t}) \cup A /\ act2[u].pc = "none"
    <3>1. u \notin P \cup A /\ act[u].pc = "none"
      BY <1>3, <2>4 DEF TablesAgree
    <3>2. u \in PATickets /\ u # t
      BY <1>1, <2>2, <3>1
    <3> QED BY <3>1, <3>2
  <2> QED BY <2>3, <2>4
<1>4. \A u \in PATickets : act2[u].pc # "none" => u \in 1 .. n /\ u \notin (P \ {t}) \cup A
  BY <1>2 DEF TablesAgree
<1> QED BY <1>3, <1>4 DEF TablesAgree

\* An activation ends without a session; its reservation goes unless it has none any
\* more, and with it perhaps the answer under its key.
LEMMA ReleaseAgrees ==
    ASSUME NEW P, NEW A, NEW R, NEW I, NEW n, NEW who, NEW act, NEW act2,
           TablesAgree(P, A, R, I, n, who, act),
           NEW t \in PATickets, act[t].pc # "none", act2[t].pc = "none",
           \A u \in PATickets \ {t} : act2[u] = act[u],
           NEW I2 \in [PARequests -> 0 .. n],
           NEW pod, pod = PodFor(who, t),
           \A q \in PARequests : I2[q] # I[q] => R[pod].key = t /\ q = who[t]
    PROVE  /\ R[pod].key = t =>
                TablesAgree(P, A, [R EXCEPT ![pod] = Unreserved], I2, n, who, act2)
           /\ R[pod].key # t => TablesAgree(P, A, R, I2, n, who, act2)
<1> DEFINE R2 == IF R[pod].key = t THEN [R EXCEPT ![pod] = Unreserved] ELSE R
<1>1. /\ 1 .. n \subseteq PATickets /\ n \in Nat
      /\ \A u \in 1 .. n : who[u] \in PARequests /\ PodFor(who, u) \in Pods
  BY TicketTypes DEF TablesAgree
<1>2. t \in 1 .. n /\ t \notin P \cup A
  BY DEF TablesAgree
<1>3. pod \in Pods /\ R \in [Pods -> [key : 0 .. n, active : BOOLEAN]]
      /\ P \subseteq 1 .. n /\ A \subseteq 1 .. n
  BY <1>1, <1>2 DEF TablesAgree
<1>4. /\ R2 \in [Pods -> [key : 0 .. n, active : BOOLEAN]]
      /\ \A p \in Pods : R2[p] = R[p] \/ R2[p].key = NoTicket
      /\ \A p \in Pods : R[p].key # t => R2[p] = R[p]
      /\ R2[pod].key # t
  BY <1>1, <1>2, <1>3, ReservedTypes DEF NoTicket
<1> HIDE DEF R2
<1>5. \A u \in P \cup A : R2[PodFor(who, u)] = R[PodFor(who, u)]
  <2>1. \A u \in P \cup A : R[PodFor(who, u)].key = u /\ u # t /\ PodFor(who, u) \in Pods
    BY <1>1, <1>2, <1>3 DEF TablesAgree
  <2> QED BY <1>4, <2>1
<1>6. ASSUME NEW u \in P PROVE I2[who[u]] = u
  <2>1. I[who[u]] = u /\ R[PodFor(who, u)].key = u /\ u # t
    BY <1>2 DEF TablesAgree
  <2>2. who[u] = who[t] => R[pod].key # t
    BY <2>1 DEF PodFor
  <2>3. who[u] \in PARequests
    BY <1>1, <1>3
  <2> QED BY <2>1, <2>2, <2>3
<1>7. ASSUME NEW p \in Pods, R2[p].key # NoTicket
      PROVE  /\ PodFor(who, R2[p].key) = p
             /\ R2[p].active => R2[p].key \in A
             /\ ~R2[p].active => R2[p].key \in P \/ act2[R2[p].key].pc # "none"
             /\ \A u \in (R2[p].key + 1) .. n : PodFor(who, u) = p =>
                  u \notin P \cup A /\ act2[u].pc = "none"
  <2> DEFINE r == R[p]
  <2>1. R2[p] = r /\ r.key \in 1 .. n
    BY <1>1, <1>3, <1>4, <1>7 DEF NoTicket
  <2>2. /\ PodFor(who, r.key) = p
        /\ r.active => r.key \in A
        /\ ~r.active => r.key \in P \/ act[r.key].pc # "none"
        /\ \A u \in (r.key + 1) .. n : PodFor(who, u) = p =>
             u \notin P \cup A /\ act[u].pc = "none"
    BY <1>7, <2>1 DEF TablesAgree
  <2> HIDE DEF r
  <2>3. r.key # t
    BY <1>4, <2>1, <2>2
  <2>4. \A u \in (r.key + 1) .. n : u \in PATickets
    BY <1>1, <2>1
  <2>5. r.key \in PATickets
    BY <1>1, <2>1
  <2> QED BY <2>1, <2>2, <2>3, <2>4, <2>5
<1>8. \A u \in PATickets : act2[u].pc # "none" => u \in 1 .. n /\ u \notin P \cup A
  BY DEF TablesAgree
<1>9. TablesAgree(P, A, R2, I2, n, who, act2)
  BY <1>4, <1>5, <1>6, <1>7, <1>8 DEF TablesAgree
<1> QED BY <1>9 DEF R2

\* The same, when its reservation is another's by now.
LEMMA LostAgrees ==
    ASSUME NEW P, NEW A, NEW R, NEW I, NEW n, NEW who, NEW act, NEW act2,
           TablesAgree(P, A, R, I, n, who, act),
           NEW t \in PATickets, act[t].pc # "none", act2[t].pc = "none",
           \A u \in PATickets \ {t} : act2[u] = act[u],
           R[PodFor(who, t)].key # t
    PROVE  TablesAgree(P, A, R, I, n, who, act2)
<1>1. 1 .. n \subseteq PATickets /\ n \in Nat
  BY TicketTypes DEF TablesAgree
<1>2. ASSUME NEW p \in Pods, R[p].key # NoTicket
      PROVE  /\ ~R[p].active => R[p].key \in P \/ act2[R[p].key].pc # "none"
             /\ \A u \in (R[p].key + 1) .. n : PodFor(who, u) = p => act2[u].pc = "none"
  <2>1. R[p].key \in 0 .. n /\ PodFor(who, R[p].key) = p
    BY <1>2 DEF TablesAgree
  <2>2. R[p].key # t /\ R[p].key \in PATickets
    BY <1>1, <1>2, <2>1 DEF NoTicket
  <2>3. \A u \in (R[p].key + 1) .. n : u \in PATickets
    BY <1>1, <2>1
  <2> QED BY <1>2, <2>2, <2>3 DEF TablesAgree
<1>3. \A u \in PATickets : act2[u].pc # "none" => u \in 1 .. n /\ u \notin P \cup A
  BY DEF TablesAgree
<1> QED BY <1>2, <1>3 DEF TablesAgree

\* An activation that still has its reservation enters its session.
LEMMA EnterAgrees ==
    ASSUME NEW P, NEW A, NEW R, NEW I, NEW n, NEW who, NEW act, NEW act2,
           TablesAgree(P, A, R, I, n, who, act),
           NEW t \in PATickets, act[t].pc # "none", act2[t].pc = "none",
           \A u \in PATickets \ {t} : act2[u] = act[u],
           NEW pod, pod = PodFor(who, t), R[pod].key = t
    PROVE  TablesAgree(P, A \cup {t}, [R EXCEPT ![pod] = [key |-> t, active |-> TRUE]],
                       I, n, who, act2)
<1> DEFINE R2 == [R EXCEPT ![pod] = [key |-> t, active |-> TRUE]]
           A2 == A \cup {t}
<1>1. /\ 1 .. n \subseteq PATickets /\ n \in Nat
      /\ \A u \in 1 .. n : who[u] \in PARequests /\ PodFor(who, u) \in Pods
  BY TicketTypes DEF TablesAgree
<1>2. t \in 1 .. n /\ t \notin P \cup A
  BY DEF TablesAgree
<1>3. pod \in Pods /\ R \in [Pods -> [key : 0 .. n, active : BOOLEAN]]
      /\ P \subseteq 1 .. n /\ A \subseteq 1 .. n
  BY <1>1, <1>2 DEF TablesAgree
<1>4. /\ R2 \in [Pods -> [key : 0 .. n, active : BOOLEAN]]
      /\ R2[pod].key = t /\ R2[pod].active
      /\ \A p \in Pods \ {pod} : R2[p] = R[p]
  <2>1. /\ [key |-> t, active |-> TRUE] \in [key : 0 .. n, active : BOOLEAN]
        /\ [key |-> t, active |-> TRUE].key = t /\ [key |-> t, active |-> TRUE].active = TRUE
    BY <1>1, <1>2, ReservedTypes
  <2> QED BY <1>3, <2>1
<1>5. \A u \in P \cup A : R[PodFor(who, u)].key = u /\ u # t /\ PodFor(who, u) \in Pods
                          /\ PodFor(who, u) # pod
  BY <1>1, <1>2, <1>3 DEF TablesAgree
<1> HIDE DEF R2
<1>6. /\ \A u \in P \cup A2 : R2[PodFor(who, u)].key = u
      /\ \A u \in P : ~R2[PodFor(who, u)].active
      /\ \A u \in A2 : R2[PodFor(who, u)].active
  BY <1>4, <1>5 DEF TablesAgree
<1>7. ASSUME NEW p \in Pods, R2[p].key # NoTicket
      PROVE  /\ PodFor(who, R2[p].key) = p
             /\ R2[p].active => R2[p].key \in A2
             /\ ~R2[p].active => R2[p].key \in P \/ act2[R2[p].key].pc # "none"
             /\ \A u \in (R2[p].key + 1) .. n : PodFor(who, u) = p =>
                  u \notin P \cup A2 /\ act2[u].pc = "none"
  <2> DEFINE r == R[p]
  <2>1. R2[p].key = r.key /\ r.key \in 1 .. n /\ (p # pod => R2[p] = r)
    BY <1>1, <1>2, <1>3, <1>4, <1>7 DEF NoTicket
  <2>2. /\ PodFor(who, r.key) = p
        /\ r.active => r.key \in A
        /\ ~r.active => r.key \in P \/ act[r.key].pc # "none"
        /\ \A u \in (r.key + 1) .. n : PodFor(who, u) = p =>
             u \notin P \cup A /\ act[u].pc = "none"
    BY <1>7, <2>1 DEF TablesAgree
  <2>3. p = pod => r.key = t
    OBVIOUS
  <2> HIDE DEF r
  <2>4. \A u \in (r.key + 1) .. n : u \in PATickets /\ u # r.key
    BY <1>1, <2>1
  <2>5. r.key \in PATickets
    BY <1>1, <2>1
  <2>6. \A u \in (r.key + 1) .. n : PodFor(who, u) = p => u # t
    BY <2>3, <2>4
  <2>7. r.key = t => p = pod
    BY <2>2
  <2> QED BY <1>4, <2>1, <2>2, <2>3, <2>4, <2>5, <2>6, <2>7
<1>8. \A u \in PATickets : act2[u].pc # "none" => u \in 1 .. n /\ u \notin P \cup A2
  BY DEF TablesAgree
<1>9. A2 \subseteq 1 .. n /\ P \cap A2 = {}
  BY <1>2, <1>3 DEF TablesAgree
<1> QED BY <1>4, <1>6, <1>7, <1>8, <1>9 DEF TablesAgree, R2

\* A session ends.
LEMMA DropAgrees ==
    ASSUME NEW P, NEW A, NEW R, NEW I, NEW n, NEW who, NEW act,
           TablesAgree(P, A, R, I, n, who, act), NEW t \in A
    PROVE  TablesAgree(P, A \ {t}, [R EXCEPT ![PodFor(who, t)] = Unreserved],
                       I, n, who, act)
<1> DEFINE pod == PodFor(who, t)
           R2 == [R EXCEPT ![pod] = Unreserved]
           A2 == A \ {t}
<1>1. /\ 1 .. n \subseteq PATickets /\ n \in Nat
      /\ \A u \in 1 .. n : who[u] \in PARequests /\ PodFor(who, u) \in Pods
  BY TicketTypes DEF TablesAgree
<1>2. t \in 1 .. n /\ t \notin P /\ R[pod].key = t
  BY DEF TablesAgree
<1>3. pod \in Pods /\ R \in [Pods -> [key : 0 .. n, active : BOOLEAN]]
      /\ P \subseteq 1 .. n /\ A \subseteq 1 .. n
  BY <1>1, <1>2 DEF TablesAgree
<1>4. /\ R2 \in [Pods -> [key : 0 .. n, active : BOOLEAN]]
      /\ R2[pod].key = NoTicket
      /\ \A p \in Pods \ {pod} : R2[p] = R[p]
  BY <1>1, <1>3, ReservedTypes
<1>5. \A u \in P \cup A2 : R[PodFor(who, u)].key = u /\ u # t /\ PodFor(who, u) \in Pods
                          /\ PodFor(who, u) # pod
  BY <1>1, <1>2, <1>3 DEF TablesAgree
<1> HIDE DEF R2, pod
<1>6. /\ \A u \in P \cup A2 : R2[PodFor(who, u)].key = u
      /\ \A u \in P : ~R2[PodFor(who, u)].active
      /\ \A u \in A2 : R2[PodFor(who, u)].active
  BY <1>4, <1>5 DEF TablesAgree
<1>7. ASSUME NEW p \in Pods, R2[p].key # NoTicket
      PROVE  /\ PodFor(who, R2[p].key) = p
             /\ R2[p].active => R2[p].key \in A2
             /\ ~R2[p].active => R2[p].key \in P \/ act[R2[p].key].pc # "none"
             /\ \A u \in (R2[p].key + 1) .. n : PodFor(who, u) = p =>
                  u \notin P \cup A2 /\ act[u].pc = "none"
  <2> DEFINE r == R[p]
  <2>1. R2[p] = r /\ p # pod
    BY <1>4, <1>7
  <2>2. /\ PodFor(who, r.key) = p
        /\ r.active => r.key \in A
        /\ ~r.active => r.key \in P \/ act[r.key].pc # "none"
        /\ \A u \in (r.key + 1) .. n : PodFor(who, u) = p =>
             u \notin P \cup A /\ act[u].pc = "none"
    BY <1>7, <2>1 DEF TablesAgree
  <2> HIDE DEF r
  <2>3. r.key # t
    BY <2>1, <2>2 DEF pod
  <2> QED BY <2>1, <2>2, <2>3
<1>8. \A u \in PATickets : act[u].pc # "none" => u \in 1 .. n /\ u \notin P \cup A2
  BY DEF TablesAgree
<1>9. A2 \subseteq 1 .. n /\ P \cap A2 = {}
  BY <1>3 DEF TablesAgree
<1> QED BY <1>4, <1>6, <1>7, <1>8, <1>9 DEF TablesAgree, R2, pod

-----------------------------------------------------------------------------
(* PodAccess: the invariant, one operation at a time.                       *)

LEMMA PAInvInit == PAInit => PAInv
<1> SUFFICES ASSUME PAInit PROVE PAInv
  OBVIOUS
<1>1. asked \in [PATickets -> PARequests]
  <2>1. (CHOOSE k \in PARequests : TRUE) \in PARequests
    BY AccessAssumption
  <2> QED BY <2>1 DEF PAInit
<1>2. reservations \in [Pods -> [key : 0 .. 0, active : BOOLEAN]]
      /\ \A p \in Pods : reservations[p].key = NoTicket
  BY ReservedTypes DEF PAInit
<1>3. tickets \in 0 .. MaxTickets /\ tickets = 0
  BY AccessAssumption DEF PAInit
<1>4. activating \in [PATickets -> Activations]
      /\ \A t \in PATickets : activating[t].pc = "none"
  BY DEF PAInit, Activations, NotActivating
<1>5. idempotency \in [PARequests -> 0 .. 0]
  BY DEF PAInit, NoTicket
<1> QED BY <1>1, <1>2, <1>3, <1>4, <1>5 DEF PAInv, PAInit, TablesAgree

\* What the tables are when what has expired is gone.
LEMMA SweptTables ==
    ASSUME PAInv, NEW late
    PROVE  TablesAgree(Swept(late).pending, Swept(late).active, Swept(late).reservations,
                       Swept(late).idempotency, tickets, asked, activating)
BY SweptAgrees DEF PAInv

\* What holds of a ticket that has been drawn, or whose activation is under way.
LEMMA ActivationTypes ==
    ASSUME PAInv, NEW t \in PATickets
    PROVE  /\ activating[t] \in Activations
           /\ activating[t].pc # "none" =>
                /\ t \in 1 .. tickets /\ t \notin pending \cup active
                /\ asked[t] \in PARequests /\ PodOf(t) \in Pods
                /\ activating[t] \in [pc : {"checking", "checked"}, late : SUBSET PATickets]
<1>1. activating[t] \in Activations
  BY DEF PAInv
<1>2. activating[t].pc # "none" => t \in 1 .. tickets /\ t \notin pending \cup active
  BY DEF PAInv, TablesAgree
<1>3. t \in 1 .. tickets => asked[t] \in PARequests /\ PodOf(t) \in Pods
  BY TicketTypes DEF PAInv, TablesAgree, PodFor, PodOf
<1>4. activating[t].pc # "none" =>
        activating[t] \in [pc : {"checking", "checked"}, late : SUBSET PATickets]
  BY <1>1 DEF Activations, NotActivating
<1> QED BY <1>1, <1>2, <1>3, <1>4

LEMMA CreateKeepsTables == ASSUME PAInv, NEW k \in PARequests, Create(k) PROVE PAInv'
<1> DEFINE P == Swept(lapsed).pending
           A == Swept(lapsed).active
           R == Swept(lapsed).reservations
           I == Swept(lapsed).idempotency
           pod == RequestOf[k].pod
           key == R[pod].key
           t == tickets + 1
           freed == {q \in PARequests : key # NoTicket /\ q = asked[key]}
<1>1. TablesAgree(P, A, R, I, tickets, asked, activating)
  BY SweptTables
<1>2. activating' = activating /\ lapsed' = lapsed
  BY DEF Create
<1>3. \/ /\ pending' = P /\ active' = A /\ reservations' = R /\ idempotency' = I
         /\ tickets' = tickets /\ asked' = asked
      \/ /\ I[k] = NoTicket /\ t \in PATickets
         /\ tickets' = t /\ asked' = [asked EXCEPT ![t] = k]
         /\ pending' = (P \ {key}) \cup {t} /\ active' = A \ {key}
         /\ reservations' = [R EXCEPT ![pod] = [key |-> t, active |-> FALSE]]
         /\ idempotency' = [q \in PARequests |->
              IF q = k THEN t ELSE IF q \in freed THEN NoTicket ELSE I[q]]
  BY DEF Create, Becomes
<1> HIDE DEF P, A, R, I
<1>4. CASE /\ pending' = P /\ active' = A /\ reservations' = R /\ idempotency' = I
           /\ tickets' = tickets /\ asked' = asked
  BY <1>1, <1>2, <1>4 DEF PAInv
<1>5. CASE /\ I[k] = NoTicket /\ t \in PATickets
           /\ tickets' = t /\ asked' = [asked EXCEPT ![t] = k]
           /\ pending' = (P \ {key}) \cup {t} /\ active' = A \ {key}
           /\ reservations' = [R EXCEPT ![pod] = [key |-> t, active |-> FALSE]]
           /\ idempotency' = [q \in PARequests |->
                IF q = k THEN t ELSE IF q \in freed THEN NoTicket ELSE I[q]]
  <2>1. tickets \in Nat /\ I \in [PARequests -> 0 .. tickets]
    BY <1>1, AccessAssumption DEF TablesAgree
  <2>2. idempotency' \in [PARequests -> 0 .. t]
    BY <1>5, <2>1 DEF NoTicket
  <2>3. idempotency'[k] = t
    BY <1>5
  <2>4. \A q \in PARequests : q # k =>
          idempotency'[q] = I[q] \/ (key # NoTicket /\ q = asked[key])
    BY <1>5
  <2> HIDE DEF key, pod, freed
  <2>5. TablesAgree((P \ {key}) \cup {t}, A \ {key},
                    [R EXCEPT ![pod] = [key |-> t, active |-> FALSE]],
                    idempotency', t, [asked EXCEPT ![t] = k], activating)
    BY <1>1, <1>5, <2>2, <2>3, <2>4, CreateAgrees DEF key, pod
  <2> QED BY <1>2, <1>5, <2>5 DEF PAInv
<1> QED BY <1>3, <1>4, <1>5

LEMMA TakeKeepsTables == ASSUME PAInv, NEW t \in PATickets, ActivateTakes(t) PROVE PAInv'
<1> DEFINE P == Swept(lapsed).pending
           A == Swept(lapsed).active
           R == Swept(lapsed).reservations
           I == Swept(lapsed).idempotency
           took == [activating EXCEPT ![t] = [pc |-> "checking", late |-> lapsed]]
<1>1. TablesAgree(P, A, R, I, tickets, asked, activating)
  BY SweptTables
<1>2. lapsed' = lapsed /\ tickets' = tickets /\ asked' = asked
  BY DEF ActivateTakes
<1>3. /\ pending' = P \ {t} /\ active' = A /\ reservations' = R /\ idempotency' = I
      /\ activating' = IF t \in P THEN took ELSE activating
  BY DEF ActivateTakes, Becomes, Swept
<1>4. /\ activating \in [PATickets -> Activations] /\ lapsed \subseteq PATickets
  BY DEF PAInv
<1> HIDE DEF P, A, R, I
<1>5. took \in [PATickets -> Activations] /\ took[t].pc # "none"
      /\ \A u \in PATickets \ {t} : took[u] = activating[u]
  BY <1>4 DEF Activations
<1> HIDE DEF took
<1>6. CASE t \in P
  <2>1. TablesAgree(P \ {t}, A, R, I, tickets, asked, took)
    BY <1>1, <1>5, <1>6, TakeAgrees
  <2> QED BY <1>2, <1>3, <1>4, <1>5, <1>6, <2>1 DEF PAInv
<1>7. CASE t \notin P
  <2>1. P \ {t} = P
    BY <1>7
  <2> QED BY <1>1, <1>2, <1>3, <1>4, <1>7, <2>1 DEF PAInv
<1> QED BY <1>6, <1>7

LEMMA CheckKeepsTables == ASSUME PAInv, NEW t \in PATickets, ActivateChecks(t) PROVE PAInv'
<1>1. /\ pending' = pending /\ active' = active /\ tickets' = tickets /\ asked' = asked
      /\ lapsed' = lapsed /\ activating[t].pc = "checking"
  BY DEF ActivateChecks
<1>2. TablesAgree(pending, active, reservations, idempotency, tickets, asked, activating)
      /\ activating \in [PATickets -> Activations] /\ lapsed \subseteq PATickets
  BY DEF PAInv
<1>3. \/ /\ activating' = [activating EXCEPT ![t].pc = "checked"]
         /\ reservations' = reservations /\ idempotency' = idempotency
      \/ /\ activating' = [activating EXCEPT ![t] = NotActivating]
         /\ ReleasePending(t)
  BY DEF ActivateChecks
<1>4. CASE /\ activating' = [activating EXCEPT ![t].pc = "checked"]
           /\ reservations' = reservations /\ idempotency' = idempotency
  <2>1. activating[t] \in [pc : {"checking", "checked"}, late : SUBSET PATickets]
    BY <1>1, ActivationTypes
  <2>2. [activating[t] EXCEPT !.pc = "checked"] \in Activations
        /\ [activating[t] EXCEPT !.pc = "checked"].pc = "checked"
    BY <2>1 DEF Activations
  <2>3. activating' = [activating EXCEPT ![t] = [activating[t] EXCEPT !.pc = "checked"]]
    BY <1>4
  <2>4. activating' \in [PATickets -> Activations] /\ activating'[t].pc = "checked"
        /\ \A u \in PATickets \ {t} : activating'[u] = activating[u]
    BY <1>2, <2>2, <2>3
  <2>5. \A u \in PATickets : activating'[u].pc = "none" <=> activating[u].pc = "none"
    BY <1>1, <2>4
  <2>6. TablesAgree(pending, active, reservations, idempotency, tickets, asked, activating')
    BY <1>2, <2>5, ActivatingAgrees
  <2> QED BY <1>1, <1>2, <1>4, <2>4, <2>6 DEF PAInv
<1>5. CASE /\ activating' = [activating EXCEPT ![t] = NotActivating]
           /\ ReleasePending(t)
  <2> DEFINE pod == PodFor(asked, t)
  <2>1. pod = PodOf(t) /\ pod \in Pods /\ asked[t] \in PARequests /\ t \in 1 .. tickets
        /\ t \notin active
    BY <1>1, ActivationTypes DEF PodFor, PodOf
  <2>2. activating' \in [PATickets -> Activations] /\ activating'[t].pc = "none"
        /\ \A u \in PATickets \ {t} : activating'[u] = activating[u]
    BY <1>2, <1>5 DEF Activations, NotActivating
  <2>3. reservations \in [Pods -> [key : 0 .. tickets, active : BOOLEAN]]
        /\ idempotency \in [PARequests -> 0 .. tickets] /\ tickets \in Nat
    BY <1>2, AccessAssumption DEF TablesAgree
  <2>4. reservations[pod].key = t => ~reservations[pod].active
    <3>1. reservations[pod].key # NoTicket /\ reservations[pod].active
            => reservations[pod].key \in active
      BY <1>2, <2>1 DEF TablesAgree
    <3> QED BY <2>1, <3>1 DEF NoTicket
  <2>5. reservations[pod] = [key |-> t, active |-> FALSE] <=> reservations[pod].key = t
    BY <2>1, <2>3, <2>4
  <2> HIDE DEF pod
  <2>6. /\ reservations' = IF reservations[pod].key = t
                            THEN [reservations EXCEPT ![pod] = Unreserved]
                            ELSE reservations
        /\ idempotency' = IF reservations[pod].key = t
                           THEN [idempotency EXCEPT ![asked[t]] = NoTicket]
                           ELSE idempotency
    BY <1>5, <2>1, <2>5 DEF ReleasePending
  <2>7. idempotency' \in [PARequests -> 0 .. tickets]
    BY <2>1, <2>3, <2>6 DEF NoTicket
  <2>8. \A q \in PARequests : idempotency'[q] # idempotency[q] =>
          reservations[pod].key = t /\ q = asked[t]
    BY <2>3, <2>6
  <2>9. pod = PodFor(asked, t) /\ activating[t].pc # "none"
    BY <1>1 DEF pod
  <2>10. /\ reservations[pod].key = t =>
              TablesAgree(pending, active, [reservations EXCEPT ![pod] = Unreserved],
                          idempotency', tickets, asked, activating')
         /\ reservations[pod].key # t =>
              TablesAgree(pending, active, reservations, idempotency', tickets, asked,
                          activating')
    BY <1>2, <2>2, <2>7, <2>8, <2>9, ReleaseAgrees, Z3
  <2> QED BY <1>1, <1>2, <2>2, <2>6, <2>10 DEF PAInv
<1> QED BY <1>3, <1>4, <1>5

LEMMA EnterKeepsTables == ASSUME PAInv, NEW t \in PATickets, ActivateEnters(t) PROVE PAInv'
<1> DEFINE late == activating[t].late
           P == Swept(late).pending
           A == Swept(late).active
           R == Swept(late).reservations
           I == Swept(late).idempotency
           pod == PodOf(t)
<1>1. TablesAgree(P, A, R, I, tickets, asked, activating)
  BY SweptTables
<1>2. lapsed' = lapsed /\ tickets' = tickets /\ asked' = asked
      /\ activating[t].pc = "checked"
      /\ activating' = [activating EXCEPT ![t] = NotActivating]
  BY DEF ActivateEnters
<1>3. /\ pending' = P /\ idempotency' = I
      /\ \/ /\ R[pod] # [key |-> t, active |-> FALSE]
            /\ active' = A /\ reservations' = R
         \/ /\ R[pod] = [key |-> t, active |-> FALSE]
            /\ active' = A /\ reservations' = [R EXCEPT ![pod] = Unreserved]
         \/ /\ R[pod] = [key |-> t, active |-> FALSE]
            /\ active' = A \cup {t}
            /\ reservations' = [R EXCEPT ![pod] = [key |-> t, active |-> TRUE]]
  BY DEF ActivateEnters, Becomes, Swept
<1>4. activating \in [PATickets -> Activations] /\ lapsed \subseteq PATickets
  BY DEF PAInv
<1>5. activating' \in [PATickets -> Activations] /\ activating'[t].pc = "none"
      /\ \A u \in PATickets \ {t} : activating'[u] = activating[u]
  BY <1>2, <1>4 DEF Activations, NotActivating
<1>6. /\ pod = PodFor(asked, t) /\ pod \in Pods /\ t \in 1 .. tickets
      /\ activating[t].pc # "none"
  BY <1>2, ActivationTypes DEF PodFor, PodOf
<1> HIDE DEF late, P, A, R, I, pod
<1>7. R \in [Pods -> [key : 0 .. tickets, active : BOOLEAN]]
      /\ I \in [PARequests -> 0 .. tickets] /\ t \notin A
  BY <1>1, <1>6 DEF TablesAgree
<1>8. R[pod].key = t => ~R[pod].active
  <2>1. R[pod].key # NoTicket /\ R[pod].active => R[pod].key \in A
    BY <1>1, <1>6 DEF TablesAgree
  <2> QED BY <1>6, <1>7, <2>1 DEF NoTicket
<1>9. R[pod] = [key |-> t, active |-> FALSE] <=> R[pod].key = t
  BY <1>6, <1>7, <1>8
<1>10. CASE /\ R[pod] # [key |-> t, active |-> FALSE]
            /\ active' = A /\ reservations' = R
  <2>1. \A q \in PARequests : I[q] # I[q] => R[pod].key = t /\ q = asked[t]
    OBVIOUS
  <2>2. TablesAgree(P, A, R, I, tickets, asked, activating')
    <3>1. R[pod].key # t
      BY <1>9, <1>10
    <3> QED BY <1>1, <1>5, <1>6, <3>1, LostAgrees
  <2> QED BY <1>2, <1>3, <1>4, <1>5, <1>10, <2>2 DEF PAInv
<1>11. CASE /\ R[pod] = [key |-> t, active |-> FALSE]
            /\ active' = A /\ reservations' = [R EXCEPT ![pod] = Unreserved]
  <2>1. \A q \in PARequests : I[q] # I[q] => R[pod].key = t /\ q = asked[t]
    OBVIOUS
  <2>2. TablesAgree(P, A, [R EXCEPT ![pod] = Unreserved], I, tickets, asked, activating')
    <3>1. R[pod].key = t
      BY <1>9, <1>11
    <3>2. I \in [PARequests -> 0 .. tickets]
      BY <1>7
    <3> QED BY <1>1, <1>5, <1>6, <2>1, <3>1, <3>2, ReleaseAgrees, Z3
  <2> QED BY <1>2, <1>3, <1>4, <1>5, <1>11, <2>2 DEF PAInv
<1>12. CASE /\ R[pod] = [key |-> t, active |-> FALSE]
            /\ active' = A \cup {t}
            /\ reservations' = [R EXCEPT ![pod] = [key |-> t, active |-> TRUE]]
  <2>1. TablesAgree(P, A \cup {t}, [R EXCEPT ![pod] = [key |-> t, active |-> TRUE]],
                    I, tickets, asked, activating')
    BY <1>1, <1>5, <1>6, <1>9, <1>12, EnterAgrees
  <2> QED BY <1>2, <1>3, <1>4, <1>5, <1>12, <2>1 DEF PAInv
<1> QED BY <1>3, <1>10, <1>11, <1>12

LEMMA EndKeepsTables ==
    ASSUME PAInv, NEW t \in PATickets, NEW reason, Deactivate(t, reason),
           UNCHANGED <<tickets, asked, lapsed, activating>>
    PROVE  PAInv'
<1> DEFINE pod == PodOf(t)
<1>1. TablesAgree(pending, active, reservations, idempotency, tickets, asked, activating)
  BY DEF PAInv
<1>2. /\ active' = active \ {t} /\ pending' = pending /\ idempotency' = idempotency
      /\ reservations' = IF t \in active /\ reservations[pod] = [key |-> t, active |-> TRUE]
                         THEN [reservations EXCEPT ![pod] = Unreserved]
                         ELSE reservations
  BY DEF Deactivate
<1>3. CASE t \in active
  <2>1. reservations[pod].key = t /\ reservations[pod].active
    BY <1>1, <1>3 DEF TablesAgree, PodFor, PodOf
  <2>2. pod \in Pods /\ reservations \in [Pods -> [key : 0 .. tickets, active : BOOLEAN]]
    BY <1>1, <1>3, TicketTypes DEF TablesAgree, PodFor, PodOf
  <2>3. reservations[pod] = [key |-> t, active |-> TRUE]
    BY <2>1, <2>2
  <2>4. reservations' = [reservations EXCEPT ![PodFor(asked, t)] = Unreserved]
    BY <1>2, <1>3, <2>3 DEF PodFor, PodOf
  <2>5. TablesAgree(pending, active \ {t},
                    [reservations EXCEPT ![PodFor(asked, t)] = Unreserved],
                    idempotency, tickets, asked, activating)
    BY <1>1, <1>3, DropAgrees
  <2> QED BY <1>2, <2>4, <2>5 DEF PAInv
<1>4. CASE t \notin active
  <2>1. active' = active /\ reservations' = reservations
    BY <1>2, <1>4
  <2> QED BY <1>1, <1>2, <2>1 DEF PAInv
<1> QED BY <1>3, <1>4

LEMMA PAInvStep == PAInv /\ [PANext]_paVars => PAInv'
<1> SUFFICES ASSUME PAInv, [PANext]_paVars PROVE PAInv'
  OBVIOUS
<1>1. CASE UNCHANGED <<tickets, asked, tables, lapsed, activating>>
  BY <1>1 DEF PAInv, tables
<1>2. CASE \E k \in PARequests : Create(k)
  BY <1>2, CreateKeepsTables
<1>3. ASSUME NEW t \in PATickets,
             \/ Lapses(t) \/ ActivateTakes(t) \/ ActivateChecks(t) \/ ActivateEnters(t)
             \/ MonitorEnds(t) \/ MonitorRevokes(t) \/ AccessEnds(t) \/ SessionExpires(t)
             \/ Dials(t) \/ Connects(t) \/ Disconnects(t)
      PROVE  PAInv'
  <2>1. CASE Lapses(t)
    BY <2>1 DEF Lapses, tables, PAInv
  <2>2. CASE ActivateTakes(t)
    BY <2>2, TakeKeepsTables
  <2>3. CASE ActivateChecks(t)
    BY <2>3, CheckKeepsTables
  <2>4. CASE ActivateEnters(t)
    BY <2>4, EnterKeepsTables
  <2>5. CASE MonitorEnds(t)
    BY <2>5, EndKeepsTables DEF MonitorEnds
  <2>6. CASE MonitorRevokes(t)
    BY <2>6, EndKeepsTables DEF MonitorRevokes
  <2>7. CASE AccessEnds(t)
    BY <2>7, EndKeepsTables DEF AccessEnds
  <2>8. CASE SessionExpires(t) \/ Dials(t) \/ Connects(t) \/ Disconnects(t)
    BY <1>1, <2>8 DEF SessionExpires, Dials, Connects, Disconnects
  <2> QED BY <1>3, <2>1, <2>2, <2>3, <2>4, <2>5, <2>6, <2>7, <2>8
<1>4. CASE \E u \in PAUsers : ChangesGrant(u)
  BY <1>1, <1>4 DEF ChangesGrant
<1>5. CASE UNCHANGED paVars
  BY <1>1, <1>5 DEF paVars
<1> QED BY <1>2, <1>3, <1>4, <1>5 DEF PANext

\* The tables agree in every state, whatever the limits, the Pods and the requests
\* are: an activation that has left the lock finds its reservation or finds that it
\* is gone.
LEMMA PAInvariant == PAInit /\ [][PANext]_paVars => []PAInv
BY PAInvInit, PAInvStep, PTL

\* What the run states of the tables.
LEMMA TablesGiveLatest == PAInv => OnlyLatestAccess
<1> SUFFICES ASSUME PAInv PROVE OnlyLatestAccess
  OBVIOUS
<1>1. TablesAgree(pending, active, reservations, idempotency, tickets, asked, activating)
  BY DEF PAInv
<1>2. \A t : PodFor(asked, t) = PodOf(t)
  BY DEF PodFor, PodOf
<1>3. \A t \in pending \cup active :
        PodOf(t) \in Pods /\ t \in 1 .. tickets
  BY <1>1, <1>2, TicketTypes DEF TablesAgree
<1>4. ASSUME NEW t \in pending \cup active
      PROVE  /\ reservations[PodOf(t)] = [key |-> t, active |-> t \in active]
             /\ \A u \in (t + 1) .. tickets : PodOf(u) = PodOf(t)
                  => u \notin pending \cup active /\ activating[u].pc = "none"
  <2>1. /\ reservations[PodOf(t)] \in [key : 0 .. tickets, active : BOOLEAN]
        /\ reservations[PodOf(t)].key = t
        /\ t \in pending => ~reservations[PodOf(t)].active
        /\ t \in active => reservations[PodOf(t)].active
    BY <1>1, <1>2, <1>3 DEF TablesAgree
  <2>2. reservations[PodOf(t)].active = (t \in active)
    <3>1. reservations[PodOf(t)].active \in BOOLEAN
      BY <2>1
    <3> HIDE DEF TablesAgree
    <3> QED BY <2>1, <3>1
  <2>3. reservations[PodOf(t)] = [key |-> t, active |-> t \in active]
    BY <2>1, <2>2
  <2>4. reservations[PodOf(t)].key # NoTicket
    BY <1>3, <2>1 DEF NoTicket
  <2>5. \A u \in (t + 1) .. tickets : PodOf(u) = PodOf(t)
          => u \notin pending \cup active /\ activating[u].pc = "none"
    BY <1>1, <1>2, <1>3, <2>1, <2>4 DEF TablesAgree
  <2> QED BY <2>3, <2>5
<1>5. \A t \in pending : idempotency[asked[t]] = t
  BY <1>1 DEF TablesAgree
<1>6. ASSUME NEW p \in Pods, reservations[p].key # NoTicket
      PROVE  /\ PodOf(reservations[p].key) = p
             /\ IF reservations[p].active THEN reservations[p].key \in active
                ELSE \/ reservations[p].key \in pending
                     \/ activating[reservations[p].key].pc # "none"
  BY <1>1, <1>2, <1>6 DEF TablesAgree
<1> QED BY <1>4, <1>5, <1>6 DEF OnlyLatestAccess

-----------------------------------------------------------------------------
(* PodAccess: the limits.                                                   *)

AccessLimits == Cardinality(pending) <= MaxPending /\ Cardinality(active) <= MaxActive

LEMMA AtMost ==
    ASSUME NEW S, NEW T, NEW n \in Nat, NEW m \in Nat, T \subseteq 1 .. n, S \subseteq T,
           Cardinality(T) <= m
    PROVE  Cardinality(S) <= m
<1>1. IsFiniteSet(1 .. n)
  BY FS_Interval
<1>2. IsFiniteSet(T)
  BY <1>1, FS_Subset
<1>3. Cardinality(S) <= Cardinality(T) /\ IsFiniteSet(S)
  BY <1>2, FS_Subset
<1>4. Cardinality(S) \in Nat /\ Cardinality(T) \in Nat
  BY <1>2, <1>3, FS_CardinalityType
<1> QED BY <1>3, <1>4

LEMMA OneMore ==
    ASSUME NEW T, NEW n \in Nat, NEW m \in Nat, T \subseteq 1 .. n, NEW t,
           Cardinality(T) < m
    PROVE  Cardinality(T \cup {t}) <= m
<1>1. IsFiniteSet(1 .. n)
  BY FS_Interval
<1>2. IsFiniteSet(T)
  BY <1>1, FS_Subset
<1>3. Cardinality(T) \in Nat
  BY <1>2, FS_CardinalityType
<1>4. Cardinality(T \cup {t}) = IF t \in T THEN Cardinality(T) ELSE Cardinality(T) + 1
  BY <1>2, FS_AddElement
<1> QED BY <1>3, <1>4

LEMMA LimitsInit == PAInit => AccessLimits
<1> USE AccessAssumption
<1>1. Cardinality({}) = 0
  BY FS_EmptySet
<1> QED BY <1>1 DEF PAInit, AccessLimits

\* The limits are tested where a ticket is drawn and where a session is entered.
LEMMA LimitsStep == AccessLimits /\ PAInv /\ [PANext]_paVars => AccessLimits'
<1> USE AccessAssumption
<1> SUFFICES ASSUME AccessLimits, PAInv, [PANext]_paVars PROVE AccessLimits'
  OBVIOUS
<1>1. tickets \in Nat /\ pending \subseteq 1 .. tickets /\ active \subseteq 1 .. tickets
  BY DEF PAInv, TablesAgree
<1>2. MaxPending \in Nat /\ MaxActive \in Nat
  OBVIOUS
<1>3. CASE pending' \subseteq pending /\ active' \subseteq active
  BY <1>1, <1>2, <1>3, AtMost DEF AccessLimits
<1>4. ASSUME NEW late PROVE Swept(late).pending \subseteq pending
                            /\ Swept(late).active \subseteq active
  BY DEF Swept
<1>5. ASSUME NEW k \in PARequests, Create(k) PROVE AccessLimits'
  <2> DEFINE P == Swept(lapsed).pending
             A == Swept(lapsed).active
             key == Swept(lapsed).reservations[RequestOf[k].pod].key
  <2>1. \/ pending' = P /\ active' = A
        \/ /\ Cardinality(P \ {key}) < MaxPending
           /\ pending' = (P \ {key}) \cup {tickets + 1} /\ active' = A \ {key}
    BY <1>5 DEF Create, Becomes
  <2>2. P \subseteq pending /\ A \subseteq active
    BY <1>4
  <2> HIDE DEF P, A, key
  <2>3. CASE pending' = P /\ active' = A
    BY <1>3, <2>2, <2>3
  <2>4. CASE /\ Cardinality(P \ {key}) < MaxPending
             /\ pending' = (P \ {key}) \cup {tickets + 1} /\ active' = A \ {key}
    <3>1. P \ {key} \subseteq 1 .. tickets /\ A \ {key} \subseteq active
      BY <1>1, <2>2
    <3>2. Cardinality((P \ {key}) \cup {tickets + 1}) <= MaxPending
      BY <1>1, <1>2, <2>4, <3>1, OneMore
    <3>3. Cardinality(A \ {key}) <= MaxActive
      BY <1>1, <1>2, <3>1, AtMost DEF AccessLimits
    <3> QED BY <2>4, <3>2, <3>3 DEF AccessLimits
  <2> QED BY <2>1, <2>3, <2>4
<1>6. ASSUME NEW t \in PATickets, ActivateEnters(t) PROVE AccessLimits'
  <2> DEFINE P == Swept(activating[t].late).pending
             A == Swept(activating[t].late).active
  <2>1. /\ pending' = P
        /\ \/ active' = A
           \/ ~(Cardinality(A) >= MaxActive) /\ active' = A \cup {t}
    BY <1>6 DEF ActivateEnters, Becomes, Swept
  <2>2. P \subseteq pending /\ A \subseteq active
    BY <1>4
  <2> HIDE DEF P, A
  <2>3. CASE active' = A
    BY <1>3, <2>1, <2>2, <2>3
  <2>4. CASE ~(Cardinality(A) >= MaxActive) /\ active' = A \cup {t}
    <3>1. A \subseteq 1 .. tickets
      BY <1>1, <2>2
    <3>2. Cardinality(A) \in Nat
      <4>1. IsFiniteSet(1 .. tickets)
        BY <1>1, FS_Interval
      <4>2. IsFiniteSet(A)
        BY <3>1, <4>1, FS_Subset
      <4> QED BY <4>2, FS_CardinalityType
    <3>3. Cardinality(A) < MaxActive
      BY <1>2, <2>4, <3>2
    <3>4. Cardinality(A \cup {t}) <= MaxActive
      BY <1>1, <1>2, <3>1, <3>3, OneMore
    <3>5. Cardinality(P) <= MaxPending
      BY <1>1, <1>2, <2>2, AtMost DEF AccessLimits
    <3> QED BY <2>1, <2>4, <3>4, <3>5 DEF AccessLimits
  <2> QED BY <2>1, <2>3, <2>4
<1>7. ASSUME NEW t \in PATickets, ActivateTakes(t) PROVE AccessLimits'
  <2>1. /\ pending' = Swept(lapsed).pending \ {t} /\ active' = Swept(lapsed).active
    BY <1>7 DEF ActivateTakes, Becomes, Swept
  <2> QED BY <1>3, <1>4, <2>1
<1>8. ASSUME NEW t \in PATickets,
             \/ Lapses(t) \/ ActivateChecks(t)
             \/ MonitorEnds(t) \/ MonitorRevokes(t) \/ AccessEnds(t) \/ SessionExpires(t)
             \/ Dials(t) \/ Connects(t) \/ Disconnects(t)
      PROVE  AccessLimits'
  <2>1. pending' = pending /\ (active' = active \/ active' = active \ {t})
    BY <1>8 DEF Lapses, ActivateChecks, MonitorEnds, MonitorRevokes, AccessEnds,
                SessionExpires, Dials, Connects, Disconnects, Deactivate, tables
  <2> QED BY <1>3, <2>1
<1>9. CASE (\E u \in PAUsers : ChangesGrant(u)) \/ UNCHANGED paVars
  BY <1>3, <1>9 DEF ChangesGrant, paVars, tables
<1> QED BY <1>5, <1>6, <1>7, <1>8, <1>9 DEF PANext

-----------------------------------------------------------------------------
(* PodAccess: what is remembered of the sessions that ended.                *)

Endings == [key : PATickets, reason : {"expired", "replaced", "revoked", "failed"}]

EndedKept == ended \in Seq(Endings) /\ Len(ended) <= MaxActive

\* A finite set has an enumeration.
LEMMA Enumerated ==
    ASSUME NEW S, IsFiniteSet(S)
    PROVE  SetToSeq(S) \in Seq(S)
<1>1. PICK n \in Nat : ExistsBijection(1 .. n, S)
  BY FS_NatBijection
<1>2. Cardinality(S) = n
  BY <1>1, FS_CountingElements
<1>3. PICK f : f \in Bijection(1 .. n, S)
  BY <1>1 DEF ExistsBijection
<1>4. f \in [1 .. Cardinality(S) -> S] /\ IsInjective(f)
  BY <1>2, <1>3 DEF Bijection, Injection, IsInjective
<1>5. SetToSeq(S) \in [1 .. Cardinality(S) -> S]
  BY <1>4 DEF SetToSeq
<1>6. Cardinality(S) \in Nat
  BY <1>2
<1> QED BY <1>5, <1>6, SeqDef

\* rememberEndedLocked: the last ones, and no more than there may be sessions.
LEMMA RemembersLast ==
    ASSUME NEW log \in Seq(Endings), NEW keys, keys \subseteq 1 .. tickets,
           tickets \in 0 .. MaxTickets,
           NEW why \in {"expired", "replaced", "revoked", "failed"}
    PROVE  Remember(log, keys, why) \in Seq(Endings) /\ Len(Remember(log, keys, why)) <= MaxActive
<1> DEFINE new == {[key |-> t, reason |-> why] : t \in keys}
           entry == [t \in keys |-> [key |-> t, reason |-> why]]
           all == log \o SetToSeq(new)
           from == IF Len(all) > MaxActive THEN Len(all) - MaxActive + 1 ELSE 1
<1>1. new \subseteq Endings
  <2>1. keys \subseteq PATickets
    <3>1. MaxTickets \in Nat
      BY AccessAssumption
    <3>2. 1 .. tickets \subseteq 1 .. MaxTickets
      BY <3>1
    <3> QED BY <3>2 DEF PATickets
  <2>2. \A t \in PATickets : [key |-> t, reason |-> why] \in Endings
    BY DEF Endings
  <2> QED BY <2>1, <2>2
<1>2. IsFiniteSet(keys)
  <2>1. IsFiniteSet(1 .. tickets)
    BY FS_Interval, AccessAssumption
  <2> QED BY <2>1, FS_Subset
<1>3. IsFiniteSet(new)
  <2>1. entry \in Surjection(keys, new)
    BY Z3 DEF Surjection
  <2> HIDE DEF new, entry
  <2> QED BY <1>2, <2>1, FS_Surjection
<1> HIDE DEF new
<1>4. SetToSeq(new) \in Seq(Endings)
  <2>1. SetToSeq(new) \in Seq(new)
    BY <1>3, Enumerated
  <2> QED BY <1>1, <2>1, SeqDef
<1>5. all \in Seq(Endings) /\ Len(all) \in Nat /\ \A i \in 1 .. Len(all) : all[i] \in Endings
  <2>1. all \in Seq(Endings)
    BY <1>4, ConcatProperties
  <2> HIDE DEF all
  <2> QED BY <2>1
<1>6. MaxActive \in Nat
  BY AccessAssumption
<1>7. Remember(log, keys, why) = SubSeq(all, from, Len(all))
  BY DEF Remember, new
<1> HIDE DEF all
<1>8. /\ SubSeq(all, from, Len(all)) \in Seq(Endings)
      /\ Len(SubSeq(all, from, Len(all))) = IF from <= Len(all) THEN Len(all) - from + 1 ELSE 0
  <2>1. from \in Int /\ Len(all) \in Int /\ \A i \in from .. Len(all) : all[i] \in Endings
    BY <1>5, <1>6
  <2> HIDE DEF from
  <2> QED BY <2>1, SubSeqProperties
<1> QED BY <1>5, <1>6, <1>7, <1>8

LEMMA EndedStep ==
    PAInv /\ EndedKept /\ [PANext]_paVars => EndedKept'
<1> SUFFICES ASSUME PAInv, EndedKept, [PANext]_paVars PROVE EndedKept'
  OBVIOUS
<1>1. /\ tickets \in 0 .. MaxTickets /\ active \subseteq 1 .. tickets
      /\ ended \in Seq(Endings)
  BY DEF PAInv, TablesAgree, EndedKept
<1>2. \A late : Swept(late).ended \in Seq(Endings) /\ Len(Swept(late).ended) <= MaxActive
  BY <1>1, RemembersLast DEF Swept
<1>3. \A late : Swept(late).active \subseteq 1 .. tickets
  BY <1>1 DEF Swept
<1>4. ASSUME NEW k \in PARequests, Create(k) PROVE EndedKept'
  <2> DEFINE s == Swept(lapsed)
             gone == s.active \cap {s.reservations[RequestOf[k].pod].key}
  <2>1. ended' = s.ended \/ ended' = Remember(s.ended, gone, "replaced")
    BY <1>4 DEF Create, Becomes
  <2>2. gone \subseteq 1 .. tickets /\ s.ended \in Seq(Endings) /\ Len(s.ended) <= MaxActive
    BY <1>2, <1>3
  <2> HIDE DEF gone, s
  <2>3. /\ Remember(s.ended, gone, "replaced") \in Seq(Endings)
        /\ Len(Remember(s.ended, gone, "replaced")) <= MaxActive
    BY <1>1, <2>2, RemembersLast
  <2> QED BY <2>1, <2>2, <2>3 DEF EndedKept
<1>5. ASSUME NEW t \in PATickets, ActivateTakes(t) \/ ActivateEnters(t) PROVE EndedKept'
  <2>1. \E late : ended' = Swept(late).ended
    <3>1. CASE ActivateTakes(t)
      BY <3>1 DEF ActivateTakes, Becomes, Swept
    <3>2. CASE ActivateEnters(t)
      BY <3>2 DEF ActivateEnters, Becomes, Swept
    <3> QED BY <1>5, <3>1, <3>2
  <2> QED BY <1>2, <2>1 DEF EndedKept
<1>6. ASSUME NEW t \in PATickets, NEW why \in {"expired", "replaced", "revoked", "failed"},
             Deactivate(t, why)
      PROVE  EndedKept'
  <2>1. active \cap {t} \subseteq 1 .. tickets
    BY <1>1
  <2>2. ended' = Remember(ended, active \cap {t}, why)
    BY <1>6 DEF Deactivate
  <2> QED BY <1>1, <2>1, <2>2, RemembersLast DEF EndedKept
<1>7. ASSUME NEW t \in PATickets, MonitorEnds(t) \/ MonitorRevokes(t) \/ AccessEnds(t)
      PROVE  EndedKept'
  BY <1>6, <1>7 DEF MonitorEnds, MonitorRevokes, AccessEnds
<1>8. CASE UNCHANGED ended
  BY <1>8 DEF EndedKept
<1>9. ASSUME NEW t \in PATickets,
             Lapses(t) \/ ActivateChecks(t) \/ SessionExpires(t) \/ Dials(t)
             \/ Connects(t) \/ Disconnects(t)
      PROVE  EndedKept'
  BY <1>8, <1>9 DEF Lapses, ActivateChecks, SessionExpires, Dials, Connects, Disconnects, tables
<1>10. CASE (\E u \in PAUsers : ChangesGrant(u)) \/ UNCHANGED paVars
  BY <1>8, <1>10 DEF ChangesGrant, paVars, tables
<1> QED BY <1>4, <1>5, <1>7, <1>9, <1>10 DEF PANext

\* Of a session there is a connection, or one that is waited for, or none.
Upstreams == upstream \in [PATickets -> {"none", "waiting", "open"}]

LEMMA UpstreamStep == Upstreams /\ [PANext]_paVars => Upstreams'
<1> SUFFICES ASSUME Upstreams, [PANext]_paVars PROVE Upstreams'
  OBVIOUS
<1>1. ASSUME NEW t \in PATickets, Dials(t) \/ Connects(t) \/ Disconnects(t)
      PROVE  Upstreams'
  BY <1>1 DEF Dials, Connects, Disconnects, Upstreams
<1>2. CASE UNCHANGED upstream
  BY <1>2 DEF Upstreams
<1>3. ASSUME NEW t \in PATickets,
             \/ Lapses(t) \/ ActivateTakes(t) \/ ActivateChecks(t) \/ ActivateEnters(t)
             \/ MonitorEnds(t) \/ MonitorRevokes(t) \/ AccessEnds(t) \/ SessionExpires(t)
      PROVE  Upstreams'
  BY <1>2, <1>3 DEF Lapses, ActivateTakes, ActivateChecks, ActivateEnters, MonitorEnds,
                    MonitorRevokes, AccessEnds, SessionExpires
<1>4. CASE \/ \E k \in PARequests : Create(k)
           \/ \E u \in PAUsers : ChangesGrant(u)
           \/ UNCHANGED paVars
  BY <1>2, <1>4 DEF Create, ChangesGrant, paVars
<1> QED BY <1>1, <1>3, <1>4 DEF PANext

-----------------------------------------------------------------------------
(* PodAccess: the theorems.                                                 *)

LEMMA AccessTypes ==
    PAInv /\ AccessLimits /\ EndedKept /\ Upstreams => PATypeOK
BY DEF PAInv, TablesAgree, AccessLimits, EndedKept, Upstreams, PATypeOK

\* No fairness is needed for what is safe.
LEMMA AccessSafe ==
    PAInit /\ [][PANext]_paVars => [](PATypeOK /\ OnlyLatestAccess /\ AccessLimits)
<1>1. PAInit => EndedKept /\ Upstreams
  <2>1. <<>> \in Seq(Endings) /\ Len(<<>>) = 0
    OBVIOUS
  <2> QED BY <2>1, AccessAssumption DEF PAInit, EndedKept, Upstreams
<1> QED
  BY <1>1, PAInvariant, LimitsInit, LimitsStep, EndedStep, UpstreamStep, AccessTypes,
     TablesGiveLatest, PTL

\* The lemma above, as the run states it: a Pod has one way in at most, the last one
\* created for it, with which a retry of its creation is answered.
THEOREM LatestAccessOnly == PASpec => []OnlyLatestAccess
BY AccessSafe, PTL DEF PASpec

\* There are never more tickets pending or sessions active than the limits allow,
\* although an activation has no ticket pending and no session active between its
\* two critical sections: the limit is tested where the session is entered.
THEOREM AccessIsLimited == PASpec => []AccessLimits
BY AccessSafe, PTL DEF PASpec

\* The tickets, the tables, the connections to Pods and what rememberEndedLocked keeps of
\* the sessions that ended stay in their ranges.
THEOREM AccessTypeCorrect == PASpec => []PATypeOK
BY AccessSafe, PTL DEF PASpec

-----------------------------------------------------------------------------
(* TerminalSession: who does what.                                          *)

TerminalObjects == {"account", "pod"} \cup RBAC

TerminalDuty == [does : {"create", "delete", "undo", "clean"}, next : Nat \ {0},
                 listed : BOOLEAN, canceled : BOOLEAN]

\* The janitor only cleans, and only requests create, delete and undo.
WorkersDoTheirs ==
    \A w \in Workers :
        worker[w] # AtRest =>
            /\ worker[w] \in TerminalDuty
            /\ worker[w].does = "clean" <=> w = Janitor

TerminalInv ==
    /\ objects \subseteq TerminalObjects
    /\ worker \in [Workers -> TerminalDuty \cup {AtRest}]
    /\ WorkersDoTheirs
    /\ wanted \in {"no", "asked", "ready", "over"}

\* Who is at rest has no duty.
LEMMA RestDoesNothing ==
    /\ AtRest.does = "nothing"
    /\ \A duty \in TerminalDuty : duty # AtRest
BY DEF AtRest, TerminalDuty

\* The calls are about the objects of a session, and what begins is a duty.
LEMMA TerminalCalls ==
    /\ \A i \in 1 .. Len(Creating) : Creating[i] \in TerminalObjects \cup {"list"}
    /\ \A what \in {"create", "delete", "undo", "clean"} : Begun(what) \in TerminalDuty
BY DEF Creating, TerminalObjects, RBAC, Begun, TerminalDuty

\* Every step keeps the workers to what is theirs.
LEMMA TerminalStep == TerminalInv /\ [TSNext]_tsVars => TerminalInv'
<1> SUFFICES ASSUME TerminalInv, [TSNext]_tsVars PROVE TerminalInv'
  OBVIOUS
<1> USE DEF TerminalInv
<1>1. ASSUME NEW h \in TerminalRequests, AsksForCreation(h) PROVE TerminalInv'
  BY <1>1, TerminalCalls, JanitorServesNobody DEF AsksForCreation, WorkersDoTheirs, Workers, Begun
<1>2. ASSUME NEW h \in TerminalRequests, GivesUp(h) PROVE TerminalInv'
  <2>1. \A w \in Workers :
          \/ worker'[w] = worker[w]
          \/ w = h /\ worker'[w] = Begun("delete")
          \/ /\ worker[w].does = "create" 
             /\ worker'[w] = [worker[w] EXCEPT !.canceled = TRUE]
    BY <1>2 DEF GivesUp
  <2>2. \A w \in Workers : worker[w].does = "create" => worker[w] \in TerminalDuty /\ w # Janitor
    BY RestDoesNothing DEF WorkersDoTheirs
  <2>3. \A duty \in TerminalDuty : 
          /\ [duty EXCEPT !.canceled = TRUE] \in TerminalDuty
          /\ [duty EXCEPT !.canceled = TRUE].does = duty.does
    BY DEF TerminalDuty
  <2>4. worker' \in [Workers -> TerminalDuty \cup {AtRest}]
    BY <1>2, <2>1, <2>2, <2>3, TerminalCalls DEF GivesUp
  <2>5. WorkersDoTheirs'
    <3> SUFFICES ASSUME NEW w \in Workers, worker'[w] # AtRest
                 PROVE  worker'[w] \in TerminalDuty /\ (worker'[w].does = "clean" <=> w = Janitor)
      BY Zenon DEF WorkersDoTheirs
    <3>1. CASE worker'[w] = worker[w]
      BY <3>1 DEF WorkersDoTheirs
    <3>2. CASE w = h /\ worker'[w] = Begun("delete")
      BY <3>2, TerminalCalls, JanitorServesNobody DEF Begun
    <3>3. CASE worker[w].does = "create" /\ worker'[w] = [worker[w] EXCEPT !.canceled = TRUE]
      BY <3>3, <2>2, <2>3
    <3> QED BY <2>1, <3>1, <3>2, <3>3
  <2> QED BY <1>2, <2>4, <2>5 DEF GivesUp
<1>3. ASSUME NEW h \in TerminalRequests, AsksForDeletion(h) PROVE TerminalInv'
  BY <1>3, TerminalCalls, JanitorServesNobody DEF AsksForDeletion, WorkersDoTheirs, Workers, Begun
<1>4. ASSUME NEW w \in Workers, CreatesObject(w) PROVE TerminalInv'
  BY <1>4, TerminalCalls, RestDoesNothing DEF CreatesObject, WorkersDoTheirs, TerminalDuty
<1>5. ASSUME NEW w \in Workers, CreationSucceeds(w) PROVE TerminalInv'
  BY <1>5 DEF CreationSucceeds, WorkersDoTheirs
<1>6. ASSUME NEW w \in Workers, CreationFails(w) PROVE TerminalInv'
  BY <1>6, TerminalCalls, RestDoesNothing DEF CreationFails, WorkersDoTheirs, Begun
<1>7. ASSUME NEW w \in Workers, DeletesObject(w) PROVE TerminalInv'
  <2>1. worker[w] \in TerminalDuty
    BY <1>7, RestDoesNothing DEF DeletesObject
  <2>2. /\ worker' \in [Workers -> TerminalDuty \cup {AtRest}]
        /\ worker'[w] \in TerminalDuty /\ worker'[w].does = worker[w].does
        /\ \A v \in Workers \ {w} : worker'[v] = worker[v]
    BY <1>7, <2>1 DEF DeletesObject, TerminalDuty
  <2>3. WorkersDoTheirs'
    BY <2>1, <2>2, RestDoesNothing DEF WorkersDoTheirs
  <2> QED BY <1>7, <2>2, <2>3 DEF DeletesObject
<1>8. ASSUME NEW w \in Workers, DeletionEnds(w) PROVE TerminalInv'
  BY <1>8 DEF DeletionEnds, WorkersDoTheirs
<1>9. ASSUME NEW w \in Workers, PreparationFails(w) PROVE TerminalInv'
  BY <1>9 DEF PreparationFails, WorkersDoTheirs
<1>10. ASSUME JanitorFinds PROVE TerminalInv'
  BY <1>10, TerminalCalls DEF JanitorFinds, WorkersDoTheirs, Workers, Begun
<1>11. ASSUME SessionLapses PROVE TerminalInv'
  BY <1>11 DEF SessionLapses, WorkersDoTheirs
<1>12. ASSUME AgentDies PROVE TerminalInv'
  BY <1>12 DEF AgentDies, WorkersDoTheirs
<1>13. ASSUME UNCHANGED tsVars PROVE TerminalInv'
  BY <1>13 DEF tsVars, WorkersDoTheirs
<1> QED
  BY <1>1, <1>2, <1>3, <1>4, <1>5, <1>6, <1>7, <1>8, <1>9, <1>10, <1>11, <1>12, <1>13
     DEF TSNext, WorkerStep

LEMMA TerminalSafe == TSInit /\ [][TSNext]_tsVars => []TSTypeOK
<1>1. TSInit => TerminalInv
  BY DEF TSInit, TerminalInv, WorkersDoTheirs
<1>2. TerminalInv => TSTypeOK
  BY RestDoesNothing DEF TerminalInv, TSTypeOK, WorkersDoTheirs, TerminalObjects, TerminalDuty
<1> QED
  BY <1>1, <1>2, TerminalStep, PTL

\* createKubernetesTerminalSession, deleteKubernetesTerminalSession and
\* runTerminalSessionJanitor: only requests create, delete and undo, the janitor only
\* cleans, and what exists, and what the Server takes the session for, stays in its range,
\* for any number of requests, failed calls and crashes.
THEOREM TerminalTypeCorrect == TSSpec => []TSTypeOK
BY TerminalSafe, PTL DEF TSSpec
=============================================================================
