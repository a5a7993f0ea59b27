--------------------------- MODULE PodPortForward ---------------------------
(***************************************************************************)
(* One port forward (pkg/shared/agentprotocol/portforward.go): the Server  *)
(* relays a client's connection (podaccess) over a Stream to the Agent,    *)
(* which relays it to a Pod.  Each side has two goroutines, one for each   *)
(* direction: the input goroutine and the main loop of DoPodPortForward,   *)
(* the two pumps of servePodPortForward.                                   *)
(*                                                                         *)
(* Bytes go in chunks, one to a frame.  What the Stream holds in one       *)
(* direction before a write blocks is its flow control window, and for     *)
(* down also the two frames that the reader goroutine of the Server takes  *)
(* ahead of the main loop.  Reading does not wait for the deadline alone:  *)
(* a client or a Pod that stops reading or writing does so for good or not.*)
(***************************************************************************)
EXTENDS Naturals, Sequences

CONSTANTS
    Window,                       \* frames a direction of the Stream holds
    ClientLimit, PodLimit,        \* MaxClientBytes, MaxPodBytes, in chunks
    MaxClientChunks, MaxPodChunks \* bounds: chunks the client and the Pod send

ASSUME PortForwardAssumption ==
    /\ Window \in Nat \ {0}
    /\ {ClientLimit, PodLimit, MaxClientChunks, MaxPodChunks} \subseteq Nat

VARIABLES
    \* the Server
    relay,       \* the main loop; "giving" is in peer.Write with a chunk
    input,       \* the input goroutine; "eof" and "error" are what it ended with
    result,      \* the Exit frame it has received
    client,      \* the client's end of the pipe
    \* the Agent
    handling,    \* the Stream handler
    pump,        \* its pumps: "busy" is in a call that carries a chunk
    first,       \* the error of the pump that ended first
    tunnel,      \* to the Pod: "ended" by the Pod, "closed" by the Agent
    \* the Stream
    response,    \* the PodPortForwardResponse
    up, down,    \* frames to the Agent and to the Server
    timedOut,    \* its deadline has passed, which both sides have set alike
    linkLost,    \* the connection of the Agent is lost
    count        \* chunks: sent by the client, passed on to the Pod and counted for
                 \* it; read of the Pod, counted for it and given to the client

pfServerVars == <<relay, input, result, client>>
pfAgentVars == <<handling, pump, first, tunnel>>
pfStreamVars == <<response, up, down, timedOut, linkLost>>
pfVars == <<pfServerVars, pfAgentVars, pfStreamVars, count>>

Broken == timedOut \/ linkLost

Data == [kind |-> "data"]
NoExit == [kind |-> "none"]
Exits == [kind: {"exit"}, outcome: {"ok", "limit", "failed"},
          client: 0..ClientLimit, pod: 0..PodLimit]

PFInit ==
    /\ relay = "opening" /\ input = "idle" /\ result = NoExit
    /\ client = "open"
    /\ handling = "opening"
    /\ pump = [receive |-> "reading", send |-> "reading"]
    /\ first = "none" /\ tunnel = "none"
    /\ response = "none" /\ up = <<>> /\ down = <<>>
    /\ timedOut = FALSE /\ linkLost = FALSE
    /\ count = [sent |-> 0, passed |-> 0, client |-> 0,
                read |-> 0, pod |-> 0, given |-> 0]

Counting(what) == count' = [count EXCEPT ![what] = @ + 1]

-----------------------------------------------------------------------------
(* DoPodPortForward.                                                        *)

\* It returns: stream.Close ends the direction to the Agent and leaves the other as
\* it is.  A frame that the input goroutine is writing is cut off.
Leaves ==
    /\ relay' = "left"
    /\ up' = Append(up, IF input \in {"writing", "closing", "failing"}
                        THEN "cut" ELSE "fin")

\* The response of the Agent; the context is not looked at while waiting for it.
ReadAnswer ==
    /\ relay = "opening"
    /\ \/ /\ response = "ok" /\ ~Broken
          /\ relay' = "relaying" /\ input' = "reading"
          /\ UNCHANGED up
       \/ /\ response = "refused" \/ Broken
          /\ Leaves
          /\ UNCHANGED input
    /\ UNCHANGED <<result, client, pfAgentVars, response, down, timedOut, linkLost,
                   count>>

\* A frame, which may have been taken ahead before the Stream broke.
Takes ==
    /\ relay = "relaying" /\ down # <<>>
    /\ down' = Tail(down)
    /\ \/ /\ Head(down).kind = "data"
          /\ relay' = "giving"
          /\ UNCHANGED <<result, up>>
       \/ /\ Head(down).kind = "exit"
          /\ result' = Head(down)
          /\ Leaves
    /\ UNCHANGED <<input, client, pfAgentVars, response, timedOut, linkLost, count>>

\* peer.Write returns: the client has read the chunk, or cannot any more.
ClientReads ==
    /\ relay = "giving" /\ client = "open"
    /\ relay' = "relaying"
    /\ Counting("given")
    /\ UNCHANGED <<input, result, client, pfAgentVars, pfStreamVars>>

GiveFails ==
    /\ relay = "giving" /\ (client = "closed" \/ timedOut)
    /\ Leaves
    /\ UNCHANGED <<input, result, client, pfAgentVars, response, down, timedOut,
                   linkLost, count>>

\* Its context is cancelled.
ContextEnds ==
    /\ relay = "relaying"
    /\ Leaves
    /\ UNCHANGED <<input, result, client, pfAgentVars, response, down, timedOut,
                   linkLost, count>>

\* The other reasons to return: a broken Stream, an error of the input goroutine, the
\* end of the direction from the Agent.
RelayStops ==
    /\ relay = "relaying"
    /\ Broken \/ input = "error" \/ (handling = "done" /\ down = <<>>)
    /\ Leaves
    /\ UNCHANGED <<input, result, client, pfAgentVars, response, down, timedOut,
                   linkLost, count>>

InputTo(state) ==
    /\ input' = state
    /\ UNCHANGED <<relay, result, client, pfAgentVars, response, down, timedOut,
                   linkLost>>

\* A chunk of the client, unless it is one too many.
InputReads ==
    /\ input = "reading" /\ client = "open" /\ relay # "left"
    /\ count.sent < MaxClientChunks
    /\ InputTo(IF count.sent + 1 > ClientLimit THEN "error" ELSE "writing")
    /\ Counting("sent")
    /\ UNCHANGED up

\* peer.Read fails: the client has closed, or the deadline has passed, or Run has
\* closed the pipe after DoPodPortForward returned.  CloseInput goes first.
InputEnds ==
    /\ input = "reading"
    /\ \/ client = "closed" /\ InputTo("closing")
       \/ (timedOut \/ relay = "left") /\ InputTo("failing")
    /\ UNCHANGED <<up, count>>

\* WriteMessage to the Agent returns, when there is room or with an error.
UpClosed == handling \in {"ending", "done"} \/ relay = "left" \/ Broken

WritesUp(frame) ==
    \/ UpClosed /\ UNCHANGED up
    \/ ~UpClosed /\ Len(up) < Window /\ up' = Append(up, frame)

InputWrites ==
    /\ input = "writing"
    /\ WritesUp("data")
    /\ InputTo(IF UpClosed THEN "error" ELSE "reading")
    /\ UNCHANGED count

InputCloses ==
    /\ input \in {"closing", "failing"}
    /\ WritesUp("close")
    /\ InputTo(IF input = "closing" THEN "eof" ELSE "error")
    /\ UNCHANGED count

-----------------------------------------------------------------------------
(* PodPortForwardStreamHandler.                                             *)

\* The Pod is there and the tunnel stands.
Opens ==
    /\ handling = "opening" /\ ~Broken
    /\ handling' = "relaying" /\ tunnel' = "open" /\ response' = "ok"
    /\ UNCHANGED <<pfServerVars, pump, first, up, down, timedOut, linkLost, count>>

\* It is not, or the handler's context has ended.
Refuses ==
    /\ handling = "opening"
    /\ handling' = "done" /\ response' = "refused"
    /\ UNCHANGED <<pfServerVars, pump, first, tunnel, up, down, timedOut, linkLost,
                   count>>

Ended == {"eof", "cancelled", "limit", "failed"}

\* What a pump goes on with after a chunk: it looks at its context.
Onward == IF handling = "ending" \/ Broken THEN "cancelled" ELSE "reading"

PumpTo(p, state) ==
    /\ pump' = [pump EXCEPT ![p] = state]
    /\ UNCHANGED <<pfServerVars, handling, first, tunnel, response, timedOut,
                   linkLost>>

\* receivePortForwardFrames reads a frame; CancelRead ends its reading at once.
ReceiveReads ==
    /\ handling \in {"relaying", "ending"} /\ pump["receive"] = "reading"
    /\ \/ /\ handling = "ending" \/ Broken
          /\ PumpTo("receive", "failed")
          /\ UNCHANGED up
       \/ /\ handling = "relaying" /\ ~Broken /\ up # <<>>
          /\ up' = Tail(up)
          /\ PumpTo("receive",
                    CASE Head(up) = "data" ->
                           IF count.client + 1 > ClientLimit THEN "limit" ELSE "busy"
                      [] Head(up) \in {"close", "fin"} -> "eof"
                      [] Head(up) = "cut" -> "failed")
    /\ UNCHANGED <<down, count>>

\* destination.Write returns when the Pod has taken the chunk.
PodReads ==
    /\ pump["receive"] = "busy" /\ tunnel = "open"
    /\ count' = [count EXCEPT !.passed = @ + 1, !.client = @ + 1]
    /\ PumpTo("receive", Onward)
    /\ UNCHANGED <<up, down>>

\* Or with an error, of which it may have taken a part.
PodReadsNoMore ==
    /\ pump["receive"] = "busy" /\ tunnel # "open"
    /\ \/ UNCHANGED count
       \/ Counting("passed")
    /\ PumpTo("receive", "failed")
    /\ UNCHANGED <<up, down>>

\* sendPortForwardFrames reads a chunk of the Pod.
PodWrites ==
    /\ handling \in {"relaying", "ending"} /\ pump["send"] = "reading"
    /\ tunnel = "open" /\ count.read < MaxPodChunks
    /\ Counting("read")
    /\ PumpTo("send", IF count.pod + 1 > PodLimit THEN "limit" ELSE "busy")
    /\ UNCHANGED <<up, down>>

\* Or it finds the tunnel ended by the Pod or closed by servePodPortForward.
PodWritesNoMore ==
    /\ pump["send"] = "reading" /\ tunnel \in {"ended", "closed"}
    /\ PumpTo("send", IF tunnel = "ended" THEN "eof" ELSE "failed")
    /\ UNCHANGED <<up, down, count>>

\* WriteMessage to the Server returns: CancelRead does not touch this direction.
SendWrites ==
    /\ pump["send"] = "busy"
    /\ \/ /\ ~Broken /\ Len(down) < Window
          /\ down' = Append(down, Data)
          /\ Counting("pod")
          /\ PumpTo("send", Onward)
       \/ /\ Broken
          /\ PumpTo("send", "failed")
          /\ UNCHANGED <<down, count>>
    /\ UNCHANGED up

\* Faulty: leaves the connection to the Pod open until both pumps have ended.
FirstEndsOpen ==
    /\ handling = "relaying"
    /\ \E p \in {"receive", "send"} :
         /\ pump[p] \in Ended
         /\ first' = pump[p]
    /\ handling' = "ending"
    /\ UNCHANGED <<pfServerVars, pump, tunnel, pfStreamVars, count>>

\* servePodPortForward has the error of one pump.
FirstEnds ==
    /\ handling = "relaying"
    /\ \E p \in {"receive", "send"} :
         /\ pump[p] \in Ended
         /\ first' = pump[p]
    /\ handling' = "ending" /\ tunnel' = "closed"
    /\ UNCHANGED <<pfServerVars, pump, pfStreamVars, count>>

\* meaningfulPodPortForwardError: a limit, or else what ended first.
MeaningfulError ==
    IF \E p \in {"receive", "send"} : pump[p] = "limit" THEN "limit" ELSE first

ExitFrame ==
    [kind |-> "exit",
     outcome |-> IF MeaningfulError \in {"limit", "failed"} THEN MeaningfulError
                 ELSE "ok",
     client |-> count.client, pod |-> count.pod]

\* Faulty: does not wait for the other pump.
PumpsGoneEarly == \E p \in {"receive", "send"} : pump[p] \in Ended

PumpsGone == \A p \in {"receive", "send"} : pump[p] \in Ended

\* The terminal frame has to wait for room too.  Then the handler returns, the Stream
\* is closed and the slot is free.
WritesExit ==
    /\ handling = "ending" /\ PumpsGone
    /\ \/ ~Broken /\ Len(down) < Window /\ down' = Append(down, ExitFrame)
       \/ Broken /\ UNCHANGED down
    /\ handling' = "done"
    /\ UNCHANGED <<pfServerVars, pump, first, tunnel, response, up, timedOut,
                   linkLost, count>>

-----------------------------------------------------------------------------
(* What happens around them.                                                *)

ClientCloses ==
    /\ client = "open" /\ client' = "closed"
    /\ UNCHANGED <<relay, input, result, pfAgentVars, pfStreamVars, count>>

PodEnds ==
    /\ tunnel = "open" /\ tunnel' = "ended"
    /\ UNCHANGED <<pfServerVars, handling, pump, first, pfStreamVars, count>>

LinkBreaks ==
    /\ ~linkLost /\ linkLost' = TRUE
    /\ UNCHANGED <<pfServerVars, pfAgentVars, response, up, down, timedOut, count>>

DeadlinePasses ==
    /\ ~timedOut /\ timedOut' = TRUE
    /\ UNCHANGED <<pfServerVars, pfAgentVars, response, up, down, linkLost, count>>

RelaySteps == ReadAnswer \/ Takes \/ GiveFails \/ RelayStops

InputSteps == InputEnds \/ InputWrites \/ InputCloses

AgentSteps == Opens \/ Refuses \/ FirstEnds \/ WritesExit

ReceiveSteps == ReceiveReads \/ PodReadsNoMore

SendSteps == PodWritesNoMore \/ SendWrites

PFNext ==
    \/ RelaySteps \/ InputSteps \/ AgentSteps \/ ReceiveSteps \/ SendSteps
    \/ ClientReads \/ InputReads \/ PodReads \/ PodWrites
    \/ ClientCloses \/ ContextEnds \/ PodEnds \/ LinkBreaks \/ DeadlinePasses

\* Each goroutine goes on when it can, and the deadline comes.  Client and Pod need
\* not read, write or close.
PFFairness ==
    /\ WF_pfVars(RelaySteps) /\ WF_pfVars(InputSteps) /\ WF_pfVars(AgentSteps)
    /\ WF_pfVars(ReceiveSteps) /\ WF_pfVars(SendSteps)
    /\ WF_pfVars(DeadlinePasses)

PFSpec == PFInit /\ [][PFNext]_pfVars /\ PFFairness

-----------------------------------------------------------------------------
(* Properties.                                                              *)

\* Every variable stays in its range, no direction holds more than the window and
\* the end, and no counter more than its limit.
PFTypeOK ==
    /\ relay \in {"opening", "relaying", "giving", "left"}
    /\ input \in {"idle", "reading", "writing", "closing", "failing", "eof", "error"}
    /\ result \in {NoExit} \cup Exits
    /\ client \in {"open", "closed"}
    /\ handling \in {"opening", "relaying", "ending", "done"}
    /\ pump \in [{"receive", "send"} -> {"reading", "busy"} \cup Ended]
    /\ first \in {"none"} \cup Ended
    /\ tunnel \in {"none", "open", "ended", "closed"}
    /\ response \in {"none", "ok", "refused"}
    /\ up \in Seq({"data", "close", "fin", "cut"}) /\ Len(up) <= Window + 1
    /\ down \in Seq({Data} \cup Exits) /\ Len(down) <= Window
    /\ timedOut \in BOOLEAN /\ linkLost \in BOOLEAN
    /\ count \in [{"sent", "passed", "client", "read", "pod", "given"} -> Nat]
    /\ count.client <= ClientLimit /\ count.pod <= PodLimit

\* The Exit frame ends the direction to the Server: no frame of a pump that was still
\* writing follows it.  And it accounts for the transfer: the client has been given
\* just what it says, and the Pod too but for a write it was cut off in.
ExitEndsTransfer ==
    /\ \A i \in 1..Len(down) : down[i].kind = "exit" => i = Len(down)
    /\ result # NoExit =>
         /\ down = <<>> /\ count.given = result.pod
         /\ count.passed - result.client \in {0, 1}

\* By its deadline a forward has left both sides, and its slots with it -- with a Pod
\* that goes on reading.
ForwardEnds ==
    <>[](handling = "done" /\ relay = "left" /\ input \in {"idle", "eof", "error"})

\* docs/architecture/agent-protocol-phase-2.md: the handlers of a connection that
\* broke end (and runConnection, which waits for them, dials again).
LostConnectionEndsForward == linkLost ~> handling = "done"
=============================================================================
