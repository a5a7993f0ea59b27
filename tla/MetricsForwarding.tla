-------------------------- MODULE MetricsForwarding --------------------------
(***************************************************************************)
(* The metrics of a Cluster on their way: requests of the collector share  *)
(* one ingest session of the Agent (agent/metrics_ingest.go), a Stream     *)
(* that carries a batch at a time (agentprotocol/metrics.go), of which the *)
(* Server serves one per Connection (agentprotocol/stream.go).             *)
(***************************************************************************)
EXTENDS Integers, FiniteSets

CONSTANTS
    Forwards,           \* the requests that forward may be working on at once
    IngestStreams,      \* the Streams, used again when nobody knows them any more
    NoStream, NoForward,
    MaxForwardFaults    \* bound: requests cancelled or too large, lost connections
                        \* and batches that end the Server's handler

ASSUME ForwardAssumption ==
    /\ NoStream \notin IngestStreams /\ NoForward \notin Forwards
    /\ MaxForwardFaults \in Nat

VARIABLES
    \* metricsIngestForwarder
    attached,           \* connection is set
    ingestSession,      \* session
    opener,             \* who holds mutex while OpenMetricsIngest runs
    aborting,           \* the session detach took out and has to abort
    \* the requests
    forward,
    gone,               \* those whose context has been cancelled
    \* the Connection and its Streams
    linkUp,
    ingestStream,
    forwardFaults

forwarderVars == <<attached, ingestSession, opener, aborting>>
forwardVars == <<forward, gone>>
mfVars == <<forwarderVars, forwardVars, linkUp, ingestStream, forwardFaults>>

\* agent: "closed" is session.closed, or aborted before there was a session;
\* server: "serving" holds the slot of the Connection, "over" has returned it;
\* sender: who holds session.mutex; batch: where the exchange is;
\* broken: neither side can use it, for its deadline has passed or the cancellation
\* of a request has aborted it.
NewStream ==
    [agent |-> "opening", server |-> "none", sender |-> NoForward, batch |-> "none",
     lost |-> ~linkUp, broken |-> FALSE, carried |-> FALSE, unsent |-> FALSE]

UnusedStream ==
    [NewStream EXCEPT !.agent = "closed", !.server = "over", !.lost = FALSE]

\* A Stream that both sides are done with is as good as unused.
Change(s, st) ==
    ingestStream' = [ingestStream EXCEPT ![s] =
      IF st.agent = "closed" /\ st.server = "over" THEN UnusedStream ELSE st]

IdleForward == [phase |-> "idle", stream |-> NoStream, retried |-> FALSE, large |-> FALSE]

Answered == {"idle", "acknowledged", "refused"}

MFInit ==
    /\ attached = TRUE /\ ingestSession = NoStream /\ opener = NoForward
    /\ aborting = NoStream
    /\ forward = [r \in Forwards |-> IdleForward]
    /\ gone = {}
    /\ linkUp = TRUE
    /\ ingestStream = [s \in IngestStreams |-> UnusedStream]
    /\ forwardFaults = 0

ForwardFault(n) ==
    /\ forwardFaults + n <= MaxForwardFaults
    /\ forwardFaults' = forwardFaults + n

To(r, phase) == forward' = [forward EXCEPT ![r].phase = phase]

\* attempt has failed: forward tries once more unless the caller is gone.
AttemptFails(r) ==
    forward' = [forward EXCEPT ![r] =
                  IF @.retried \/ r \in gone
                  THEN [@ EXCEPT !.phase = "refused", !.stream = NoStream]
                  ELSE [@ EXCEPT !.phase = "acquire", !.stream = NoStream,
                                 !.retried = TRUE]]

-----------------------------------------------------------------------------
(* The requests.                                                            *)

\* ServeHTTP has read the payload, which may be larger than the Server takes.
Arrive(r) ==
    /\ forward[r].phase \in Answered
    /\ \E large \in BOOLEAN :
         /\ forward' = [forward EXCEPT ![r] = [IdleForward EXCEPT !.phase = "acquire",
                                                           !.large = large]]
         /\ ForwardFault(IF large THEN 1 ELSE 0)
    /\ gone' = gone \ {r}
    /\ UNCHANGED <<forwarderVars, linkUp, ingestStream>>

CollectorGivesUp(r) ==
    /\ forward[r].phase \notin Answered /\ r \notin gone
    /\ gone' = gone \cup {r}
    /\ ForwardFault(1)
    /\ UNCHANGED <<forwarderVars, forward, linkUp, ingestStream>>

Forgotten(s) ==
    /\ ingestStream[s].server = "over"
    /\ s \notin {ingestSession, aborting}
    /\ \A r \in Forwards : forward[r].stream # s

\* acquire, which keeps mutex while it opens a session.
Acquire(r) ==
    /\ forward[r].phase = "acquire" /\ opener = NoForward
    /\ \/ /\ ingestSession # NoStream
          /\ forward' = [forward EXCEPT ![r].phase = "send",
                                        ![r].stream = ingestSession]
          /\ UNCHANGED <<opener, ingestStream>>
       \/ /\ ingestSession = NoStream /\ ~attached
          /\ AttemptFails(r)
          /\ UNCHANGED <<opener, ingestStream>>
       \/ /\ ingestSession = NoStream /\ attached
          /\ \E s \in IngestStreams :
               /\ Forgotten(s)
               /\ \A t \in IngestStreams : Forgotten(t) => s <= t
               /\ forward' = [forward EXCEPT ![r].phase = "open", ![r].stream = s]
               /\ ingestStream' = [ingestStream EXCEPT ![s] = NewStream]
          /\ opener' = r
    /\ UNCHANGED <<attached, ingestSession, aborting, gone, linkUp, forwardFaults>>

\* The cancellation of a request is only called off when its exchange is over, and
\* may still abort the Stream.
Late(r) == IF r \in gone THEN BOOLEAN ELSE {FALSE}

\* OpenMetricsIngest reads Ready.
SessionOpens(r) ==
    LET s == forward[r].stream IN
    /\ forward[r].phase = "open"
    /\ ingestStream[s].server = "serving" /\ ~ingestStream[s].lost
    /\ \E late \in Late(r) :
         Change(s, [ingestStream[s] EXCEPT !.agent = "open", !.broken = @ \/ late])
    /\ ingestSession' = s
    /\ opener' = NoForward
    /\ To(r, "send")
    /\ UNCHANGED <<attached, aborting, gone, linkUp, forwardFaults>>

\* It was refused, the Connection is lost, or the caller is gone.
OpeningFails(r) ==
    LET s == forward[r].stream IN
    /\ forward[r].phase = "open"
    /\ ingestStream[s].server = "over" \/ ingestStream[s].lost \/ r \in gone
    /\ Change(s, [ingestStream[s] EXCEPT !.agent = "closed"])
    /\ opener' = NoForward
    /\ AttemptFails(r)
    /\ UNCHANGED <<attached, ingestSession, aborting, gone, linkUp, forwardFaults>>

\* Send, up to its first write: a batch too large is refused before the mutex of
\* the session, a caller that is gone under it, and neither closes the session.
SendRefuses(r) ==
    LET s == forward[r].stream
        st == ingestStream[s] IN
    /\ forward[r].phase = "send"
    /\ \/ forward[r].large
       \/ st.sender = NoForward /\ (st.agent = "closed" \/ r \in gone)
    /\ Change(s, [st EXCEPT !.unsent = @ \/ st.agent = "open"])
    /\ To(r, "discard")
    /\ UNCHANGED <<forwarderVars, gone, linkUp, forwardFaults>>

Send(r) ==
    LET s == forward[r].stream IN
    /\ forward[r].phase = "send" /\ ~forward[r].large /\ r \notin gone
    /\ ingestStream[s].sender = NoForward /\ ingestStream[s].agent = "open"
    /\ Change(s, [ingestStream[s] EXCEPT !.sender = r, !.batch = "sent"])
    /\ To(r, "exchange")
    /\ UNCHANGED <<forwarderVars, gone, linkUp, forwardFaults>>

ExchangeSucceeds(r) ==
    LET s == forward[r].stream IN
    /\ forward[r].phase = "exchange" /\ ingestStream[s].batch = "acknowledged"
    /\ \E late \in Late(r) :
         Change(s, [ingestStream[s] EXCEPT !.sender = NoForward, !.batch = "none",
                                           !.carried = TRUE, !.broken = @ \/ late])
    /\ forward' = [forward EXCEPT ![r].phase = "acknowledged", ![r].stream = NoStream]
    /\ UNCHANGED <<forwarderVars, gone, linkUp, forwardFaults>>

\* The session is closed and its Stream aborted: the two sides no longer agree on
\* where the next batch begins.
ExchangeFails(r) ==
    LET s == forward[r].stream
        st == ingestStream[s] IN
    /\ forward[r].phase = "exchange"
    /\ st.server = "over" \/ st.lost \/ st.broken \/ r \in gone
    /\ Change(s, [st EXCEPT !.sender = NoForward, !.batch = "none",
                            !.agent = "closed"])
    /\ To(r, "discard")
    /\ UNCHANGED <<forwarderVars, gone, linkUp, forwardFaults>>

\* Faulty: clears the session whoever's it is.
DiscardAny(r) ==
    /\ forward[r].phase = "discard" /\ opener = NoForward
    /\ ingestSession' = NoStream
    /\ AttemptFails(r)
    /\ UNCHANGED <<attached, opener, aborting, gone, linkUp, ingestStream,
                   forwardFaults>>

\* discard, which leaves the session of others alone; it closes nothing.
Discard(r) ==
    /\ forward[r].phase = "discard" /\ opener = NoForward
    /\ ingestSession' = IF ingestSession = forward[r].stream THEN NoStream
                        ELSE ingestSession
    /\ AttemptFails(r)
    /\ UNCHANGED <<attached, opener, aborting, gone, linkUp, ingestStream,
                   forwardFaults>>

-----------------------------------------------------------------------------
(* The Connection.                                                          *)

LinkFails ==
    /\ linkUp
    /\ IF attached THEN ForwardFault(1) ELSE UNCHANGED forwardFaults
    /\ linkUp' = FALSE
    /\ ingestStream' = [s \in IngestStreams |->
         IF ingestStream[s] = UnusedStream THEN UnusedStream
         ELSE [ingestStream[s] EXCEPT !.lost = TRUE]]
    /\ UNCHANGED <<forwarderVars, forwardVars>>

\* The connection loop leaves, because the Connection is lost or for reasons of
\* its own.
Detach ==
    /\ attached /\ opener = NoForward
    /\ IF linkUp THEN ForwardFault(1) ELSE UNCHANGED forwardFaults
    /\ attached' = FALSE
    /\ ingestSession' = NoStream
    /\ aborting' = ingestSession
    /\ UNCHANGED <<opener, forwardVars, linkUp, ingestStream>>

\* session.Abort, which waits for the batch that is being sent.
AbortDetached ==
    /\ aborting # NoStream /\ ingestStream[aborting].sender = NoForward
    /\ Change(aborting, [ingestStream[aborting] EXCEPT !.agent = "closed"])
    /\ aborting' = NoStream
    /\ UNCHANGED <<attached, ingestSession, opener, forwardVars, linkUp, forwardFaults>>

\* The next Connection; only one is run at a time.
Attach ==
    /\ ~attached /\ ~linkUp /\ aborting = NoStream
    /\ linkUp' = TRUE
    /\ attached' = TRUE
    /\ ingestSession' = NoStream
    /\ UNCHANGED <<opener, aborting, forwardVars, ingestStream, forwardFaults>>

-----------------------------------------------------------------------------
(* The Server and the Stream's deadline.                                    *)

\* serveStream reads the header and takes the only slot, or refuses.
ServerTakes(s) ==
    /\ ingestStream[s].server = "none"
    /\ Change(s, [ingestStream[s] EXCEPT !.server =
         IF \/ ingestStream[s].lost
            \/ \E t \in IngestStreams :
                 ingestStream[t].server = "serving" /\ ~ingestStream[t].lost
         THEN "over" ELSE "serving"])
    /\ UNCHANGED <<forwarderVars, forwardVars, linkUp, forwardFaults>>

ServerAcknowledges(s) ==
    /\ ingestStream[s].server = "serving" /\ ingestStream[s].batch = "sent"
    /\ ~ingestStream[s].lost
    /\ Change(s, [ingestStream[s] EXCEPT !.batch = "acknowledged"])
    /\ UNCHANGED <<forwarderVars, forwardVars, linkUp, forwardFaults>>

\* The handler ends on a batch: its acknowledgment is not one that
\* validateMetricsIngestAck lets out, or cannot be written.
ServerFails(s) ==
    /\ ingestStream[s].server = "serving" /\ ingestStream[s].batch = "sent"
    /\ ForwardFault(1)
    /\ Change(s, [ingestStream[s] EXCEPT !.server = "over"])
    /\ UNCHANGED <<forwarderVars, forwardVars, linkUp>>

\* The deadline both sides have given the Stream.  It is minutes away: a session
\* carries a batch before, unless nobody has it any more.
StreamExpires(s) ==
    /\ ingestStream[s].agent # "closed" /\ ~ingestStream[s].broken
    /\ ingestStream[s].server = "serving"
    /\ \/ ingestStream[s].carried
       \/ /\ s # ingestSession
          /\ \A r \in Forwards : forward[r].stream = s => forward[r].phase = "discard"
    /\ Change(s, [ingestStream[s] EXCEPT !.broken = TRUE])
    /\ UNCHANGED <<forwarderVars, forwardVars, linkUp, forwardFaults>>

\* Faulty: the handler waits for the Agent without a deadline.
ServerEndsOnAbort(s) ==
    /\ ingestStream[s].server = "serving"
    /\ ingestStream[s].agent = "closed" \/ ingestStream[s].lost
    /\ Change(s, [ingestStream[s] EXCEPT !.server = "over"])
    /\ UNCHANGED <<forwarderVars, forwardVars, linkUp, forwardFaults>>

\* The handler notices that the Stream is aborted, expired or lost.
ServerEnds(s) ==
    /\ ingestStream[s].server = "serving"
    /\ \/ ingestStream[s].agent = "closed" \/ ingestStream[s].lost
       \/ ingestStream[s].broken
    /\ Change(s, [ingestStream[s] EXCEPT !.server = "over"])
    /\ UNCHANGED <<forwarderVars, forwardVars, linkUp, forwardFaults>>

-----------------------------------------------------------------------------
Works(r) ==
    \/ Acquire(r) \/ SessionOpens(r) \/ OpeningFails(r) \/ SendRefuses(r) \/ Send(r)
    \/ ExchangeSucceeds(r) \/ ExchangeFails(r) \/ Discard(r)

Serves(s) == ServerTakes(s) \/ ServerAcknowledges(s) \/ ServerEnds(s) \/ StreamExpires(s)

Reconnects == Detach \/ AbortDetached \/ LinkFails \/ Attach

MFNext ==
    \/ \E r \in Forwards : Arrive(r) \/ CollectorGivesUp(r) \/ Works(r)
    \/ \E s \in IngestStreams : Serves(s) \/ ServerFails(s)
    \/ Reconnects

\* The collector goes on sending; Agent and Server go on working.  The connection
\* loop gets the mutex although requests take it again and again: a sync.Mutex is
\* handed to whoever has waited for a millisecond.
MFFairness ==
    /\ \A r \in Forwards : WF_mfVars(Arrive(r)) /\ WF_mfVars(Works(r))
    /\ \A s \in IngestStreams : WF_mfVars(Serves(s))
    /\ SF_mfVars(~(attached /\ linkUp) /\ Reconnects)

MFSpec == MFInit /\ [][MFNext]_mfVars /\ MFFairness

-----------------------------------------------------------------------------

\* Every variable stays in its range, and whoever opens a session is opening one.
MFTypeOK ==
    /\ attached \in BOOLEAN /\ linkUp \in BOOLEAN
    /\ {ingestSession, aborting} \subseteq IngestStreams \cup {NoStream}
    /\ opener \in Forwards \cup {NoForward}
    /\ \A r \in Forwards :
         /\ forward[r].phase \in Answered \cup
              {"acquire", "open", "send", "exchange", "discard"}
         /\ forward[r].stream \in IngestStreams \cup {NoStream}
         /\ forward[r].phase = "open" <=> opener = r
    /\ gone \subseteq Forwards
    /\ \A s \in IngestStreams :
         /\ ingestStream[s].agent \in {"opening", "open", "closed"}
         /\ ingestStream[s].server \in {"none", "serving", "over"}
         /\ ingestStream[s].sender \in Forwards \cup {NoForward}
         /\ ingestStream[s].batch \in {"none", "sent", "acknowledged"}
    /\ forwardFaults \in 0..MaxForwardFaults

\* Requests that share a session and fail, retry and replace it in any order leave
\* no usable session behind on a Connection, where it would keep the one slot the
\* Server has; except the session a caller dropped without having written to it,
\* which discard does not close.
OnlyUnsentAreOrphaned ==
    \A s \in IngestStreams :
      /\ attached /\ ingestStream[s].agent = "open"
      /\ ingestStream[s].server = "serving"
      /\ ~ingestStream[s].lost /\ ~ingestStream[s].broken
      => s = ingestSession \/ ingestStream[s].unsent

\* Metrics go on being acknowledged: also a session that was dropped open gives its
\* slot back, and a connection or a batch that fails is overcome.
ForwardingRecovers == []<>(\E r \in Forwards : forward[r].phase = "acknowledged")
=============================================================================
