----------------------------- MODULE TickStream -----------------------------
(***************************************************************************)
(* The market-data stream: ReconnectingWebSocketClient of                  *)
(* app/brokers/ws_client.py, and the part of app/brokers/base.py that      *)
(* creates, starts and stops it for an adapter.  A stream is one such      *)
(* client; its task is cut at the awaits of connecting, of receiving and   *)
(* of the backoff.  The server at the other end is external.               *)
(***************************************************************************)
EXTENDS Adapters, FiniteSets

CONSTANTS
    Frames,          \* frames the server may send: records of a kind and tokens
    Streams,         \* bound: clients created
    NoStream,
    InitialBackoff,  \* initial_backoff_seconds
    MaxBackoff       \* max_backoff_seconds

ASSUME TickStreamAssumption ==
    /\ NoStream \notin Streams
    /\ {InitialBackoff, MaxBackoff} \subseteq Nat \ {0}
    /\ InitialBackoff <= MaxBackoff

VARIABLES
    vendor,        \* which adapter this is
    current,       \* _ws_client
    stream,        \* the task of each client: "new", "connecting", "open",
                   \* "backoff" or "done"
    backoff,       \* the local of each task
    ended,         \* clients whose _stop_event is set
    cancelled,     \* tasks whose cancel() has been called
    starting,      \* a start_websocket is resolving its instruments
    stopping,      \* the client each stop_websocket is waiting for, or NoStream
    strays         \* history: clients that no stop_websocket reaches any more

streamVars ==
    <<vendor, current, stream, backoff, ended, cancelled, starting, stopping, strays>>

\* Who stops the stream: a user of the adapter, or its close.
Callers == {"user", "close"}

Running(s) == stream[s] \notin {"new", "done"}
Moves(s, from, to) == stream[s] = from /\ s \notin cancelled /\ stream' = [stream EXCEPT ![s] = to]
OnlyMoves == UNCHANGED <<vendor, current, ended, cancelled, starting, stopping, strays>>

\* Mutant of Again: the loop ends when a connection has ended.
AgainNever(s) == "done"

\* A pass of the loop begins, or the loop ends.
Again(s) == IF s \in ended THEN "done" ELSE "connecting"

\* url_factory, headers_factory, connect; the backoff starts over.
Opens(s) ==
    /\ Moves(s, "connecting", "open")
    /\ backoff' = [backoff EXCEPT ![s] = InitialBackoff]
    /\ OnlyMoves

\* Any failure of these, of subscribing or of receiving.
Breaks(s) ==
    /\ Moves(s, "connecting", "backoff") \/ Moves(s, "open", "backoff")
    /\ UNCHANGED backoff
    /\ OnlyMoves

\* A frame arrives: on_message decodes it and passes the quotes on.  A frame
\* the adapter cannot decode breaks the connection, and so does on_tick when it
\* raises.
FrameArrives(s, frame) ==
    /\ stream[s] = "open" /\ s \notin cancelled
    /\ \E on_tick_raises \in BOOLEAN :
         LET read == ReadFrame(vendor, frame)
         IN  stream' = IF read.raises \/ (on_tick_raises /\ read.quotes # {})
                       THEN [stream EXCEPT ![s] = "backoff"] ELSE stream
    /\ UNCHANGED backoff
    /\ OnlyMoves

\* The server closes the connection in good order: no exception, no backoff.
ClosedByServer(s) ==
    /\ Moves(s, "open", Again(s))
    /\ UNCHANGED backoff
    /\ OnlyMoves

\* _sleep_or_stop is over; the next wait is twice as long, up to the maximum.
BackoffIsOver(s) ==
    /\ Moves(s, "backoff", Again(s))
    /\ backoff' = [backoff EXCEPT ![s] = IF 2 * @ > MaxBackoff THEN MaxBackoff ELSE 2 * @]
    /\ OnlyMoves

\* A cancelled task ends at the await it was found at.
CancelArrives(s) ==
    /\ Running(s) /\ s \in cancelled
    /\ stream' = [stream EXCEPT ![s] = "done"]
    /\ cancelled' = cancelled \ {s}
    /\ UNCHANGED <<vendor, current, backoff, ended, starting, stopping, strays>>

\* start_websocket up to the await of the instrument tokens.
StartRequested ==
    /\ ~starting
    /\ starting' = TRUE
    /\ UNCHANGED <<vendor, current, stream, backoff, ended, cancelled, stopping, strays>>

\* A token cannot be had: start_websocket raises.
StartFails ==
    /\ starting
    /\ starting' = FALSE
    /\ UNCHANGED <<vendor, current, stream, backoff, ended, cancelled, stopping, strays>>

\* _start_ws: a new client takes the place of the old one, which is not
\* stopped.
StartWs ==
    /\ starting
    /\ starting' = FALSE
    /\ \E s \in Streams :
         /\ stream[s] = "new"
         /\ current' = s
         /\ stream' = [stream EXCEPT ![s] = "connecting"]
    /\ UNCHANGED <<vendor, backoff, ended, cancelled, stopping>>

\* Mutant of Stops: the task is told to stop but not cancelled.
StopsUncancelled(s) == UNCHANGED cancelled

Stops(s) == cancelled' = cancelled \cup {s}

\* stop_websocket and the client's stop up to the await of its task; without a
\* client or a task there is nothing to await.
StopWebsocket(caller) ==
    /\ stopping[caller] = NoStream
    /\ IF current # NoStream /\ Running(current)
       THEN Stops(current) /\ stopping' = [stopping EXCEPT ![caller] = current]
       ELSE UNCHANGED <<cancelled, stopping>>
    /\ ended' = ended \cup ({current} \ {NoStream})
    /\ UNCHANGED <<vendor, current, stream, backoff, starting, strays>>

\* The task it waits for, if there is one, has ended.
StopIsOver(caller) == stopping[caller] \notin {s \in Streams : Running(s)}

StopWebsocketReturns(caller) ==
    /\ StopIsOver(caller)
    /\ stopping' = [stopping EXCEPT ![caller] = NoStream]
    /\ UNCHANGED <<vendor, current, stream, backoff, ended, cancelled, starting, strays>>

StreamInit ==
    /\ vendor \in Vendors
    /\ current = NoStream /\ stopping = [caller \in Callers |-> NoStream]
    /\ stream = [s \in Streams |-> "new"]
    /\ backoff = [s \in Streams |-> InitialBackoff]
    /\ ended = {} /\ cancelled = {} /\ strays = {}
    /\ starting = FALSE

\* What the loop does by itself; when a connection opens or breaks is up to
\* the server.
LoopGoesOn(s) == BackoffIsOver(s) \/ CancelArrives(s)

ServerActs(s) ==
    Opens(s) \/ Breaks(s) \/ ClosedByServer(s) \/ \E frame \in Frames : FrameArrives(s, frame)

\* The backoff has a timeout, and a cancellation is delivered.
StreamFairness == \A s \in Streams : WF_streamVars(LoopGoesOn(s))

-----------------------------------------------------------------------------
(***************************************************************************)
(* Properties.                                                             *)
(***************************************************************************)
\* A stream that has lost its connection tries again, unless it is stopped.
LostStreamsReconnect ==
    \A s \in Streams : stream[s] = "backoff" ~> stream[s] = "connecting" \/ s \in ended

=============================================================================
