------------------------- MODULE ApplicationProofs -------------------------
(***************************************************************************)
(* Proofs about Application, for any number of tick streams, any frames    *)
(* and any settings.                                                       *)
(***************************************************************************)
EXTENDS Application, TLAPS

AppTyped ==
    /\ current \in Streams \cup {NoStream}
    /\ stream \in [Streams -> {"new", "connecting", "open", "backoff", "done"}]
    /\ stopping \in [Callers -> Streams \cup {NoStream}]
    /\ running \subseteq built /\ built \subseteq Loops

\* The loops that shutdown has passed are stopped.
LoopsStopped ==
    /\ phase = "stopping_options" => "auto" \notin running
    /\ phase \in {"closing", "closing_clients", "stopped"} => running = {}

\* Only the current stream and strays run; once close has looked for the current
\* one, it waits for it, and whatever comes after is a stray.
StreamsKnown ==
    \A s \in Streams : Running(s) =>
      \/ s \in strays
      \/ s = current /\ phase \notin {"closing_clients", "stopped"}
      \/ s = stopping["close"] /\ phase = "closing_clients"

\* The inductive invariant.
AInv == AppTyped /\ LoopsStopped /\ StreamsKnown

-----------------------------------------------------------------------------
LEMMA InitAInv == Init => AInv
BY DEF Init, StreamInit, AInv, AppTyped, LoopsStopped, StreamsKnown, Running

\* What the lifespan does to the trading loops.
LEMMA LoopStepKeepsAInv ==
  ASSUME AInv,
         \/ StartUp \/ StartUpFails \/ BecomesReady \/ ShutsDown \/ StopsAuto \/ StopsOptions
         \/ \E loop \in Loops : StartLoop(loop) \/ StopLoop(loop)
  PROVE  AInv'
<1>1. UNCHANGED <<current, stream, stopping, strays>>
  BY DEF StartUp, StartUpFails, BecomesReady, ShutsDown, StopsAuto, StopsOptions,
         StartLoop, StopLoop, streamVars
<1>2. /\ phase \notin {"closing_clients", "stopped"}
      /\ phase' \notin {"closing_clients", "stopped"}
  BY DEF StartUp, StartUpFails, BecomesReady, ShutsDown, StopsAuto, StopsOptions,
         StartLoop, StopLoop
<1>3. StreamsKnown'
  BY <1>1, <1>2 DEF AInv, StreamsKnown, Running
<1>4. running' \subseteq built' /\ built' \subseteq Loops /\ LoopsStopped'
  <2> USE DEF AInv, AppTyped, LoopsStopped, Loops
  <2>1. CASE StartUp
    BY <2>1 DEF StartUp
  <2>2. CASE StartUpFails
    BY <2>2 DEF StartUpFails
  <2>3. CASE BecomesReady
    BY <2>3 DEF BecomesReady
  <2>4. CASE ShutsDown
    BY <2>4 DEF ShutsDown
  <2>5. CASE StopsAuto
    BY <2>5 DEF StopsAuto
  <2>6. CASE StopsOptions
    BY <2>6 DEF StopsOptions
  <2>7. CASE \E loop \in Loops : StartLoop(loop) \/ StopLoop(loop)
    BY <2>7 DEF StartLoop, StopLoop
  <2> QED  BY <2>1, <2>2, <2>3, <2>4, <2>5, <2>6, <2>7
<1> QED  BY <1>1, <1>3, <1>4 DEF AInv, AppTyped

\* close begins to wait for the stream that is current.
LEMMA ClosesKeepsAInv ==
  ASSUME AInv, Closes
  PROVE  AInv'
<1>1. /\ UNCHANGED <<current, stream, strays, running, built>>
      /\ phase = "closing" /\ phase' = "closing_clients"
  BY DEF Closes, StopWebsocket
<1>2. stopping' = IF current # NoStream /\ Running(current)
                  THEN [stopping EXCEPT !["close"] = current] ELSE stopping
  BY DEF Closes, StopWebsocket
<1>3. AppTyped'
  BY <1>1, <1>2 DEF AInv, AppTyped, Callers
<1>4. LoopsStopped'
  BY <1>1 DEF AInv, LoopsStopped
<1>5. StreamsKnown'
  <2> SUFFICES ASSUME NEW s \in Streams, Running(s)', s \notin strays
               PROVE  s = stopping'["close"]
    BY <1>1 DEF StreamsKnown
  <2>1. Running(s) /\ s = current
    BY <1>1 DEF AInv, StreamsKnown, Running
  <2>2. current # NoStream
    BY <2>1, TickStreamAssumption
  <2> QED  BY <1>2, <2>1, <2>2 DEF AInv, AppTyped, Callers
<1> QED  BY <1>3, <1>4, <1>5 DEF AInv

\* close has waited for it.
LEMMA ClosedKeepsAInv ==
  ASSUME AInv, Closed
  PROVE  AInv'
<1>1. /\ UNCHANGED <<current, stream, strays, running, built>>
      /\ phase = "closing_clients" /\ phase' = "stopped"
      /\ stopping' = [stopping EXCEPT !["close"] = NoStream]
      /\ ~\E s \in Streams : Running(s) /\ s = stopping["close"]
  BY DEF Closed, AwaitsStream, StopIsOver
<1>2. AppTyped'
  BY <1>1 DEF AInv, AppTyped
<1>3. LoopsStopped'
  BY <1>1 DEF AInv, LoopsStopped
<1>4. StreamsKnown'
  BY <1>1 DEF AInv, StreamsKnown, Running
<1> QED  BY <1>2, <1>3, <1>4 DEF AInv

\* A new stream makes the one it replaces a stray, or is one itself.
LEMMA StreamStartsKeepsAInv ==
  ASSUME AInv, StreamStarts
  PROVE  AInv'
<1>1. PICK s \in Streams :
        stream[s] = "new" /\ current' = s /\ stream' = [stream EXCEPT ![s] = "connecting"]
  BY DEF StreamStarts, StartWs
<1>2. UNCHANGED <<stopping, phase, running, built>>
  BY DEF StreamStarts, StartWs, lifespanVars
<1>3. /\ strays \subseteq strays'
      /\ \A q \in Streams : q = current /\ Running(q) => q \in strays'
      /\ phase \in {"closing_clients", "stopped"} => s \in strays'
  BY <1>1 DEF StreamStarts
<1>4. AppTyped'
  BY <1>1, <1>2 DEF AInv, AppTyped
<1>5. LoopsStopped'
  BY <1>2 DEF AInv, LoopsStopped
<1>6. StreamsKnown'
  <2> SUFFICES ASSUME NEW q \in Streams, Running(q)', q \notin strays'
               PROVE  \/ q = current' /\ phase \notin {"closing_clients", "stopped"}
                      \/ q = stopping["close"] /\ phase = "closing_clients"
    BY <1>2 DEF StreamsKnown
  <2>1. CASE q = s
    BY <1>1, <1>3, <2>1
  <2>2. CASE q # s
    <3>1. Running(q)
      BY <1>1, <2>2 DEF AInv, AppTyped, Running
    <3> QED  BY <1>3, <3>1 DEF AInv, StreamsKnown
  <2> QED  BY <2>1, <2>2
<1> QED  BY <1>4, <1>5, <1>6 DEF AInv

\* A stream by itself never begins to run.
LEMMA StreamMovesKeepsAInv ==
  ASSUME AInv, NEW s \in Streams, ServerActs(s) \/ LoopGoesOn(s), UNCHANGED lifespanVars
  PROVE  AInv'
<1>1. /\ Running(s) /\ stream' \in [Streams -> {"new", "connecting", "open", "backoff", "done"}]
      /\ \A q \in Streams : q # s => stream'[q] = stream[q]
      /\ UNCHANGED <<current, stopping, strays>>
  <2> USE DEF Running, Moves, OnlyMoves, AInv, AppTyped
  <2>1. CASE Opens(s)
    BY <2>1 DEF Opens
  <2>2. CASE Breaks(s)
    BY <2>2 DEF Breaks
  <2>3. CASE ClosedByServer(s)
    BY <2>3 DEF ClosedByServer, Again
  <2>4. CASE \E frame \in Frames : FrameArrives(s, frame)
    <3>1. stream[s] = "open" /\ (stream' = stream \/ stream' = [stream EXCEPT ![s] = "backoff"])
      BY <2>4, Zenon DEF FrameArrives
    <3>2. UNCHANGED <<current, stopping, strays>>
      BY <2>4 DEF FrameArrives
    <3> QED  BY <3>1, <3>2
  <2>5. CASE BackoffIsOver(s)
    BY <2>5 DEF BackoffIsOver, Again
  <2>6. CASE CancelArrives(s)
    BY <2>6 DEF CancelArrives
  <2> QED  BY <2>1, <2>2, <2>3, <2>4, <2>5, <2>6 DEF ServerActs, LoopGoesOn
<1>2. \A q \in Streams : Running(q)' => Running(q)
  BY <1>1 DEF Running
<1>3. UNCHANGED <<phase, running, built>>
  BY DEF lifespanVars
<1>4. AppTyped' /\ LoopsStopped'
  BY <1>1, <1>3 DEF AInv, AppTyped, LoopsStopped
<1>5. StreamsKnown'
  BY <1>1, <1>2, <1>3 DEF AInv, StreamsKnown
<1> QED  BY <1>4, <1>5 DEF AInv

\* A user's requests do not touch what close waits for.
LEMMA UserKeepsAInv ==
  ASSUME AInv, UNCHANGED lifespanVars,
         \/ StartRequested \/ StartFails
         \/ StopWebsocket("user") \/ StopWebsocketReturns("user")
  PROVE  AInv'
<1>1. UNCHANGED <<current, stream, strays, phase, running, built>>
  BY DEF StartRequested, StartFails, StopWebsocket, StopWebsocketReturns, lifespanVars
<1>2. /\ stopping' \in [Callers -> Streams \cup {NoStream}]
      /\ stopping'["close"] = stopping["close"]
  BY DEF StartRequested, StartFails, StopWebsocket, StopWebsocketReturns,
         AInv, AppTyped, Callers
<1>3. AppTyped' /\ LoopsStopped'
  BY <1>1, <1>2 DEF AInv, AppTyped, LoopsStopped
<1>4. StreamsKnown'
  BY <1>1, <1>2 DEF AInv, StreamsKnown, Running
<1> QED  BY <1>3, <1>4 DEF AInv

LEMMA NextAInv == AInv /\ [Next]_appVars => AInv'
<1> SUFFICES ASSUME AInv, [Next]_appVars
             PROVE  AInv'
  OBVIOUS
<1>1. CASE \/ StartUp \/ StartUpFails \/ BecomesReady \/ ShutsDown \/ StopsAuto \/ StopsOptions
           \/ \E loop \in Loops : StartLoop(loop) \/ StopLoop(loop)
  BY <1>1, LoopStepKeepsAInv
<1>2. CASE Closes \/ Closed \/ StreamStarts
  BY <1>2, ClosesKeepsAInv, ClosedKeepsAInv, StreamStartsKeepsAInv
<1>3. ASSUME NEW s \in Streams, ServerActs(s) \/ LoopGoesOn(s), UNCHANGED lifespanVars
      PROVE  AInv'
  BY <1>3, StreamMovesKeepsAInv
<1>4. CASE /\ \/ StartRequested \/ StartFails
              \/ StopWebsocket("user") \/ StopWebsocketReturns("user")
           /\ UNCHANGED lifespanVars
  BY <1>4, UserKeepsAInv
<1>5. CASE UNCHANGED appVars
  <2>1. UNCHANGED <<current, stream, strays, stopping, phase, running, built>>
    BY <1>5 DEF appVars, streamVars, lifespanVars
  <2> QED  BY <2>1 DEF AInv, AppTyped, LoopsStopped, StreamsKnown, Running
<1> QED  BY <1>1, <1>2, <1>3, <1>4, <1>5 DEF Next, ServerShutsDown

\* When the application has stopped, no trading loop runs and no stream does but
\* the strays, whatever was started, stopped, lost or replaced before.
THEOREM ShutdownStopsEverything == Spec => []ShutdownIsComplete
<1>1. AInv => ShutdownIsComplete
  BY DEF AInv, LoopsStopped, StreamsKnown, ShutdownIsComplete
<1> QED  BY <1>1, InitAInv, NextAInv, PTL DEF Spec
=============================================================================
