---------------------------- MODULE Application ----------------------------
(***************************************************************************)
(* The lifespan of the application: start-up and shutdown in app/main.py,  *)
(* with the two trading loops as background tasks, the requests that start *)
(* and stop them, and the broker's tick stream (TickStream), which close   *)
(* of app/brokers/base.py stops.  A coroutine is cut at its awaits.        *)
(*                                                                         *)
(* Nothing in the application calls start_websocket or stop_websocket: the *)
(* stream is started by a user of the adapter, at any time.                *)
(***************************************************************************)
EXTENDS TickStream

Loops == {"auto", "options"}  \* the background tasks

VARIABLES
    config,   \* the settings start-up looks at: loops to be started
    phase,    \* where the lifespan is suspended
    built,    \* loops start-up has put into app.state
    running   \* loops whose task runs

lifespanVars == <<config, phase, built, running>>
appVars == <<streamVars, lifespanVars>>

\* Options trading is built for the Angel One adapter only, bare or behind the
\* paper broker.
HasOptions == vendor = "angel_one"

\* The adapter is constructed, logged in if it is Angel One's (whether that
\* succeeds does not matter), and both loops are built; the equity loop's
\* start does not wait for anything.
StartUp ==
    /\ phase = "booting"
    /\ built' = IF HasOptions THEN Loops ELSE {"auto"}
    /\ running' = config \cap {"auto"}
    /\ phase' = "equity_up"
    /\ UNCHANGED <<streamVars, config>>

\* Options asked for and not built: start is called on None, and start-up ends
\* with the equity loop running.
StartUpFails ==
    /\ phase = "equity_up"
    /\ "options" \in config \ built
    /\ phase' = "failed"
    /\ UNCHANGED <<streamVars, config, built, running>>

BecomesReady ==
    /\ phase = "equity_up"
    /\ config \cap {"options"} \subseteq built
    /\ running' = running \cup (config \cap {"options"})
    /\ phase' = "ready"
    /\ UNCHANGED <<streamVars, config, built>>

\* POST /auto/start and /options/auto/start; the options routes answer 503 if
\* there is nothing to start.
StartLoop(loop) ==
    /\ phase = "ready" /\ loop \in built
    /\ running' = running \cup {loop}
    /\ UNCHANGED <<streamVars, config, phase, built>>

\* The two stop routes.
StopLoop(loop) ==
    /\ phase = "ready" /\ loop \in built
    /\ running' = running \ {loop}
    /\ UNCHANGED <<streamVars, config, phase, built>>

\* The server shuts down once the requests have been answered.
ShutsDown ==
    /\ phase = "ready"
    /\ phase' = "stopping_auto"
    /\ UNCHANGED <<streamVars, config, built, running>>

StopsAuto ==
    /\ phase = "stopping_auto"
    /\ running' = running \ {"auto"}
    /\ phase' = IF "options" \in built THEN "stopping_options" ELSE "closing"
    /\ UNCHANGED <<streamVars, config, built>>

StopsOptions ==
    /\ phase = "stopping_options"
    /\ running' = running \ {"options"}
    /\ phase' = "closing"
    /\ UNCHANGED <<streamVars, config, built>>

\* Mutant of AwaitsStream: close does not wait for the stream it stops.
AwaitsNothing == TRUE

AwaitsStream == StopIsOver("close")

\* close: stop_websocket, and once it has returned the clients.
Closes ==
    /\ phase = "closing"
    /\ StopWebsocket("close")
    /\ phase' = "closing_clients"
    /\ UNCHANGED <<config, built, running>>

Closed ==
    /\ phase = "closing_clients"
    /\ AwaitsStream
    /\ stopping' = [stopping EXCEPT !["close"] = NoStream]
    /\ phase' = "stopped"
    /\ UNCHANGED <<vendor, current, stream, backoff, ended, cancelled, starting, strays,
                   config, built, running>>

\* A stream started after close has looked for one is closed by nobody.
StreamStarts ==
    /\ StartWs
    /\ strays' = strays \cup {s \in Streams : s = current /\ Running(s)}
                        \cup (IF phase \in {"closing_clients", "stopped"} THEN {current'} ELSE {})
    /\ UNCHANGED lifespanVars

-----------------------------------------------------------------------------
Init ==
    /\ StreamInit
    /\ config \in SUBSET Loops
    /\ phase = "booting"
    /\ built = {} /\ running = {}

ServerShutsDown == StopsAuto \/ StopsOptions \/ Closes \/ Closed

Next ==
    \/ StartUp \/ StartUpFails \/ BecomesReady \/ ShutsDown \/ ServerShutsDown
    \/ \E loop \in Loops : StartLoop(loop) \/ StopLoop(loop)
    \/ StreamStarts
    \/ /\ \/ \E s \in Streams : ServerActs(s) \/ LoopGoesOn(s)
          \/ StartRequested \/ StartFails
          \/ StopWebsocket("user") \/ StopWebsocketReturns("user")
       /\ phase \notin {"booting", "failed"}
       /\ UNCHANGED lifespanVars

\* The event loop runs what is ready; that a loop's stop returns is shown in
\* AutoTrading.
Fairness ==
    /\ WF_appVars(ServerShutsDown)
    /\ \A s \in Streams : WF_appVars(LoopGoesOn(s) /\ UNCHANGED lifespanVars)

Spec == Init /\ [][Next]_appVars /\ Fairness

-----------------------------------------------------------------------------
(***************************************************************************)
(* Properties.                                                             *)
(***************************************************************************)
\* When the application has stopped, no trading loop runs, and no stream does
\* but those that were replaced without being stopped or were started too late.
ShutdownIsComplete ==
    phase = "stopped" =>
      /\ running = {}
      /\ \A s \in Streams : Running(s) => s \in strays

\* A shutdown comes to its end, whatever the stream was doing.
ShutdownEnds == phase = "stopping_auto" ~> phase = "stopped"
=============================================================================
