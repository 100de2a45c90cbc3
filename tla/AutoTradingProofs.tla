--------------------------- MODULE AutoTradingProofs ---------------------------
(***************************************************************************)
(* Proofs about the automatic trading loop, for every number of tasks,     *)
(* symbols, starts, requests and recommendations: which loops the          *)
(* orchestrator knows of (LoopInv), the limit on open positions (LInv),    *)
(* and, from AutoInv, that what it tracks is what the account holds, that  *)
(* square-off leaves no long position, that closes only reduce and that    *)
(* entries wait for their cooldown.                                        *)
(***************************************************************************)
EXTENDS AutoTrading, SumTheorems, FiniteSetTheorems, TLAPS

\* A stop request waits for a task only while it is stopping.
AwaitsWhileStopping ==
    /\ DOMAIN stopper = {"pc", "emergency", "awaits", "todo", "quantities", "closed"}
    /\ stopper.pc # "stopping" => stopper.awaits = NoTask

\* The inductive invariant: NoUnknownLoop, and what makes a request that is
\* not stopping wait for nobody.
LoopInv ==
    /\ pc \in [Tasks -> {"new", "waiting", "signals", "exits", "quote", "entries", "done"}]
    /\ AwaitsWhileStopping
    /\ NoUnknownLoop

\* A step of a task brings no task to life and leaves the requests alone.
TaskStep ==
    /\ \A t \in Tasks : Alive(t)' => Alive(t)
    /\ UNCHANGED <<handle, stopper, intrusions>>

-----------------------------------------------------------------------------

LEMMA TaskStepKeepsLoopInv ==
  ASSUME LoopInv, TaskStep,
         pc' \in [Tasks -> {"new", "waiting", "signals", "exits", "quote", "entries", "done"}]
  PROVE  LoopInv'
BY DEF LoopInv, TaskStep, AwaitsWhileStopping, NoUnknownLoop, Undisturbed, Alive

\* What a step of task t does to pc: t moves on from a place where it was
\* alive, to a place of the program.
MovesOn(t) ==
    \/ UNCHANGED pc
    \/ \E place \in {"waiting", "signals", "exits", "quote", "entries", "done"} :
         pc[t] \notin {"new", "done"} /\ pc' = [pc EXCEPT ![t] = place]

LEMMA MovesOnIsTaskStep ==
  ASSUME LoopInv, NEW t \in Tasks, MovesOn(t), UNCHANGED <<handle, stopper, intrusions>>
  PROVE  LoopInv'
<1>1. pc' \in [Tasks -> {"new", "waiting", "signals", "exits", "quote", "entries", "done"}]
  BY DEF LoopInv, MovesOn
<1>2. \A u \in Tasks : Alive(u)' => Alive(u)
  BY DEF LoopInv, MovesOn, Alive
<1> QED
  BY <1>1, <1>2, TaskStepKeepsLoopInv DEF TaskStep

LEMMA TaskNextKeepsLoopInv ==
  ASSUME LoopInv, NEW t \in Tasks, TaskNext(t)
  PROVE  LoopInv'
<1> USE DEF requestVars, worldVars, historyVars, Resumes
<1>1. CASE LoopEnds(t)
  BY <1>1, MovesOnIsTaskStep DEF LoopEnds, MovesOn
<1>2. CASE BeginCycle(t)
  BY <1>2, MovesOnIsTaskStep DEF BeginCycle, MovesOn
<1>3. CASE Answered(t)
  <2>1. ASSUME NEW symbol \in Symbols, NEW signal \in Signals \cup {NoSignal},
               RecommendationArrives(t, symbol, signal)
        PROVE  LoopInv'
    BY <2>1, MovesOnIsTaskStep DEF RecommendationArrives, MovesOn
  <2>2. ASSUME NEW symbol \in Symbols, NEW px \in Prices, QuoteKeeps(t, symbol, px)
        PROVE  LoopInv'
    BY <2>2, MovesOnIsTaskStep DEF QuoteKeeps, QuoteArrives, MonitorOn, MovesOn
  <2>3. ASSUME NEW symbol \in Symbols, NEW px \in Prices, QuoteExits(t, symbol, px)
        PROVE  LoopInv'
    BY <2>3, MovesOnIsTaskStep
       DEF QuoteExits, QuoteArrives, MonitorOn, CycleOver, MovesOn
  <2>4. CASE QuoteFails(t)
    BY <2>4, MovesOnIsTaskStep DEF QuoteFails, CycleOver, MovesOn
  <2> QED
    BY <1>3, <2>1, <2>2, <2>3, <2>4 DEF Answered
<1>4. CASE Runs(t)
  <2>1. ASSUME NEW symbol \in Symbols, ForgetClosed(t, symbol)
        PROVE  LoopInv'
    BY <2>1, MovesOnIsTaskStep DEF ForgetClosed, CycleOver, MovesOn
  <2>2. ASSUME NEW symbol \in Symbols, AskQuote(t, symbol)
        PROVE  LoopInv'
    BY <2>2, MovesOnIsTaskStep DEF AskQuote, MovesOn
  <2>3. CASE BeginEntries(t)
    BY <2>3, MovesOnIsTaskStep DEF BeginEntries, MovesOn
  <2>4. ASSUME NEW symbol \in Symbols, PassOver(t, symbol)
        PROVE  LoopInv'
    BY <2>4, MovesOnIsTaskStep DEF PassOver, MovesOn
  <2>5. ASSUME NEW symbol \in Symbols, MaybeEnter(t, symbol)
        PROVE  LoopInv'
    BY <2>5, MovesOnIsTaskStep DEF MaybeEnter, MovesOn
  <2>6. CASE EndCycle(t)
    BY <2>6, MovesOnIsTaskStep DEF EndCycle, CycleOver, MovesOn
  <2> QED
    BY <1>4, <2>1, <2>2, <2>3, <2>4, <2>5, <2>6 DEF Runs
<1>5. CASE CancelArrives(t)
  BY <1>5, MovesOnIsTaskStep DEF CancelArrives, MovesOn, Alive
<1> QED
  BY <1>1, <1>2, <1>3, <1>4, <1>5 DEF TaskNext

-----------------------------------------------------------------------------
(***************************************************************************)
(* Starting and stopping.                                                  *)
(***************************************************************************)
\* A start makes its task the known one; an old task that is still alive is
\* the one a stop request is waiting for.
LEMMA StartKeepsLoopInv ==
  ASSUME LoopInv, Start
  PROVE  LoopInv'
<1>1. PICK t \in Tasks :
        pc[t] = "new" /\ handle' = t /\ pc' = [pc EXCEPT ![t] = "waiting"]
  BY DEF Start
<1>2. UNCHANGED stopper /\ intrusions \subseteq intrusions'
  BY DEF Start
<1>3. ASSUME Undisturbed({"lost_loop"}), NEW u \in Tasks, Alive(u)'
      PROVE  u = t \/ u = stopper.awaits
  <2>1. SUFFICES ASSUME u # t PROVE u = stopper.awaits
    OBVIOUS
  <2>2. Alive(u)
    BY <1>1, <1>3, <2>1 DEF LoopInv, Alive
  <2>3. u # handle
    BY <2>2, AutoTradingAssumption DEF Start, IsRunning
  <2> QED
    BY <1>3, <2>2, <2>3 DEF LoopInv, NoUnknownLoop
<1>4. Undisturbed({"lost_loop"})' => Undisturbed({"lost_loop"})
  BY <1>2 DEF Undisturbed
<1> QED
  BY <1>1, <1>2, <1>3, <1>4 DEF LoopInv, NoUnknownLoop, AwaitsWhileStopping

\* An emergency stop that goes on to its next position, or returns.
FlattenStep == /\ UNCHANGED <<handle, pc>>
               /\ intrusions \subseteq intrusions'
               /\ stopper'.awaits = stopper.awaits
               /\ AwaitsWhileStopping'

LEMMA FlattenStepKeepsLoopInv ==
  ASSUME LoopInv, FlattenStep
  PROVE  LoopInv'
<1>1. Undisturbed({"lost_loop"})' => Undisturbed({"lost_loop"})
  BY DEF FlattenStep, Undisturbed
<1> QED
  BY <1>1 DEF FlattenStep, LoopInv, NoUnknownLoop, Alive

LEMMA FlattenOnKeepsLoopInv ==
  ASSUME LoopInv, stopper.pc = "flattening", UNCHANGED <<handle, pc>>,
         NEW symbol, NEW reported, FlattenOn(symbol, reported)
  PROVE  LoopInv'
<1> DEFINE rest == [stopper EXCEPT !.todo = @ \ {symbol}, !.closed = @ \cup reported]
<1>1. /\ DOMAIN rest = DOMAIN stopper
      /\ rest.pc = stopper.pc
      /\ rest.awaits = stopper.awaits
  BY DEF LoopInv, AwaitsWhileStopping
<1>2. stopper.awaits = NoTask
  BY DEF LoopInv, AwaitsWhileStopping
<1>3. CASE rest.todo = {}
  <2>1. stopper' = NoStop /\ intrusions \subseteq intrusions'
    BY <1>3 DEF FlattenOn, FlattenReturns
  <2> QED
    BY <1>2, <2>1, FlattenStepKeepsLoopInv DEF FlattenStep, AwaitsWhileStopping, NoStop
<1>4. CASE rest.todo # {}
  <2>1. stopper' = rest /\ UNCHANGED intrusions
    BY <1>4 DEF FlattenOn, historyVars
  <2>2. AwaitsWhileStopping'
    BY <1>1, <1>2, <2>1 DEF LoopInv, AwaitsWhileStopping
  <2> QED
    BY <1>1, <2>1, <2>2, FlattenStepKeepsLoopInv DEF FlattenStep
<1> QED
  BY <1>3, <1>4

\* What a request leaves behind once the loop is stopped waits for nobody.
LEMMA AfterStopAwaitsNobody ==
  ASSUME NEW emergency, NEW lost, AfterStop(emergency, lost)
  PROVE  /\ AwaitsWhileStopping'
         /\ stopper'.awaits = NoTask
         /\ intrusions \cup lost \subseteq intrusions'
<1>1. CASE stopper' = NoStop
  BY <1>1 DEF AfterStop, FlattenReturns, NoStop, AwaitsWhileStopping
<1>2. ASSUME NEW open, NEW quantities,
             stopper' = [NoStop EXCEPT !.pc = "flattening", !.todo = open,
                                       !.quantities = quantities],
             UNCHANGED tracked
      PROVE  AwaitsWhileStopping' /\ stopper'.awaits = NoTask
  BY <1>2 DEF NoStop, AwaitsWhileStopping
<1> QED
  BY <1>1, <1>2 DEF AfterStop, FlattenReturns

\* When neither _task nor a stop request names a live task, none is alive.
LEMMA NobodyAlive ==
  ASSUME LoopInv, Undisturbed({"lost_loop"}), ~IsRunning,
         stopper.awaits = NoTask \/ ~Alive(stopper.awaits)
  PROVE  \A t \in Tasks : ~Alive(t)
BY AutoTradingAssumption DEF LoopInv, NoUnknownLoop, IsRunning

LEMMA StopRequestedKeepsLoopInv ==
  ASSUME LoopInv, NEW emergency \in BOOLEAN, StopRequested(emergency)
  PROVE  LoopInv'
<1>1. UNCHANGED pc /\ stopper.awaits = NoTask
  BY DEF StopRequested, taskVars, LoopInv, AwaitsWhileStopping
<1>2. CASE IsRunning
  <2>1. /\ stopper' = [NoStop EXCEPT !.pc = "stopping", !.emergency = emergency,
                                     !.awaits = handle]
        /\ UNCHANGED <<handle, intrusions>>
    BY <1>2 DEF StopRequested, historyVars
  <2>2. AwaitsWhileStopping' /\ stopper'.awaits = handle
    BY <2>1 DEF AwaitsWhileStopping, NoStop
  <2> QED
    BY <1>1, <2>1, <2>2, AutoTradingAssumption
       DEF LoopInv, NoUnknownLoop, Alive, Undisturbed
<1>3. CASE ~IsRunning
  <2>1. AfterStop(emergency, {})
    BY <1>3 DEF StopRequested
  <2>2. AwaitsWhileStopping' /\ intrusions \subseteq intrusions'
    BY <2>1, AfterStopAwaitsNobody
  <2>3. Undisturbed({"lost_loop"})' => \A t \in Tasks : ~Alive(t)
    BY <1>1, <1>3, <2>2, NobodyAlive DEF Undisturbed
  <2> QED
    BY <1>1, <2>2, <2>3 DEF LoopInv, NoUnknownLoop, Alive
<1> QED
  BY <1>2, <1>3

\* stop clears _task.  A task that was started meanwhile is lost by it, and
\* recorded as lost.
LEMMA StopReturnsKeepsLoopInv ==
  ASSUME LoopInv, StopReturns
  PROVE  LoopInv'
<1> DEFINE lost == IF IsRunning THEN {"lost_loop"} ELSE {}
<1>1. UNCHANGED pc /\ ~Alive(stopper.awaits) /\ AfterStop(stopper.emergency, lost)
  BY DEF StopReturns, taskVars
<1>2. AwaitsWhileStopping' /\ intrusions \cup lost \subseteq intrusions'
  BY <1>1, AfterStopAwaitsNobody
<1>3. Undisturbed({"lost_loop"})' => ~IsRunning /\ Undisturbed({"lost_loop"})
  BY <1>2 DEF Undisturbed
<1>4. Undisturbed({"lost_loop"})' => \A t \in Tasks : ~Alive(t)
  BY <1>1, <1>3, NobodyAlive
<1> QED
  BY <1>1, <1>2, <1>4 DEF LoopInv, NoUnknownLoop, Alive

LEMMA StopNextKeepsLoopInv ==
  ASSUME LoopInv, StopNext
  PROVE  LoopInv'
<1>1. CASE StopReturns
  BY <1>1, StopReturnsKeepsLoopInv
<1>2. ASSUME NEW symbol \in Symbols, NEW px \in Prices, FlattenAt(symbol, px)
      PROVE  LoopInv'
  BY <1>2, FlattenOnKeepsLoopInv DEF FlattenAt, taskVars
<1>3. ASSUME NEW symbol \in Symbols, FlattenSkips(symbol)
      PROVE  LoopInv'
  BY <1>3, FlattenOnKeepsLoopInv DEF FlattenSkips, taskVars
<1> QED
  BY <1>1, <1>2, <1>3 DEF StopNext

-----------------------------------------------------------------------------
LEMMA InitLoopInv ==
  ASSUME AutoInit
  PROVE  LoopInv
BY DEF AutoInit, LoopInv, AwaitsWhileStopping, NoStop, NoUnknownLoop, Alive

LEMMA NextKeepsLoopInv ==
  ASSUME LoopInv, [AutoNext]_autoVars
  PROVE  LoopInv'
<1>1. ASSUME NEW t \in Tasks, TaskNext(t)
      PROVE  LoopInv'
  BY <1>1, TaskNextKeepsLoopInv
<1>2. CASE StopNext
  BY <1>2, StopNextKeepsLoopInv
<1>3. CASE Start
  BY <1>3, StartKeepsLoopInv
<1>4. ASSUME NEW emergency \in BOOLEAN, StopRequested(emergency)
      PROVE  LoopInv'
  BY <1>4, StopRequestedKeepsLoopInv
<1>5. ASSUME NEW symbol \in Symbols, NEW side \in {"BUY", "SELL"}, NEW px \in Prices,
             ManualOrder(symbol, side, px)
      PROVE  LoopInv'
  <2>1. Undisturbed({"lost_loop"})' => Undisturbed({"lost_loop"})
    BY <1>5 DEF ManualOrder, Undisturbed
  <2> QED
    BY <1>5, <2>1
       DEF ManualOrder, requestVars, taskVars, LoopInv, AwaitsWhileStopping,
           NoUnknownLoop, Alive
<1>6. CASE Tick
  BY <1>6 DEF Tick, requestVars, taskVars, historyVars, LoopInv, AwaitsWhileStopping,
              NoUnknownLoop, Undisturbed, Alive
<1>7. CASE UNCHANGED autoVars
  BY <1>7 DEF autoVars, requestVars, taskVars, worldVars, historyVars, LoopInv,
              AwaitsWhileStopping, NoUnknownLoop, Undisturbed, Alive
<1> QED
  BY <1>1, <1>2, <1>3, <1>4, <1>5, <1>6, <1>7 DEF AutoNext

\* AutoTradingOrchestrator: however many times the loop is started, and
\* whichever requests and answers race, every live loop is the one _task names
\* or one a stop request is waiting for, until a start overtakes a returning
\* stop.
THEOREM EveryLoopIsKnown == AutoSpec => []NoUnknownLoop
<1>1. LoopInv => NoUnknownLoop
  BY DEF LoopInv
<1> QED
  BY InitLoopInv, NextKeepsLoopInv, <1>1, PTL DEF AutoSpec

-----------------------------------------------------------------------------
(***************************************************************************)
(* The limit on open positions.                                            *)
(***************************************************************************)
\* What the cycle of a task listed for its exit pass.
Listed(t) == {symbol \in Symbols : cycle[t].snapshot[symbol] # Untracked}

CycleFields == {"now", "todo", "at", "exited", "signals", "snapshot"}

LimitTyped ==
    /\ handle \in Tasks \cup {NoTask}
    /\ running \in Tasks \cup {NoTask}
    /\ cancelled \subseteq Tasks
    /\ tracked = [symbol \in Symbols |-> tracked[symbol]]
    /\ cycle = [t \in Tasks |-> cycle[t]]
    /\ \A t \in Tasks : DOMAIN cycle[t] = CycleFields

\* A task that runs has not been cancelled, and a cancelled one has not ended
\* and is what the stop request waits for.
TasksSound ==
    /\ running # NoTask => running \notin cancelled /\ Alive(running)
    /\ \A t \in cancelled : Alive(t) /\ stopper.pc = "stopping" /\ t = stopper.awaits

Lost == "lost_loop" \in intrusions

\* Unless a loop has been lost, the only task that goes on is the one _task names.
OneLoop == ~Lost => \A t \in Tasks : Alive(t) /\ t \notin cancelled => t = handle

\* The exit pass, the only part of a cycle that stores what it read before an
\* await, stores what its cycle has listed.
Exiting == {"exits", "quote"}

RoomSound ==
    ~Lost =>
      /\ Cardinality(TrackedSymbols) <= MaxOpenPositions
      /\ \A t \in Tasks : pc[t] \in Exiting /\ t \notin cancelled =>
           /\ TrackedSymbols \subseteq Listed(t)
           /\ Cardinality(Listed(t)) <= MaxOpenPositions

\* The inductive invariant.
LInv == LoopInv /\ LimitTyped /\ TasksSound /\ OneLoop /\ RoomSound

-----------------------------------------------------------------------------
(***************************************************************************)
(* What is tracked.                                                        *)
(***************************************************************************)
LEMMA TrackedIsFinite ==
  /\ IsFiniteSet(TrackedSymbols)
  /\ \A t : IsFiniteSet(Listed(t))
BY AutoTradingAssumption, FS_Subset DEF TrackedSymbols, Listed

LEMMA FewerTracked ==
  ASSUME TrackedSymbols' \subseteq TrackedSymbols,
         Cardinality(TrackedSymbols) <= MaxOpenPositions
  PROVE  Cardinality(TrackedSymbols') <= MaxOpenPositions
<1>1. /\ Cardinality(TrackedSymbols) \in Nat
      /\ Cardinality(TrackedSymbols') \in Nat
      /\ Cardinality(TrackedSymbols') <= Cardinality(TrackedSymbols)
  BY TrackedIsFinite, FS_Subset, FS_CardinalityType
<1> QED  BY <1>1, AutoRiskAssumption

LEMMA OneMoreTracked ==
  ASSUME NEW x, TrackedSymbols' \subseteq TrackedSymbols \cup {x},
         Cardinality(TrackedSymbols) < MaxOpenPositions
  PROVE  Cardinality(TrackedSymbols') <= MaxOpenPositions
<1>1. /\ IsFiniteSet(TrackedSymbols \cup {x})
      /\ Cardinality(TrackedSymbols) \in Nat
      /\ Cardinality(TrackedSymbols \cup {x}) <= Cardinality(TrackedSymbols) + 1
  <2>1. IsFiniteSet(TrackedSymbols) /\ Cardinality(TrackedSymbols) \in Nat
    BY TrackedIsFinite, FS_CardinalityType
  <2>2. /\ IsFiniteSet(TrackedSymbols \cup {x})
        /\ Cardinality(TrackedSymbols \cup {x}) =
             IF x \in TrackedSymbols THEN Cardinality(TrackedSymbols)
             ELSE Cardinality(TrackedSymbols) + 1
    BY ONLY <2>1, FS_AddElement
  <2> QED  BY <2>1, <2>2
<1>2. /\ IsFiniteSet(TrackedSymbols')
      /\ Cardinality(TrackedSymbols') <= Cardinality(TrackedSymbols \cup {x})
  BY <1>1, FS_Subset
<1>3. /\ Cardinality(TrackedSymbols') \in Nat
      /\ Cardinality(TrackedSymbols \cup {x}) \in Nat
  BY <1>1, <1>2, FS_CardinalityType
<1> QED  BY <1>1, <1>2, <1>3, AutoRiskAssumption

LEMMA ListedIsTracked ==
  ASSUME NEW t \in Tasks, TrackedSymbols' \subseteq Listed(t),
         Cardinality(Listed(t)) <= MaxOpenPositions
  PROVE  Cardinality(TrackedSymbols') <= MaxOpenPositions
<1>1. IsFiniteSet(Listed(t))
  BY TrackedIsFinite
<1>2. /\ Cardinality(Listed(t)) \in Nat
      /\ Cardinality(TrackedSymbols') \in Nat
      /\ Cardinality(TrackedSymbols') <= Cardinality(Listed(t))
  BY <1>1, FS_Subset, FS_CardinalityType
<1> QED  BY <1>2, AutoRiskAssumption

\* Storing a position, and forgetting one.
LEMMA TrackedExcept ==
  ASSUME LimitTyped, NEW x, NEW position, tracked' = [tracked EXCEPT ![x] = position]
  PROVE  /\ (tracked = [symbol \in Symbols |-> tracked[symbol]])'
         /\ TrackedSymbols' \subseteq TrackedSymbols \cup {x}
         /\ position = Untracked => TrackedSymbols' \subseteq TrackedSymbols
BY DEF LimitTyped, TrackedSymbols, IsTracked

-----------------------------------------------------------------------------
(***************************************************************************)
(* Steps of a task.                                                        *)
(***************************************************************************)
\* The one task that may go on goes from one place to another.
LEMMA TaskMoves ==
  ASSUME LInv, LoopInv', NEW t \in Tasks, t \notin cancelled, Alive(t),
         NEW place \in {"waiting", "signals", "exits", "quote", "entries", "done"},
         pc' = [pc EXCEPT ![t] = place],
         UNCHANGED <<handle, cancelled, stopper, intrusions>>,
         running' = NoTask \/ (running' = t /\ place # "done"),
         NEW c, DOMAIN c = CycleFields, cycle' = [cycle EXCEPT ![t] = c],
         (tracked = [symbol \in Symbols |-> tracked[symbol]])',
         ~Lost => Cardinality(TrackedSymbols') <= MaxOpenPositions,
         ~Lost /\ place \in Exiting =>
           /\ TrackedSymbols' \subseteq {symbol \in Symbols : c.snapshot[symbol] # Untracked}
           /\ Cardinality({symbol \in Symbols : c.snapshot[symbol] # Untracked})
                <= MaxOpenPositions
  PROVE  LInv'
<1>1. /\ pc'[t] = place
      /\ \A u \in Tasks : u # t => pc'[u] = pc[u]
  BY DEF LInv, LoopInv
<1>2. /\ cycle' = [u \in Tasks |-> cycle'[u]]
      /\ cycle'[t] = c
      /\ \A u \in Tasks : u # t => cycle'[u] = cycle[u]
  BY DEF LInv, LimitTyped
<1>3. LimitTyped'
  BY <1>2 DEF LInv, LimitTyped
<1>4. TasksSound'
  BY <1>1 DEF LInv, LimitTyped, TasksSound, Alive
<1>5. OneLoop'
  BY <1>1 DEF LInv, OneLoop, Lost, Alive
<1>6. RoomSound'
  <2> SUFFICES ASSUME ~Lost
               PROVE  /\ Cardinality(TrackedSymbols') <= MaxOpenPositions
                      /\ \A u \in Tasks : pc'[u] \in Exiting /\ u \notin cancelled =>
                           /\ TrackedSymbols' \subseteq Listed(u)'
                           /\ Cardinality(Listed(u)') <= MaxOpenPositions
    BY DEF RoomSound, Lost
  <2>1. \A u \in Tasks : pc'[u] \in Exiting /\ u \notin cancelled => u = t
    BY <1>1 DEF LInv, OneLoop, Exiting, Alive
  <2>2. Listed(t)' = {symbol \in Symbols : c.snapshot[symbol] # Untracked}
    BY <1>2 DEF Listed
  <2> QED  BY <1>1, <2>1, <2>2
<1> QED  BY <1>3, <1>4, <1>5, <1>6 DEF LInv

\* A task leaves the exit pass, or never was in it, and tracks nothing new.
LEMMA PlainMoves ==
  ASSUME LInv, LoopInv', NEW t \in Tasks, t \notin cancelled, Alive(t),
         NEW place \in {"waiting", "signals", "entries", "done"},
         pc' = [pc EXCEPT ![t] = place],
         UNCHANGED <<handle, cancelled, stopper, intrusions>>,
         running' = NoTask \/ (running' = t /\ place # "done"),
         NEW c, DOMAIN c = CycleFields, cycle' = [cycle EXCEPT ![t] = c],
         (tracked = [symbol \in Symbols |-> tracked[symbol]])',
         TrackedSymbols' \subseteq TrackedSymbols
  PROVE  LInv'
<1>1. ~Lost => Cardinality(TrackedSymbols') <= MaxOpenPositions
  BY FewerTracked DEF LInv, RoomSound
<1>2. place \notin Exiting
  BY DEF Exiting
<1> QED  BY <1>1, <1>2, TaskMoves

\* A task goes on with its exit pass, and stores only what it has listed.
LEMMA ExitPassMoves ==
  ASSUME LInv, LoopInv', NEW t \in Tasks, t \notin cancelled, pc[t] \in Exiting,
         NEW place \in Exiting,
         pc' = [pc EXCEPT ![t] = place],
         UNCHANGED <<handle, cancelled, stopper, intrusions>>,
         running' = NoTask \/ running' = t,
         NEW c, DOMAIN c = CycleFields, c.snapshot = cycle[t].snapshot,
         cycle' = [cycle EXCEPT ![t] = c],
         (tracked = [symbol \in Symbols |-> tracked[symbol]])',
         TrackedSymbols' \subseteq TrackedSymbols \cup Listed(t)
  PROVE  LInv'
<1>1. Listed(t) = {symbol \in Symbols : c.snapshot[symbol] # Untracked}
  BY DEF Listed
<1>2. ~Lost => /\ TrackedSymbols' \subseteq Listed(t)
               /\ Cardinality(Listed(t)) <= MaxOpenPositions
  BY DEF LInv, RoomSound
<1>3. ~Lost => Cardinality(TrackedSymbols') <= MaxOpenPositions
  BY <1>2, ListedIsTracked
<1>4. Alive(t)
  BY DEF Exiting, Alive
<1>5. place \in {"waiting", "signals", "exits", "quote", "entries", "done"} /\ place # "done"
  BY DEF Exiting
<1> QED  BY <1>1, <1>2, <1>3, <1>4, <1>5, TaskMoves

\* A record of a cycle keeps its fields.
LEMMA CycleExcept ==
  ASSUME LimitTyped, NEW t \in Tasks
  PROVE  /\ DOMAIN cycle[t] = CycleFields
         /\ DOMAIN NoCycle = CycleFields
BY DEF LimitTyped, CycleFields, NoCycle

LEMMA TrackedStays ==
  ASSUME LimitTyped, UNCHANGED tracked
  PROVE  /\ (tracked = [symbol \in Symbols |-> tracked[symbol]])'
         /\ TrackedSymbols' = TrackedSymbols
BY DEF LimitTyped, TrackedSymbols, IsTracked

LEMMA RunningIsAlive ==
  ASSUME LInv, NEW t \in Tasks, running = t
  PROVE  t \notin cancelled /\ Alive(t)
BY AutoTradingAssumption DEF LInv, TasksSound

\* The ends of an exit pass and of a cycle.
LEMMA CycleOverKeepsLInv ==
  ASSUME LInv, LoopInv', NEW t \in Tasks, t \notin cancelled, Alive(t), CycleOver(t),
         UNCHANGED <<handle, cancelled, stopper, intrusions>>,
         (tracked = [symbol \in Symbols |-> tracked[symbol]])',
         TrackedSymbols' \subseteq TrackedSymbols
  PROVE  LInv'
<1>1. pc' = [pc EXCEPT ![t] = "waiting"] /\ cycle' = [cycle EXCEPT ![t] = NoCycle]
      /\ running' = NoTask
  BY DEF CycleOver
<1>2. DOMAIN NoCycle = CycleFields
  BY CycleExcept DEF LInv
<1> QED  BY <1>1, <1>2, PlainMoves

LEMMA MonitorOnKeepsLInv ==
  ASSUME LInv, LoopInv', NEW t \in Tasks, t \notin cancelled, pc[t] \in Exiting,
         NEW exited, MonitorOn(t, exited),
         UNCHANGED <<handle, cancelled, stopper, intrusions>>,
         (tracked = [symbol \in Symbols |-> tracked[symbol]])',
         TrackedSymbols' \subseteq TrackedSymbols \cup Listed(t)
  PROVE  LInv'
<1> DEFINE c == [cycle[t] EXCEPT !.at = {}, !.exited = cycle[t].exited \cup exited]
<1>1. DOMAIN c = CycleFields /\ c.snapshot = cycle[t].snapshot
  BY CycleExcept DEF LInv, CycleFields
<1>2. /\ pc' = [pc EXCEPT ![t] = "exits"] /\ running' = t
      /\ cycle' = [cycle EXCEPT ![t] = c]
  BY CycleExcept DEF MonitorOn, LInv, LimitTyped, CycleFields
<1>3. "exits" \in Exiting
  BY DEF Exiting
<1> HIDE DEF c
<1> QED  BY <1>1, <1>2, <1>3, ExitPassMoves

LEMMA LoopEndsKeepsLInv ==
  ASSUME LInv, LoopInv', NEW t \in Tasks, LoopEnds(t)
  PROVE  LInv'
<1>1. /\ t \notin cancelled /\ Alive(t)
      /\ pc' = [pc EXCEPT ![t] = "done"] /\ running' = NoTask
      /\ UNCHANGED <<handle, cancelled, stopper, intrusions, tracked>>
      /\ cycle' = cycle
  BY DEF LoopEnds, Resumes, Alive, NobodyRuns, requestVars, tradeVars, worldVars, historyVars
<1>2. cycle' = [cycle EXCEPT ![t] = cycle[t]]
  BY <1>1 DEF LInv, LimitTyped
<1>3. DOMAIN cycle[t] = CycleFields
  BY CycleExcept DEF LInv
<1> QED  BY <1>1, <1>2, <1>3, TrackedStays, PlainMoves DEF LInv

LEMMA BeginCycleKeepsLInv ==
  ASSUME LInv, LoopInv', NEW t \in Tasks, BeginCycle(t)
  PROVE  LInv'
<1> DEFINE c == [NoCycle EXCEPT !.now = clock, !.todo = Symbols]
<1>1. /\ t \notin cancelled /\ Alive(t)
      /\ pc' = [pc EXCEPT ![t] = "signals"] /\ running' = NoTask
      /\ UNCHANGED <<handle, cancelled, stopper, intrusions, tracked>>
      /\ cycle' = [cycle EXCEPT ![t] = c]
  BY DEF BeginCycle, Resumes, Alive, NobodyRuns, requestVars, tradeVars, worldVars, historyVars
<1>2. DOMAIN c = CycleFields
  BY CycleExcept DEF LInv
<1> HIDE DEF c
<1> QED  BY <1>1, <1>2, TrackedStays, PlainMoves DEF LInv

\* After the last recommendation the positions are listed: those that are tracked.
LEMMA RecommendationArrivesKeepsLInv ==
  ASSUME LInv, LoopInv', NEW t \in Tasks, NEW symbol \in Symbols, NEW signal,
         RecommendationArrives(t, symbol, signal)
  PROVE  LInv'
<1> DEFINE todo == cycle[t].todo \ {symbol}
           heard == [cycle[t] EXCEPT !.todo = todo, !.signals[symbol] = signal]
           c == [heard EXCEPT !.todo = TrackedSymbols, !.snapshot = tracked]
<1>1. /\ t \notin cancelled /\ Alive(t) /\ pc[t] = "signals" /\ running = NoTask
      /\ UNCHANGED <<handle, cancelled, stopper, intrusions, tracked>>
      /\ \/ cycle' = [cycle EXCEPT ![t] = heard] /\ UNCHANGED <<pc, running>>
         \/ /\ cycle' = [cycle EXCEPT ![t] = c]
            /\ pc' = [pc EXCEPT ![t] = "exits"] /\ running' = t
  BY DEF RecommendationArrives, Resumes, Alive, NobodyRuns, requestVars, tradeVars, worldVars,
         historyVars
<1>2. DOMAIN heard = CycleFields
  BY CycleExcept DEF LInv
<1>3. DOMAIN c = CycleFields /\ c.snapshot = tracked
  <2> HIDE DEF heard
  <2> QED  BY <1>2 DEF CycleFields
<1> HIDE DEF heard, c
<1>4. /\ (tracked = [s \in Symbols |-> tracked[s]])'
      /\ TrackedSymbols' = TrackedSymbols
  BY <1>1, TrackedStays DEF LInv
<1>5. CASE cycle' = [cycle EXCEPT ![t] = heard] /\ UNCHANGED <<pc, running>>
  <2>1. pc' = [pc EXCEPT ![t] = "signals"]
    BY <1>1, <1>5 DEF LInv, LoopInv
  <2> QED  BY <1>1, <1>2, <1>4, <1>5, <2>1, PlainMoves
<1>6. CASE /\ cycle' = [cycle EXCEPT ![t] = c]
           /\ pc' = [pc EXCEPT ![t] = "exits"] /\ running' = t
  <2>1. {s \in Symbols : c.snapshot[s] # Untracked} = TrackedSymbols
    BY <1>3 DEF TrackedSymbols, IsTracked
  <2>2. ~Lost => Cardinality(TrackedSymbols) <= MaxOpenPositions
    BY DEF LInv, RoomSound
  <2> QED  BY <1>1, <1>3, <1>4, <1>6, <2>1, <2>2, TaskMoves
<1> QED  BY <1>1, <1>5, <1>6

\* No exit: what is stored again is what was listed, whatever has been
\* forgotten meanwhile.
LEMMA QuoteKeepsKeepsLInv ==
  ASSUME LInv, LoopInv', NEW t \in Tasks, NEW symbol \in Symbols, NEW px,
         QuoteKeeps(t, symbol, px)
  PROVE  LInv'
<1> DEFINE position == RatchetBestPrice(cycle[t].snapshot[symbol], px)
<1>1. /\ t \notin cancelled /\ pc[t] \in Exiting
      /\ UNCHANGED <<handle, cancelled, stopper, intrusions>>
      /\ tracked' = [tracked EXCEPT ![symbol] = position]
      /\ MonitorOn(t, {})
  BY DEF QuoteKeeps, QuoteArrives, Resumes, Exiting, requestVars, worldVars, historyVars
<1>2. cycle[t].snapshot[symbol] = Untracked => position = Untracked
  BY DEF RatchetBestPrice, Untracked
<1> HIDE DEF position
<1>3. /\ (tracked = [s \in Symbols |-> tracked[s]])'
      /\ TrackedSymbols' \subseteq TrackedSymbols \cup {symbol}
      /\ position = Untracked => TrackedSymbols' \subseteq TrackedSymbols
  BY <1>1, TrackedExcept DEF LInv
<1>4. TrackedSymbols' \subseteq TrackedSymbols \cup Listed(t)
  BY <1>2, <1>3 DEF Listed
<1> QED  BY <1>1, <1>3, <1>4, MonitorOnKeepsLInv

LEMMA QuoteExitsKeepsLInv ==
  ASSUME LInv, LoopInv', NEW t \in Tasks, NEW symbol \in Symbols, NEW px,
         QuoteExits(t, symbol, px)
  PROVE  LInv'
<1>1. /\ t \notin cancelled /\ pc[t] \in Exiting /\ Alive(t)
      /\ UNCHANGED <<handle, cancelled, stopper, intrusions>>
      /\ UNCHANGED tracked \/ tracked' = [tracked EXCEPT ![symbol] = Untracked]
      /\ (\E exited : MonitorOn(t, exited)) \/ CycleOver(t)
  BY DEF QuoteExits, QuoteArrives, Resumes, Exiting, Alive, requestVars, tradeVars, worldVars,
         historyVars
<1>2. /\ (tracked = [s \in Symbols |-> tracked[s]])'
      /\ TrackedSymbols' \subseteq TrackedSymbols
  BY <1>1, TrackedStays, TrackedExcept DEF LInv
<1> QED  BY <1>1, <1>2, MonitorOnKeepsLInv, CycleOverKeepsLInv

LEMMA QuoteFailsKeepsLInv ==
  ASSUME LInv, LoopInv', NEW t \in Tasks, QuoteFails(t)
  PROVE  LInv'
<1>1. /\ t \notin cancelled /\ Alive(t) /\ CycleOver(t)
      /\ UNCHANGED <<handle, cancelled, stopper, intrusions, tracked>>
  BY DEF QuoteFails, Resumes, Alive, requestVars, tradeVars, worldVars, historyVars
<1> QED  BY <1>1, TrackedStays, CycleOverKeepsLInv DEF LInv

LEMMA ForgetClosedKeepsLInv ==
  ASSUME LInv, LoopInv', NEW t \in Tasks, NEW symbol \in Symbols, ForgetClosed(t, symbol)
  PROVE  LInv'
<1> DEFINE c == [cycle[t] EXCEPT !.todo = cycle[t].todo \ {symbol}]
<1>1. /\ running = t /\ pc[t] = "exits"
      /\ UNCHANGED <<handle, cancelled, stopper, intrusions>>
      /\ tracked' = [tracked EXCEPT ![symbol] = Untracked]
      /\ \/ cycle' = [cycle EXCEPT ![t].todo = @ \ {symbol}] /\ UNCHANGED <<pc, running>>
         \/ CycleOver(t)
  BY DEF ForgetClosed, requestVars, worldVars, historyVars
<1>2. t \notin cancelled /\ Alive(t)
  BY <1>1, RunningIsAlive
<1>3. /\ (tracked = [s \in Symbols |-> tracked[s]])'
      /\ TrackedSymbols' \subseteq TrackedSymbols
  BY <1>1, TrackedExcept DEF LInv
<1>4. CASE cycle' = [cycle EXCEPT ![t].todo = @ \ {symbol}] /\ UNCHANGED <<pc, running>>
  <2>1. pc' = [pc EXCEPT ![t] = "exits"] /\ pc[t] \in Exiting /\ "exits" \in Exiting
    BY <1>1, <1>4 DEF LInv, LoopInv, Exiting
  <2>2. cycle' = [cycle EXCEPT ![t] = c]
    BY <1>4 DEF LInv, LimitTyped
  <2>3. DOMAIN c = CycleFields /\ c.snapshot = cycle[t].snapshot
    BY CycleExcept DEF LInv, CycleFields
  <2> HIDE DEF c
  <2> QED  BY <1>1, <1>2, <1>3, <1>4, <2>1, <2>2, <2>3, ExitPassMoves
<1>5. CASE CycleOver(t)
  BY <1>1, <1>2, <1>3, <1>5, CycleOverKeepsLInv
<1> QED  BY <1>1, <1>4, <1>5

LEMMA AskQuoteKeepsLInv ==
  ASSUME LInv, LoopInv', NEW t \in Tasks, NEW symbol \in Symbols, AskQuote(t, symbol)
  PROVE  LInv'
<1> DEFINE c == [cycle[t] EXCEPT !.todo = cycle[t].todo \ {symbol}, !.at = {symbol}]
<1>1. /\ running = t /\ pc[t] \in Exiting
      /\ UNCHANGED <<handle, cancelled, stopper, intrusions, tracked>>
      /\ pc' = [pc EXCEPT ![t] = "quote"] /\ running' = NoTask
      /\ cycle' = [cycle EXCEPT ![t].todo = @ \ {symbol}, ![t].at = {symbol}]
  BY DEF AskQuote, Exiting, requestVars, tradeVars, worldVars, historyVars
<1>2. cycle' = [cycle EXCEPT ![t] = c]
  BY <1>1 DEF LInv, LimitTyped
<1>3. DOMAIN c = CycleFields /\ c.snapshot = cycle[t].snapshot
  BY CycleExcept DEF LInv, CycleFields
<1>4. t \notin cancelled /\ "quote" \in Exiting
  BY <1>1, RunningIsAlive DEF Exiting
<1> HIDE DEF c
<1> QED  BY <1>1, <1>2, <1>3, <1>4, TrackedStays, ExitPassMoves DEF LInv

\* The entry pass takes no part in what the limit is about, but for MaybeEnter.
LEMMA EntryPassKeepsLInv ==
  ASSUME LInv, LoopInv', NEW t \in Tasks,
         BeginEntries(t) \/ EndCycle(t) \/ \E symbol \in Symbols : PassOver(t, symbol)
  PROVE  LInv'
<1>1. /\ running = t
      /\ UNCHANGED <<handle, cancelled, stopper, intrusions, tracked>>
  BY DEF BeginEntries, EndCycle, PassOver, requestVars, tradeVars, worldVars, historyVars
<1>2. t \notin cancelled /\ Alive(t)
  BY <1>1, RunningIsAlive
<1>3. /\ (tracked = [s \in Symbols |-> tracked[s]])'
      /\ TrackedSymbols' = TrackedSymbols
  BY <1>1, TrackedStays DEF LInv
<1>4. CASE EndCycle(t)
  BY <1>1, <1>2, <1>3, <1>4, CycleOverKeepsLInv DEF EndCycle
<1>5. ASSUME BeginEntries(t) \/ \E symbol \in Symbols : PassOver(t, symbol)
      PROVE  LInv'
  <2>1. /\ pc' = [pc EXCEPT ![t] = "entries"] /\ running' = t
        /\ \E todo : cycle' = [cycle EXCEPT ![t].todo = todo]
    <3>1. CASE BeginEntries(t)
      BY <1>1, <3>1 DEF BeginEntries
    <3>2. ASSUME NEW symbol \in Symbols, PassOver(t, symbol)
          PROVE  /\ pc' = [pc EXCEPT ![t] = "entries"] /\ running' = t
                 /\ \E todo : cycle' = [cycle EXCEPT ![t].todo = todo]
      <4>1. pc[t] = "entries" /\ pc' = pc /\ running' = t
        BY <3>2 DEF PassOver
      <4>2. cycle' = [cycle EXCEPT ![t].todo = cycle[t].todo \ {symbol}]
        BY <3>2 DEF PassOver, LInv, LimitTyped
      <4> QED  BY <4>1, <4>2 DEF LInv, LoopInv
    <3> QED  BY <1>5, <3>1, <3>2
  <2>2. PICK todo : cycle' = [cycle EXCEPT ![t].todo = todo]
    BY <2>1
  <2> DEFINE c == [cycle[t] EXCEPT !.todo = todo]
  <2>3. cycle' = [cycle EXCEPT ![t] = c] /\ DOMAIN c = CycleFields
    BY <2>2, CycleExcept DEF LInv
  <2> HIDE DEF c
  <2> QED  BY <1>1, <1>2, <1>3, <2>1, <2>3, PlainMoves
<1> QED  BY <1>4, <1>5

\* An entry counts what is tracked in the same step that tracks it.
LEMMA MaybeEnterKeepsLInv ==
  ASSUME LInv, LoopInv', NEW t \in Tasks, NEW symbol \in Symbols, MaybeEnter(t, symbol)
  PROVE  LInv'
<1> DEFINE c == [cycle[t] EXCEPT !.todo = cycle[t].todo \ {symbol}]
<1>1. /\ running = t /\ running' = t /\ pc[t] = "entries" /\ pc' = pc
      /\ UNCHANGED <<handle, cancelled, stopper, intrusions>>
      /\ cycle' = [cycle EXCEPT ![t].todo = @ \ {symbol}]
      /\ \/ UNCHANGED tracked
         \/ /\ Cardinality(TrackedSymbols) < MaxOpenPositions
            /\ \E position : tracked' = [tracked EXCEPT ![symbol] = position]
  BY DEF MaybeEnter, EntryAllowed, requestVars, worldVars, historyVars
<1>2. t \notin cancelled /\ Alive(t)
  BY <1>1, RunningIsAlive
<1>3. pc' = [pc EXCEPT ![t] = "entries"] /\ "entries" \notin Exiting
  BY <1>1 DEF LInv, LoopInv, Exiting
<1>4. cycle' = [cycle EXCEPT ![t] = c] /\ DOMAIN c = CycleFields
  BY <1>1, CycleExcept DEF LInv, LimitTyped
<1> HIDE DEF c
<1>5. CASE UNCHANGED tracked
  BY <1>1, <1>2, <1>3, <1>4, <1>5, TrackedStays, PlainMoves DEF LInv
<1>6. ASSUME Cardinality(TrackedSymbols) < MaxOpenPositions,
             NEW position, tracked' = [tracked EXCEPT ![symbol] = position]
      PROVE  LInv'
  <2>1. /\ (tracked = [s \in Symbols |-> tracked[s]])'
        /\ TrackedSymbols' \subseteq TrackedSymbols \cup {symbol}
    BY <1>6, TrackedExcept DEF LInv
  <2>2. Cardinality(TrackedSymbols') <= MaxOpenPositions
    BY <1>6, <2>1, OneMoreTracked
  <2> QED  BY <1>1, <1>2, <1>3, <1>4, <2>1, <2>2, TaskMoves
<1> QED  BY <1>1, <1>5, <1>6

\* A task that has been cancelled ends.
LEMMA CancelArrivesKeepsLInv ==
  ASSUME LInv, LoopInv', NEW t \in Tasks, CancelArrives(t)
  PROVE  LInv'
<1>1. /\ UNCHANGED <<handle, stopper, running, tracked, intrusions>>
      /\ running = NoTask
      /\ pc' = [pc EXCEPT ![t] = "done"] /\ cancelled' = cancelled \ {t}
      /\ cycle' = [cycle EXCEPT ![t] = NoCycle]
  BY DEF CancelArrives, NobodyRuns, tradeVars, worldVars, historyVars
<1>2. /\ pc'[t] = "done"
      /\ \A u \in Tasks : u # t => pc'[u] = pc[u]
  BY <1>1 DEF LInv, LoopInv
<1>3. /\ cycle' = [u \in Tasks |-> cycle'[u]]
      /\ cycle'[t] = NoCycle
      /\ \A u \in Tasks : u # t => cycle'[u] = cycle[u]
  BY <1>1 DEF LInv, LimitTyped
<1>4. LimitTyped'
  BY <1>1, <1>3, CycleExcept DEF LInv, LimitTyped
<1>5. TasksSound' /\ OneLoop'
  BY <1>1, <1>2 DEF LInv, LimitTyped, TasksSound, OneLoop, Lost, Alive
<1>6. RoomSound'
  <2>1. \A u \in Tasks : pc'[u] \in Exiting =>
          u # t /\ pc[u] \in Exiting /\ Listed(u)' = Listed(u)
    BY <1>2, <1>3 DEF Exiting, Listed
  <2>2. TrackedSymbols' = TrackedSymbols
    BY <1>1 DEF TrackedSymbols, IsTracked
  <2> QED  BY <1>1, <2>1, <2>2 DEF LInv, RoomSound, Lost
<1> QED  BY <1>4, <1>5, <1>6 DEF LInv

-----------------------------------------------------------------------------
(***************************************************************************)
(* Requests.                                                               *)
(***************************************************************************)
\* Without a loop that is running, no task goes on.
LEMMA NobodyGoesOn ==
  ASSUME LInv, ~IsRunning, ~Lost
  PROVE  \A t \in Tasks : Alive(t) => t \in cancelled
BY AutoTradingAssumption DEF LInv, OneLoop, IsRunning

LEMMA StartKeepsLInv ==
  ASSUME LInv, LoopInv', Start
  PROVE  LInv'
<1>1. PICK t \in Tasks : pc[t] = "new" /\ handle' = t /\ pc' = [pc EXCEPT ![t] = "waiting"]
  BY DEF Start
<1>2. /\ UNCHANGED <<cancelled, stopper, running, tracked, cycle>> /\ ~IsRunning
      /\ running = NoTask
      /\ "lost_loop" \in intrusions' <=> "lost_loop" \in intrusions
  BY DEF Start, NobodyRuns
<1>3. /\ pc'[t] = "waiting"
      /\ \A u \in Tasks : u # t => pc'[u] = pc[u]
  BY <1>1 DEF LInv, LoopInv
<1>4. LimitTyped'
  BY <1>1, <1>2 DEF LInv, LimitTyped
<1>5. TasksSound'
  BY <1>1, <1>2, <1>3 DEF LInv, LimitTyped, TasksSound, Alive
<1>6. OneLoop'
  BY <1>1, <1>2, <1>3, NobodyGoesOn DEF OneLoop, Lost, Alive
<1>7. RoomSound'
  <2>1. \A u \in Tasks : pc'[u] \in Exiting => pc[u] \in Exiting /\ Listed(u)' = Listed(u)
    BY <1>2, <1>3 DEF Exiting, Listed
  <2>2. TrackedSymbols' = TrackedSymbols
    BY <1>2 DEF TrackedSymbols, IsTracked
  <2> QED  BY <1>2, <2>1, <2>2 DEF LInv, RoomSound, Lost
<1> QED  BY <1>4, <1>5, <1>6, <1>7 DEF LInv

\* What an emergency stop leaves: nothing tracked, or what was.
LEMMA FlattenReturnsForgets ==
  ASSUME NEW open, NEW lost, FlattenReturns(open, lost)
  PROVE  /\ tracked' = [s \in Symbols |-> Untracked]
         /\ stopper' = NoStop
         /\ "lost_loop" \in intrusions' <=> "lost_loop" \in lost \/ "lost_loop" \in intrusions
<1>1. CASE \E symbol \in Symbols : lots'[symbol] # <<>>
  <2>1. intrusions' = intrusions \cup lost \cup {"left_open"}
    BY <1>1 DEF FlattenReturns
  <2> QED  BY <2>1 DEF FlattenReturns
<1>2. CASE ~\E symbol \in Symbols : lots'[symbol] # <<>>
  <2>1. intrusions' = intrusions \cup lost \cup {}
    BY <1>2 DEF FlattenReturns
  <2> QED  BY <2>1 DEF FlattenReturns
<1> QED  BY <1>1, <1>2

LEMMA NothingIsTracked ==
  ASSUME tracked' = [s \in Symbols |-> Untracked]
  PROVE  /\ (tracked = [s \in Symbols |-> tracked[s]])'
         /\ TrackedSymbols' \subseteq TrackedSymbols
BY DEF TrackedSymbols, IsTracked

LEMMA AfterStopForgets ==
  ASSUME LimitTyped, NEW emergency, NEW lost, AfterStop(emergency, lost)
  PROVE  /\ (tracked = [s \in Symbols |-> tracked[s]])'
         /\ TrackedSymbols' \subseteq TrackedSymbols
         /\ "lost_loop" \in intrusions' <=> "lost_loop" \in lost \/ "lost_loop" \in intrusions
<1>1. FlattenReturns({}, lost) \/ (UNCHANGED tracked /\ intrusions' = intrusions \cup lost)
  BY DEF AfterStop
<1>2. CASE FlattenReturns({}, lost)
  BY <1>2, FlattenReturnsForgets, NothingIsTracked
<1>3. CASE UNCHANGED tracked /\ intrusions' = intrusions \cup lost
  BY <1>3, TrackedStays
<1> QED  BY <1>1, <1>2, <1>3

LEMMA FlattenOnForgets ==
  ASSUME LimitTyped, NEW symbol, NEW reported, FlattenOn(symbol, reported)
  PROVE  /\ (tracked = [s \in Symbols |-> tracked[s]])'
         /\ TrackedSymbols' \subseteq TrackedSymbols
         /\ "lost_loop" \in intrusions' <=> "lost_loop" \in intrusions
<1>1. (\E open : FlattenReturns(open, {})) \/ UNCHANGED <<tracked, intrusions>>
  BY DEF FlattenOn, historyVars
<1>2. ASSUME NEW open, FlattenReturns(open, {})
      PROVE  /\ tracked' = [s \in Symbols |-> Untracked]
             /\ "lost_loop" \in intrusions' <=> "lost_loop" \in intrusions
  BY <1>2, FlattenReturnsForgets
<1>3. CASE \E open : FlattenReturns(open, {})
  BY <1>2, <1>3, NothingIsTracked
<1>4. CASE UNCHANGED <<tracked, intrusions>>
  BY <1>4, TrackedStays
<1> QED  BY <1>1, <1>3, <1>4

\* A step that leaves the tasks alone and tracks nothing new, when no cancelled
\* task is left or the request still waits for it.
LEMMA RequestStep ==
  ASSUME LInv, LoopInv',
         UNCHANGED <<handle, running, cancelled, pc, cycle>>,
         cancelled = {} \/ UNCHANGED stopper,
         (tracked = [s \in Symbols |-> tracked[s]])',
         TrackedSymbols' \subseteq TrackedSymbols,
         "lost_loop" \in intrusions' <=> "lost_loop" \in intrusions
  PROVE  LInv'
<1>1. LimitTyped' /\ TasksSound' /\ OneLoop'
  BY DEF LInv, LimitTyped, TasksSound, OneLoop, Lost, Alive
<1>2. RoomSound'
  <2>1. \A u \in Tasks : Listed(u)' = Listed(u)
    BY DEF Listed
  <2> QED  BY <2>1, FewerTracked DEF LInv, RoomSound, Lost
<1> QED  BY <1>1, <1>2 DEF LInv

\* _task is cleared as a stop returns: unless the loop is recorded as lost,
\* nothing goes on any more.
LEMMA ForgetsTheLoop ==
  ASSUME LInv, LoopInv', UNCHANGED <<pc, cycle, running>>, running = NoTask,
         handle' = NoTask, cancelled = {}, cancelled' = {},
         NEW emergency, NEW lost, AfterStop(emergency, lost),
         IsRunning => "lost_loop" \in lost, ~IsRunning => "lost_loop" \notin lost
  PROVE  LInv'
<1>1. /\ (tracked = [s \in Symbols |-> tracked[s]])'
      /\ TrackedSymbols' \subseteq TrackedSymbols
      /\ "lost_loop" \in intrusions' <=> "lost_loop" \in lost \/ "lost_loop" \in intrusions
  BY AfterStopForgets DEF LInv
<1>2. LimitTyped' /\ TasksSound'
  BY <1>1 DEF LInv, LimitTyped, TasksSound
<1>3. ~Lost' => ~Lost /\ \A u \in Tasks : ~Alive(u)
  BY <1>1, NobodyGoesOn DEF Lost
<1>4. ~Lost' => \A u \in Tasks : ~Alive(u)' /\ pc[u] \notin Exiting
  BY <1>3 DEF Alive, Exiting, LInv
<1>5. OneLoop'
  BY <1>4 DEF OneLoop
<1>6. RoomSound'
  <2>1. \A u \in Tasks : pc'[u] \in Exiting => Alive(u)'
    BY DEF Exiting, Alive
  <2> QED  BY <1>1, <1>3, <1>4, <2>1, FewerTracked DEF LInv, RoomSound
<1> QED  BY <1>2, <1>5, <1>6 DEF LInv

\* A stop cancels the loop it waits for, and only that one.
LEMMA StopRequestedKeepsLInv ==
  ASSUME LInv, LoopInv', NEW emergency \in BOOLEAN, StopRequested(emergency)
  PROVE  LInv'
<1>1. /\ running = NoTask /\ stopper.pc = "idle" /\ cancelled = {}
      /\ UNCHANGED <<pc, cycle, running>>
  BY DEF StopRequested, NobodyRuns, taskVars, LInv, TasksSound
<1>2. \A u \in Tasks : Listed(u)' = Listed(u)
  BY <1>1 DEF Listed
<1>3. CASE IsRunning
  <2>1. /\ cancelled' = {handle} /\ UNCHANGED <<handle, tracked, intrusions>>
        /\ stopper'.pc = "stopping" /\ stopper'.awaits = handle
    BY <1>1, <1>3 DEF StopRequested, NoStop, historyVars
  <2>2. handle \in Tasks /\ Alive(handle)
    BY <1>3 DEF IsRunning, LInv, LimitTyped
  <2>3. LimitTyped'
    BY <1>1, <2>1, <2>2 DEF LInv, LimitTyped
  <2>4. TasksSound' /\ OneLoop'
    BY <1>1, <2>1, <2>2 DEF LInv, TasksSound, OneLoop, Lost, Alive
  <2>5. (TrackedSymbols = TrackedSymbols')
    BY <2>1 DEF TrackedSymbols, IsTracked
  <2>6. RoomSound'
    BY <1>1, <1>2, <2>1, <2>5 DEF LInv, RoomSound, Lost
  <2> QED  BY <2>3, <2>4, <2>6 DEF LInv
<1>4. CASE ~IsRunning
  <2>1. handle' = NoTask /\ cancelled' = {} /\ AfterStop(emergency, {})
    BY <1>1, <1>4 DEF StopRequested
  <2> QED  BY <1>1, <1>4, <2>1, ForgetsTheLoop
<1> QED  BY <1>3, <1>4

\* A returning stop either found no loop that goes on, or has lost one.
LEMMA StopReturnsKeepsLInv ==
  ASSUME LInv, LoopInv', StopReturns
  PROVE  LInv'
<1> DEFINE lost == IF IsRunning THEN {"lost_loop"} ELSE {}
<1>1. /\ running = NoTask /\ cancelled = {}
      /\ UNCHANGED <<pc, cycle, running, cancelled>>
      /\ handle' = NoTask /\ AfterStop(stopper.emergency, lost)
  <2>1. cancelled = {}
    BY DEF StopReturns, LInv, LimitTyped, TasksSound
  <2> QED  BY <2>1 DEF StopReturns, NobodyRuns, taskVars
<1>2. IsRunning => "lost_loop" \in lost
  OBVIOUS
<1>3. ~IsRunning => "lost_loop" \notin lost
  OBVIOUS
<1> HIDE DEF lost
<1> QED  BY <1>1, <1>2, <1>3, ForgetsTheLoop

LEMMA FlattenKeepsLInv ==
  ASSUME LInv, LoopInv', NEW symbol \in Symbols,
         FlattenSkips(symbol) \/ \E px \in Prices : FlattenAt(symbol, px)
  PROVE  LInv'
<1>1. /\ stopper.pc = "flattening"
      /\ UNCHANGED <<handle, cancelled, running, pc, cycle>>
      /\ FlattenOn(symbol, {}) \/ FlattenOn(symbol, {symbol})
  BY DEF FlattenSkips, FlattenAt, taskVars
<1>2. cancelled = {}
  BY <1>1 DEF LInv, LimitTyped, TasksSound
<1> QED  BY <1>1, <1>2, FlattenOnForgets, RequestStep DEF LInv

LEMMA OtherKeepsLInv ==
  ASSUME LInv, LoopInv',
         \/ \E symbol \in Symbols, side \in {"BUY", "SELL"}, px \in Prices :
              ManualOrder(symbol, side, px)
         \/ Tick
         \/ UNCHANGED autoVars
  PROVE  LInv'
<1>1. /\ UNCHANGED <<handle, running, cancelled, pc, cycle, stopper, tracked>>
      /\ "lost_loop" \in intrusions' <=> "lost_loop" \in intrusions
  <2>1. ASSUME NEW symbol, NEW side, NEW px, ManualOrder(symbol, side, px)
        PROVE  /\ UNCHANGED <<handle, running, cancelled, pc, cycle, stopper, tracked>>
               /\ "lost_loop" \in intrusions' <=> "lost_loop" \in intrusions
    BY <2>1 DEF ManualOrder, requestVars, taskVars
  <2>2. ASSUME Tick \/ UNCHANGED autoVars
        PROVE  UNCHANGED <<handle, running, cancelled, pc, cycle, stopper, tracked, intrusions>>
    BY <2>2 DEF Tick, autoVars, requestVars, taskVars, tradeVars, worldVars, historyVars
  <2> QED  BY <2>1, <2>2
<1> QED  BY <1>1, TrackedStays, RequestStep DEF LInv

-----------------------------------------------------------------------------
(***************************************************************************)
(* The theorem.                                                            *)
(***************************************************************************)
LEMMA TaskNextKeepsLInv ==
  ASSUME LInv, LoopInv', NEW t \in Tasks, TaskNext(t)
  PROVE  LInv'
<1>1. CASE LoopEnds(t)
  BY <1>1, LoopEndsKeepsLInv
<1>2. CASE BeginCycle(t)
  BY <1>2, BeginCycleKeepsLInv
<1>3. CASE Answered(t)
  BY <1>3, RecommendationArrivesKeepsLInv, QuoteKeepsKeepsLInv, QuoteExitsKeepsLInv,
     QuoteFailsKeepsLInv DEF Answered
<1>4. CASE Runs(t)
  BY <1>4, ForgetClosedKeepsLInv, AskQuoteKeepsLInv, EntryPassKeepsLInv, MaybeEnterKeepsLInv
     DEF Runs
<1>5. CASE CancelArrives(t)
  BY <1>5, CancelArrivesKeepsLInv
<1> QED  BY <1>1, <1>2, <1>3, <1>4, <1>5 DEF TaskNext

LEMMA InitLInv ==
  ASSUME AutoInit
  PROVE  LInv
<1>1. LoopInv
  BY InitLoopInv
<1>2. LimitTyped
  <2>1. cycle = [u \in Tasks |-> cycle[u]] /\ \A u \in Tasks : cycle[u] = NoCycle
    BY DEF AutoInit
  <2>2. DOMAIN NoCycle = CycleFields
    BY DEF CycleFields, NoCycle
  <2>3. \A u \in Tasks : DOMAIN cycle[u] = CycleFields
    BY <2>1, <2>2
  <2>4. tracked = [symbol \in Symbols |-> tracked[symbol]]
    BY DEF AutoInit
  <2> QED  BY <2>1, <2>3, <2>4 DEF AutoInit, LimitTyped
<1>3. TasksSound /\ OneLoop
  BY AutoTradingAssumption DEF AutoInit, TasksSound, OneLoop, Alive
<1>4. RoomSound
  <2>1. TrackedSymbols = {}
    BY DEF AutoInit, TrackedSymbols, IsTracked
  <2>2. Cardinality(TrackedSymbols) <= MaxOpenPositions
    BY <2>1, FS_EmptySet, AutoRiskAssumption
  <2> QED  BY <2>2 DEF AutoInit, RoomSound, Exiting
<1> QED  BY <1>1, <1>2, <1>3, <1>4 DEF LInv

LEMMA NextLInv ==
  ASSUME LInv, [AutoNext]_autoVars
  PROVE  LInv'
<1>1. LoopInv'
  BY NextKeepsLoopInv DEF LInv
<1> QED  BY <1>1, TaskNextKeepsLInv, StartKeepsLInv, StopRequestedKeepsLInv,
            StopReturnsKeepsLInv, FlattenKeepsLInv, OtherKeepsLInv DEF AutoNext, StopNext

\* OpenPositionsWithinLimit, for any number of symbols, loop tasks, requests and
\* manual orders: unless a stop has lost a loop, no more positions are tracked
\* than max_open_positions allows, whatever is stored after an await.
THEOREM OpenPositionsStayWithinLimit == AutoSpec => []OpenPositionsWithinLimit
<1>1. AutoInit => LInv
  BY InitLInv
<1>2. LInv /\ [AutoNext]_autoVars => LInv'
  BY NextLInv
<1>3. LInv => OpenPositionsWithinLimit
  <2>1. "lost_loop" \in intrusions => intrusions \cap {"lost_loop"} # {}
    OBVIOUS
  <2> QED  BY <2>1 DEF LInv, RoomSound, Lost, OpenPositionsWithinLimit, Undisturbed
<1> QED  BY <1>1, <1>2, <1>3, PTL DEF AutoSpec

-----------------------------------------------------------------------------
(***************************************************************************)
(* Types.                                                                  *)
(***************************************************************************)
Trades == {"BUY", "SELL"}

Unit == [entry : Nat, side : Trades, price : Nat]

Position == [side : Trades, quantity : Nat \ {0}, entry_price : Nat, best_price : Nat,
             stop_loss : Nat, target : Nat]

CycleType ==
    [now : Nat, todo : SUBSET Symbols, at : SUBSET Symbols, exited : SUBSET Symbols,
     signals : [Symbols -> Signals \cup {NoSignal}],
     snapshot : [Symbols -> Position \cup {Untracked}]]

\* The queues of units are on one side each, and of positions.
AccountSound ==
    /\ cash \in Int
    /\ lots \in [Symbols -> Seq(Unit)]
    /\ \A symbol \in Symbols : SameSide(lots[symbol])

TradingTyped ==
    /\ tracked \in [Symbols -> Position \cup {Untracked}]
    /\ cycle \in [Tasks -> CycleType]
    /\ DOMAIN risk = DOMAIN FreshRisk
    /\ risk.cooldown_until \in Nat
    /\ clock \in Nat
    /\ manual \in Nat

\* What a stop request has listed it can close.
StopTyped ==
    /\ stopper.emergency \in BOOLEAN
    /\ stopper.todo \subseteq Symbols
    /\ stopper.quantities \in [Symbols -> Int]
    /\ \A symbol \in stopper.todo : stopper.quantities[symbol] # 0

\* Where a task is says what its cycle has still to visit.
PassFits(place, c) ==
    /\ place \in {"signals", "exits"} => c.at = {}
    /\ place = "quote" => \E symbol \in Symbols \ c.todo : c.at = {symbol}
    /\ place \in Exiting =>
         \A symbol \in c.todo \cup c.at : c.snapshot[symbol] # Untracked
    /\ place = "entries" =>
         \A symbol \in c.todo : c.signals[symbol] # NoSignal /\ symbol \notin c.exited

PassTyped ==
    /\ \A t \in Tasks : pc[t] \in {"exits", "entries"} => running = t
    /\ \A t \in Tasks : PassFits(pc[t], cycle[t])

Typed ==
    /\ AccountSound
    /\ TradingTyped
    /\ StopTyped
    /\ PassTyped

-----------------------------------------------------------------------------
LEMMA NetIsQuantity ==
  ASSUME AccountSound, NEW symbol \in Symbols
  PROVE  /\ NetQuantity(symbol) = NetOf(lots[symbol])
         /\ NetQuantity(symbol) \in Int
         /\ NetQuantity(symbol) # 0 <=> IsOpen(symbol)
<1>1. lots[symbol] \in Seq(Unit)
  BY DEF AccountSound
<1>2. Len(lots[symbol]) \in Nat
  BY <1>1
<1>3. NetQuantity(symbol) = NetOf(lots[symbol])
  <2> DEFINE m == Len(lots[symbol])
  <2>1. m \in Nat /\ 1 * m = m /\ (-1) * m = -m
    BY <1>2
  <2> HIDE DEF m
  <2>2. /\ NetQuantity(symbol) = IF lots[symbol] = <<>> THEN 0
                               ELSE Sign(lots[symbol][1].side) * m
        /\ NetOf(lots[symbol]) = IF lots[symbol] = <<>> THEN 0
                               ELSE IF lots[symbol][1].side = "BUY" THEN m ELSE -m
    BY DEF NetQuantity, NetOf, m
  <2> QED  BY <2>1, <2>2 DEF Sign
<1> QED  BY <1>1, <1>3, NetZero DEF IsOpen

\* What an order leaves of the account.
LEMMA OrderFills ==
  ASSUME AccountSound, NEW symbol \in Symbols, NEW side \in Trades, NEW n \in Nat \ {0},
         NEW px \in Nat, FillOrder(symbol, side, n, px)
  PROVE  /\ AccountSound'
         /\ NetOf(lots'[symbol]) = NetOf(lots[symbol]) + (IF side = "BUY" THEN n ELSE -n)
         /\ \A s \in Symbols \ {symbol} : lots'[s] = lots[s]
<1> DEFINE q == lots[symbol]
           u == [entry |-> 0, side |-> side, price |-> px]
           c == TakenFrom(q, u.side, n)
           now == SubSeq(q, c + 1, Len(q)) \o [i \in 1..(n - c) |-> u]
<1>1. q \in Seq(Unit) /\ SameSide(q)
  BY DEF AccountSound
<1>2. u \in Unit /\ u.side = side
  BY DEF Unit
<1>3. \A v \in Unit : v.side \in {"BUY", "SELL"}
  BY DEF Unit, Trades
<1>4. lots' = [lots EXCEPT ![symbol] = now]
  BY DEF FillOrder, Kept, Opened, CloseCount, TakenFrom
<1>5. cash' \in Int
  <2>1. cash' = cash - Sign(side) * n * px /\ cash \in Int
    BY DEF FillOrder, AccountSound
  <2> QED  BY <2>1 DEF Sign
<1> HIDE DEF q, u
<1>6. /\ now \in Seq(Unit) /\ SameSide(now)
      /\ NetOf(now) = NetOf(q) + (IF u.side = "BUY" THEN n ELSE -n)
  <2>1. /\ \A v \in Unit : v.side \in {"BUY", "SELL"}
        /\ q \in Seq(Unit) /\ SameSide(q) /\ u \in Unit /\ n \in Nat \ {0}
        /\ c = TakenFrom(q, u.side, n)
    BY <1>1, <1>2, <1>3
  <2> HIDE DEF c
  <2> QED  BY ONLY <2>1, FillOfQueue
<1> HIDE DEF now
<1>7. lots'[symbol] = now /\ \A s \in Symbols \ {symbol} : lots'[s] = lots[s]
  BY <1>4 DEF AccountSound
<1>8. lots' \in [Symbols -> Seq(Unit)]
  BY <1>4, <1>6 DEF AccountSound
<1> QED  BY <1>2, <1>5, <1>6, <1>7, <1>8 DEF AccountSound, q

-----------------------------------------------------------------------------
(***************************************************************************)
(* What is tracked and what is held.                                       *)
(***************************************************************************)
Calm == Undisturbed(Intruders)

\* A task that has not been told to stop.
GoesOn(t) == Alive(t) /\ t \notin cancelled

InCycle == {"signals", "exits", "quote", "entries"}

\* What a cycle c that is at a place of its task relies on: what it has still
\* to visit in the exit pass is what it has listed, or is not tracked at all
\* any more; at square-off time no long position is behind it; the cooldown
\* ends within its length of the time the cycle began.  Nobody but the cycle
\* forgets what it has listed while nothing intrudes, and what it has
\* forgotten it has exited.
PassSound(place, c) ==
    /\ place \in Exiting =>
         \A symbol \in c.todo \cup c.at :
           IsTracked(symbol) => tracked[symbol] = c.snapshot[symbol]
    /\ place \in Exiting /\ IsSquareOffTime(c.now) =>
         \A symbol \in TrackedSymbols :
           tracked[symbol].side = "BUY" => symbol \in c.todo \cup c.at
    /\ place \in InCycle =>
         /\ c.now <= clock
         /\ risk.cooldown_until <= c.now + CooldownTicks
    /\ Calm /\ place \in Exiting => \A symbol \in c.todo \cup c.at : IsTracked(symbol)
    /\ intrusions = {} /\ place \in {"exits", "quote", "entries"} =>
         \A symbol \in Symbols :
           c.snapshot[symbol] # Untracked => symbol \in c.exited \/ IsTracked(symbol)

\* While positions are being closed by a stop request no loop is known, and
\* what it has still to close it has listed as it is.
ListedIsHeld ==
    /\ handle = NoTask
    /\ \A symbol \in stopper.todo :
         IsOpen(symbol) /\ stopper.quantities[symbol] = NetOf(lots[symbol])

TrackedToTheUnit ==
    \A symbol \in TrackedSymbols :
      NetOf(lots[symbol]) =
        IF tracked[symbol].side = "BUY" THEN tracked[symbol].quantity
        ELSE -tracked[symbol].quantity

BooksHeld == IF stopper.pc = "flattening" THEN ListedIsHeld ELSE TrackedToTheUnit

AllHeldTracked == \A symbol \in Symbols : IsOpen(symbol) => IsTracked(symbol)

CooldownBound == risk.cooldown_until <= clock + CooldownTicks

HeldInv ==
    ~Lost =>
      /\ \A t \in Tasks : GoesOn(t) => PassSound(pc[t], cycle[t])
      /\ CooldownBound
      /\ Calm => BooksHeld
      /\ intrusions = {} => AllHeldTracked

AutoInv == LInv /\ Typed /\ HeldInv

-----------------------------------------------------------------------------
\* Unless a loop has been lost, a step of a task that goes on is about no other.
LEMMA OnlyOneGoesOn ==
  ASSUME LInv, ~Lost, NEW t \in Tasks, GoesOn(t), NEW u \in Tasks, GoesOn(u)
  PROVE  u = t
BY DEF LInv, OneLoop, GoesOn

\* A task that goes on moves to a place with a cycle.
LEMMA MovesKeepHeld ==
  ASSUME AutoInv, NEW t \in Tasks, GoesOn(t), NEW place,
         pc' = [pc EXCEPT ![t] = place],
         NEW c, cycle' = [cycle EXCEPT ![t] = c],
         UNCHANGED <<cancelled, intrusions>>,
         ~Lost => /\ PassSound(place, c)'
                  /\ CooldownBound'
                  /\ Calm => BooksHeld'
                  /\ intrusions = {} => AllHeldTracked'
  PROVE  HeldInv'
<1> SUFFICES ASSUME ~Lost' PROVE /\ \A u \in Tasks : GoesOn(u)' => PassSound(pc[u], cycle[u])'
                                 /\ CooldownBound'
                                 /\ Calm' => BooksHeld'
                                 /\ intrusions' = {} => AllHeldTracked'
  BY DEF HeldInv
<1>1. ~Lost /\ (Calm' <=> Calm)
  BY DEF Lost, Calm, Undisturbed
<1>2. ASSUME NEW u \in Tasks, GoesOn(u)'
      PROVE  PassSound(pc[u], cycle[u])'
  <2>1. u = t
    <3> SUFFICES ASSUME u # t PROVE FALSE
      OBVIOUS
    <3>1. pc'[u] = pc[u]
      BY DEF AutoInv, LInv, LoopInv
    <3>2. GoesOn(u)
      BY <1>2, <3>1 DEF GoesOn, Alive
    <3> QED  BY <1>1, <3>2, OnlyOneGoesOn DEF AutoInv
  <2>2. pc'[t] = place /\ cycle'[t] = c
    BY DEF AutoInv, LInv, LoopInv, Typed, TradingTyped
  <2> QED  BY <1>1, <2>1, <2>2 DEF PassSound
<1> QED  BY <1>1, <1>2

\* The same when what is held, tracked and remembered of the risk stays.
LEMMA QuietMovesKeepHeld ==
  ASSUME AutoInv, NEW t \in Tasks, GoesOn(t), NEW place,
         pc' = [pc EXCEPT ![t] = place],
         NEW c, cycle' = [cycle EXCEPT ![t] = c],
         UNCHANGED <<cancelled, intrusions, handle, stopper, tracked, lots, risk, clock>>,
         ~Lost => PassSound(place, c)
  PROVE  HeldInv'
<1>1. ASSUME ~Lost
      PROVE  /\ PassSound(place, c)'
             /\ CooldownBound'
             /\ Calm => BooksHeld'
             /\ intrusions = {} => AllHeldTracked'
  <2>1. PassSound(place, c)'
    BY <1>1 DEF PassSound, IsTracked, TrackedSymbols, Calm, Undisturbed
  <2>2. CooldownBound'
    BY <1>1 DEF CooldownBound, AutoInv, HeldInv
  <2>3. Calm => BooksHeld'
    BY <1>1 DEF BooksHeld, ListedIsHeld, TrackedToTheUnit, TrackedSymbols, IsTracked, IsOpen,
                AutoInv, HeldInv
  <2>4. intrusions = {} => AllHeldTracked'
    BY <1>1 DEF AllHeldTracked, IsTracked, IsOpen, AutoInv, HeldInv
  <2> QED  BY <2>1, <2>2, <2>3, <2>4
<1> QED  BY <1>1, MovesKeepHeld

\* What is tracked and remembered of the risk has its type.
TrackingTyped ==
    /\ tracked \in [Symbols -> Position \cup {Untracked}]
    /\ DOMAIN risk = DOMAIN FreshRisk
    /\ risk.cooldown_until \in Nat

\* The types, after such a move.
LEMMA MovesKeepTyped ==
  ASSUME AutoInv, NEW t \in Tasks, NEW place,
         pc' = [pc EXCEPT ![t] = place],
         NEW c \in CycleType, cycle' = [cycle EXCEPT ![t] = c],
         PassFits(place, c),
         running \in {NoTask, t},
         place \in {"exits", "entries"} => running' = t,
         UNCHANGED <<stopper, clock, manual>>,
         AccountSound', TrackingTyped'
  PROVE  Typed'
<1>1. \A u \in Tasks : /\ pc'[u] = IF u = t THEN place ELSE pc[u]
                       /\ cycle'[u] = IF u = t THEN c ELSE cycle[u]
  BY DEF AutoInv, LInv, LoopInv, Typed, TradingTyped
<1>2. cycle' \in [Tasks -> CycleType]
  BY DEF AutoInv, Typed, TradingTyped
<1>3. TradingTyped' /\ StopTyped'
  BY <1>2 DEF AutoInv, Typed, TradingTyped, StopTyped, TrackingTyped
<1>4. ASSUME NEW u \in Tasks, pc'[u] \in {"exits", "entries"}
      PROVE  running' = u
  <2>1. CASE u = t
    BY <1>1, <1>4, <2>1
  <2>2. CASE u # t
    <3>1. running = u
      BY <1>1, <1>4, <2>2 DEF AutoInv, Typed, PassTyped
    <3> QED  BY <2>2, <3>1, AutoTradingAssumption
  <2> QED  BY <2>1, <2>2
<1>5. ASSUME NEW u \in Tasks
      PROVE  PassFits(pc'[u], cycle'[u])
  BY <1>1 DEF AutoInv, Typed, PassTyped
<1> QED  BY <1>3, <1>4, <1>5 DEF Typed, PassTyped, PassFits

\* A task that goes on, with the account, what is tracked and the risk as they were.
LEMMA QuietMoves ==
  ASSUME AutoInv, NEW t \in Tasks, GoesOn(t), NEW place,
         pc' = [pc EXCEPT ![t] = place],
         NEW c \in CycleType, cycle' = [cycle EXCEPT ![t] = c],
         PassFits(place, c),
         running \in {NoTask, t},
         place \in {"exits", "entries"} => running' = t,
         UNCHANGED <<cancelled, intrusions, handle, stopper, tracked, cash, lots, risk, clock,
                     manual>>,
         ~Lost => PassSound(place, c)
  PROVE  Typed' /\ HeldInv'
<1>1. AccountSound' /\ TrackingTyped'
  BY DEF AutoInv, Typed, AccountSound, TradingTyped, TrackingTyped
<1>2. Typed'
  BY <1>1, MovesKeepTyped
<1> QED  BY <1>2, QuietMovesKeepHeld

\* What the invariant says of the one task that a step is about.
LEMMA TaskFacts ==
  ASSUME AutoInv, NEW t \in Tasks
  PROVE  /\ cycle[t] \in CycleType
         /\ PassFits(pc[t], cycle[t])
         /\ running = t => GoesOn(t)
         /\ ~Lost /\ GoesOn(t) => PassSound(pc[t], cycle[t])
<1>1. running = t => GoesOn(t)
  BY RunningIsAlive DEF AutoInv, GoesOn
<1> QED  BY <1>1 DEF AutoInv, Typed, TradingTyped, PassTyped, HeldInv

LEMMA ResumesFacts ==
  ASSUME AutoInv, NEW t \in Tasks, NEW place \in {"waiting", "signals", "quote"},
         Resumes(t, place)
  PROVE  GoesOn(t) /\ pc[t] = place /\ running = NoTask
BY DEF Resumes, GoesOn, Alive, NobodyRuns

-----------------------------------------------------------------------------
(***************************************************************************)
(* The steps of a task.                                                    *)
(***************************************************************************)
LEMMA LoopEndsKeepsHeld ==
  ASSUME AutoInv, NEW t \in Tasks, LoopEnds(t)
  PROVE  Typed' /\ HeldInv'
<1>1. /\ GoesOn(t) /\ running = NoTask
      /\ pc' = [pc EXCEPT ![t] = "done"] /\ cycle' = cycle
      /\ UNCHANGED <<cancelled, intrusions, handle, stopper, tracked, cash, lots, risk, clock,
                     manual>>
  BY ResumesFacts
     DEF LoopEnds, requestVars, tradeVars, accountVars, worldVars, historyVars
<1>2. cycle[t] \in CycleType /\ cycle' = [cycle EXCEPT ![t] = cycle[t]]
  BY <1>1, TaskFacts DEF AutoInv, Typed, TradingTyped
<1>3. PassFits("done", cycle[t]) /\ PassSound("done", cycle[t])
  BY DEF PassFits, PassSound, Exiting, InCycle
<1> QED  BY <1>1, <1>2, <1>3, QuietMoves

LEMMA BeginCycleKeepsHeld ==
  ASSUME AutoInv, NEW t \in Tasks, BeginCycle(t)
  PROVE  Typed' /\ HeldInv'
<1> PICK c : c = [NoCycle EXCEPT !.now = clock, !.todo = Symbols]
  OBVIOUS
<1>1. /\ GoesOn(t) /\ running = NoTask
      /\ pc' = [pc EXCEPT ![t] = "signals"] /\ cycle' = [cycle EXCEPT ![t] = c]
      /\ UNCHANGED <<cancelled, intrusions, handle, stopper, tracked, cash, lots, risk, clock,
                     manual>>
  BY ResumesFacts
     DEF BeginCycle, requestVars, tradeVars, accountVars, worldVars, historyVars
<1>2. clock \in Nat
  BY DEF AutoInv, Typed, TradingTyped
<1>3. c \in CycleType /\ c.now = clock /\ c.at = {}
  BY <1>2 DEF CycleType, NoCycle
<1>4. PassFits("signals", c)
  BY <1>3 DEF PassFits, Exiting
<1>5. ~Lost => PassSound("signals", c)
  BY <1>2, <1>3 DEF PassSound, Exiting, InCycle, AutoInv, HeldInv, CooldownBound
<1> QED  BY ONLY AutoInv, t \in Tasks, <1>1, <1>3, <1>4, <1>5, QuietMoves

LEMMA RecommendationArrivesKeepsHeld ==
  ASSUME AutoInv, NEW t \in Tasks, NEW symbol \in Symbols,
         NEW signal \in Signals \cup {NoSignal}, RecommendationArrives(t, symbol, signal)
  PROVE  Typed' /\ HeldInv'
<1> PICK heard : heard = [cycle[t] EXCEPT !.todo = cycle[t].todo \ {symbol},
                                          !.signals[symbol] = signal]
  OBVIOUS
<1> PICK c : c = [heard EXCEPT !.todo = TrackedSymbols, !.snapshot = tracked]
  OBVIOUS
<1>1. /\ GoesOn(t) /\ pc[t] = "signals" /\ running = NoTask
      /\ UNCHANGED <<cancelled, intrusions, handle, stopper, tracked, cash, lots, risk, clock,
                     manual>>
      /\ \/ cycle' = [cycle EXCEPT ![t] = heard] /\ pc' = pc
         \/ /\ cycle' = [cycle EXCEPT ![t] = c]
            /\ pc' = [pc EXCEPT ![t] = "exits"] /\ running' = t
  BY ResumesFacts
     DEF RecommendationArrives, requestVars, tradeVars, accountVars, worldVars, historyVars
<1>2. /\ cycle[t] \in CycleType /\ PassFits("signals", cycle[t])
      /\ ~Lost => PassSound("signals", cycle[t])
  BY <1>1, TaskFacts
<1>3. heard \in CycleType /\ heard.now = cycle[t].now /\ heard.at = cycle[t].at
  BY <1>2 DEF CycleType
<1>4. cycle[t].at = {}
  BY <1>2 DEF PassFits
<1>5. tracked \in [Symbols -> Position \cup {Untracked}] /\ TrackedSymbols \subseteq Symbols
  BY DEF AutoInv, Typed, TradingTyped, TrackedSymbols
<1>6. /\ c \in CycleType /\ c.now = heard.now /\ c.at = {} /\ c.todo = TrackedSymbols
      /\ c.snapshot = tracked
  BY <1>3, <1>4, <1>5 DEF CycleType
<1>7. CASE cycle' = [cycle EXCEPT ![t] = heard] /\ pc' = pc
  <2>1. pc' = [pc EXCEPT ![t] = "signals"]
    BY <1>1, <1>7 DEF AutoInv, LInv, LoopInv
  <2>2. PassFits("signals", heard)
    BY <1>3, <1>4 DEF PassFits, Exiting
  <2>3. ~Lost => PassSound("signals", heard)
    BY <1>2, <1>3 DEF PassSound, Exiting, InCycle
  <2> QED  BY <1>1, <1>3, <1>7, <2>1, <2>2, <2>3, QuietMoves
<1>8. CASE /\ cycle' = [cycle EXCEPT ![t] = c]
           /\ pc' = [pc EXCEPT ![t] = "exits"] /\ running' = t
  <2>1. PassFits("exits", c)
    BY <1>6 DEF PassFits, Exiting, TrackedSymbols, IsTracked
  <2>2. ~Lost => PassSound("exits", c)
    BY <1>2, <1>3, <1>6 DEF PassSound, Exiting, InCycle, TrackedSymbols, IsTracked
  <2> QED  BY <1>1, <1>6, <1>8, <2>1, <2>2, QuietMoves
<1> QED  BY <1>1, <1>7, <1>8

\* A task that goes on finds what is tracked to be what is held.
LEMMA BooksWhileGoing ==
  ASSUME AutoInv, NEW t \in Tasks, GoesOn(t), ~Lost, Calm
  PROVE  stopper.pc # "flattening" /\ TrackedToTheUnit
<1>1. t = handle
  BY DEF AutoInv, LInv, OneLoop, GoesOn
<1>2. handle # NoTask
  BY <1>1, AutoTradingAssumption
<1> QED  BY <1>2 DEF AutoInv, HeldInv, BooksHeld, ListedIsHeld

\* A cycle that ends leaves nothing to be sound.
LEMMA CycleOverKeeps ==
  ASSUME AutoInv, NEW t \in Tasks, GoesOn(t), CycleOver(t), running \in {NoTask, t},
         UNCHANGED <<cancelled, intrusions, handle, stopper, tracked, risk, clock, manual>>,
         AccountSound',
         ~Lost /\ Calm => UNCHANGED lots
  PROVE  Typed' /\ HeldInv'
<1> PICK c : c = NoCycle
  OBVIOUS
<1>1. /\ pc' = [pc EXCEPT ![t] = "waiting"] /\ cycle' = [cycle EXCEPT ![t] = c]
  BY DEF CycleOver
<1>2. c \in CycleType
  BY DEF CycleType, NoCycle
<1>3. PassFits("waiting", c) /\ PassSound("waiting", c)'
  BY DEF PassFits, PassSound, Exiting, InCycle
<1>4. TrackingTyped'
  BY DEF AutoInv, Typed, TradingTyped, TrackingTyped
<1>5. Typed'
  BY <1>1, <1>2, <1>3, <1>4, MovesKeepTyped
<1>6. ~Lost => /\ CooldownBound'
               /\ Calm => BooksHeld'
               /\ intrusions = {} => AllHeldTracked'
  BY DEF AutoInv, HeldInv, CooldownBound, BooksHeld, ListedIsHeld, TrackedToTheUnit,
         TrackedSymbols, IsTracked, IsOpen, AllHeldTracked, Calm, Undisturbed
<1>7. HeldInv'
  BY <1>1, <1>3, <1>6, MovesKeepHeld
<1> QED  BY <1>5, <1>7

LEMMA QuoteFailsKeepsHeld ==
  ASSUME AutoInv, NEW t \in Tasks, QuoteFails(t)
  PROVE  Typed' /\ HeldInv'
<1>1. /\ GoesOn(t) /\ running = NoTask /\ CycleOver(t)
      /\ UNCHANGED <<cancelled, intrusions, handle, stopper, tracked, cash, lots, risk, clock,
                     manual>>
  BY ResumesFacts
     DEF QuoteFails, requestVars, tradeVars, accountVars, worldVars, historyVars
<1>2. AccountSound'
  BY <1>1 DEF AutoInv, Typed, AccountSound
<1> QED  BY <1>1, <1>2, CycleOverKeeps

LEMMA EndCycleKeepsHeld ==
  ASSUME AutoInv, NEW t \in Tasks, EndCycle(t)
  PROVE  Typed' /\ HeldInv'
<1>1. /\ running = t /\ CycleOver(t)
      /\ UNCHANGED <<cancelled, intrusions, handle, stopper, tracked, cash, lots, risk, clock,
                     manual>>
  BY DEF EndCycle, requestVars, tradeVars, accountVars, worldVars, historyVars
<1>2. AccountSound'
  BY <1>1 DEF AutoInv, Typed, AccountSound
<1>3. GoesOn(t)
  BY <1>1, TaskFacts
<1> QED  BY <1>1, <1>2, <1>3, CycleOverKeeps

LEMMA AskQuoteKeepsHeld ==
  ASSUME AutoInv, NEW t \in Tasks, NEW symbol \in Symbols, AskQuote(t, symbol)
  PROVE  Typed' /\ HeldInv'
<1> PICK c : c = [cycle[t] EXCEPT !.todo = cycle[t].todo \ {symbol}, !.at = {symbol}]
  OBVIOUS
<1>1. /\ running = t /\ pc[t] = "exits" /\ symbol \in cycle[t].todo
      /\ pc' = [pc EXCEPT ![t] = "quote"]
      /\ cycle' = [cycle EXCEPT ![t].todo = @ \ {symbol}, ![t].at = {symbol}]
      /\ UNCHANGED <<cancelled, intrusions, handle, stopper, tracked, cash, lots, risk, clock,
                     manual>>
  BY DEF AskQuote, requestVars, tradeVars, accountVars, worldVars, historyVars
<1>2. /\ cycle[t] \in CycleType /\ PassFits("exits", cycle[t]) /\ GoesOn(t)
      /\ ~Lost => PassSound("exits", cycle[t])
  BY <1>1, TaskFacts
<1>3. cycle' = [cycle EXCEPT ![t] = c]
  BY <1>1 DEF AutoInv, Typed, TradingTyped
<1>4. /\ c \in CycleType /\ c.now = cycle[t].now /\ c.todo = cycle[t].todo \ {symbol}
      /\ c.at = {symbol} /\ c.snapshot = cycle[t].snapshot /\ c.exited = cycle[t].exited
  BY <1>2 DEF CycleType
<1>5. c.todo \cup c.at = cycle[t].todo \cup cycle[t].at
  BY <1>1, <1>2, <1>4 DEF PassFits
<1>6. PassFits("quote", c)
  <2>1. \A s \in c.todo \cup c.at : c.snapshot[s] # Untracked
    BY <1>2, <1>4, <1>5 DEF PassFits, Exiting
  <2> QED  BY <1>4, <2>1 DEF PassFits
<1>7. ~Lost => PassSound("quote", c)
  <2> SUFFICES ASSUME ~Lost PROVE PassSound("quote", c)
    OBVIOUS
  <2>1. PassSound("exits", cycle[t])
    BY <1>2
  <2> QED  BY <2>1, <1>4, <1>5 DEF PassSound, Exiting, InCycle
<1> QED  BY ONLY AutoInv, t \in Tasks, <1>1, <1>2, <1>3, <1>4, <1>6, <1>7, QuietMoves

LEMMA EntryPassKeepsHeld ==
  ASSUME AutoInv, NEW t \in Tasks,
         BeginEntries(t) \/ \E symbol \in Symbols : PassOver(t, symbol)
  PROVE  Typed' /\ HeldInv'
<1>1. PICK todo \in SUBSET Symbols :
        /\ cycle' = [cycle EXCEPT ![t].todo = todo]
        /\ \/ pc[t] = "entries" /\ todo \subseteq cycle[t].todo
           \/ /\ pc[t] = "exits"
              /\ \A s \in todo : cycle[t].signals[s] # NoSignal /\ s \notin cycle[t].exited
  <2>1. cycle[t] \in CycleType
    BY TaskFacts
  <2>2. CASE BeginEntries(t)
    <3>1. {s \in Symbols : cycle[t].signals[s] # NoSignal} \ cycle[t].exited \in SUBSET Symbols
      OBVIOUS
    <3> QED  BY <2>2, <3>1 DEF BeginEntries
  <2>3. ASSUME NEW symbol \in Symbols, PassOver(t, symbol)
        PROVE  /\ cycle[t].todo \ {symbol} \in SUBSET Symbols
               /\ cycle' = [cycle EXCEPT ![t].todo = cycle[t].todo \ {symbol}]
               /\ pc[t] = "entries"
    BY <2>1, <2>3 DEF PassOver, CycleType, AutoInv, Typed, TradingTyped
  <2> QED  BY <2>2, <2>3
<1> PICK c : c = [cycle[t] EXCEPT !.todo = todo]
  OBVIOUS
<1>2. /\ running = t /\ running' = t /\ pc[t] \in {"exits", "entries"}
      /\ pc' = [pc EXCEPT ![t] = "entries"]
      /\ UNCHANGED <<cancelled, intrusions, handle, stopper, tracked, cash, lots, risk, clock,
                     manual>>
  BY DEF BeginEntries, PassOver, requestVars, tradeVars, accountVars, worldVars, historyVars,
         AutoInv, LInv, LoopInv
<1>3. /\ cycle[t] \in CycleType /\ PassFits(pc[t], cycle[t]) /\ GoesOn(t)
      /\ ~Lost => PassSound(pc[t], cycle[t])
  BY <1>2, TaskFacts
<1>4. cycle' = [cycle EXCEPT ![t] = c]
  BY <1>1 DEF AutoInv, Typed, TradingTyped
<1>5. /\ c \in CycleType /\ c.now = cycle[t].now /\ c.todo = todo
      /\ c.snapshot = cycle[t].snapshot /\ c.exited = cycle[t].exited
      /\ c.signals = cycle[t].signals
  BY <1>3 DEF CycleType
<1>6. PassFits("entries", c)
  <2>1. \A s \in todo : cycle[t].signals[s] # NoSignal /\ s \notin cycle[t].exited
    BY <1>1, <1>3 DEF PassFits
  <2> QED  BY <1>5, <2>1 DEF PassFits, Exiting
<1>7. ~Lost => PassSound("entries", c)
  <2> SUFFICES ASSUME ~Lost PROVE PassSound("entries", c)
    OBVIOUS
  <2>1. PassSound(pc[t], cycle[t])
    BY <1>3
  <2> QED  BY <2>1, <1>2, <1>5 DEF PassSound, Exiting, InCycle
<1> QED  BY <1>2, <1>3, <1>4, <1>5, <1>6, <1>7, QuietMoves

\* What has been closed elsewhere is forgotten.  While the books are calm
\* nothing is.
LEMMA ForgetClosedKeepsHeld ==
  ASSUME AutoInv, NEW t \in Tasks, NEW symbol \in Symbols, ForgetClosed(t, symbol)
  PROVE  Typed' /\ HeldInv'
<1> PICK c : c = [cycle[t] EXCEPT !.todo = cycle[t].todo \ {symbol}]
  OBVIOUS
<1>1. /\ running = t /\ pc[t] = "exits" /\ symbol \in cycle[t].todo /\ ~IsOpen(symbol)
      /\ tracked' = [tracked EXCEPT ![symbol] = Untracked]
      /\ IF IsTracked(symbol)
         THEN /\ cycle' = [cycle EXCEPT ![t].todo = @ \ {symbol}]
              /\ UNCHANGED <<pc, running>>
         ELSE CycleOver(t)
      /\ UNCHANGED <<cancelled, intrusions, handle, stopper, cash, lots, risk, clock, manual>>
  BY DEF ForgetClosed, requestVars, accountVars, worldVars, historyVars
<1>2. /\ cycle[t] \in CycleType /\ PassFits("exits", cycle[t]) /\ GoesOn(t)
      /\ ~Lost => PassSound("exits", cycle[t])
  BY <1>1, TaskFacts
<1>3. tracked \in [Symbols -> Position \cup {Untracked}]
  BY DEF AutoInv, Typed, TradingTyped
<1>4. AccountSound'
  BY <1>1 DEF AutoInv, Typed, AccountSound
<1>5. CASE ~IsTracked(symbol)
  <2>1. tracked' = tracked /\ CycleOver(t)
    BY <1>1, <1>3, <1>5 DEF IsTracked
  <2> QED  BY <1>1, <1>2, <1>4, <2>1, CycleOverKeeps
<1>6. CASE IsTracked(symbol)
  <2>1. /\ cycle' = [cycle EXCEPT ![t] = c]
        /\ pc' = [pc EXCEPT ![t] = "exits"] /\ running' = t
    BY <1>1, <1>6 DEF AutoInv, LInv, LoopInv, Typed, TradingTyped
  <2>2. /\ c \in CycleType /\ c.now = cycle[t].now /\ c.todo = cycle[t].todo \ {symbol}
        /\ c.at = {} /\ c.snapshot = cycle[t].snapshot /\ c.exited = cycle[t].exited
    BY <1>2 DEF CycleType, PassFits
  <2>3. PassFits("exits", c)
    BY <1>2, <2>2 DEF PassFits, Exiting
  <2>4. TrackingTyped'
    BY <1>1, <1>3 DEF AutoInv, Typed, TradingTyped, TrackingTyped
  <2>5. Typed'
    BY ONLY AutoInv, t \in Tasks, <1>1, <1>4, <2>1, <2>2, <2>3, <2>4, MovesKeepTyped
  <2>6. ~Lost => ~Calm
    <3> SUFFICES ASSUME ~Lost, Calm PROVE FALSE
      OBVIOUS
    <3>1. TrackedToTheUnit
      BY <1>2, BooksWhileGoing
    <3>2. tracked[symbol] \in Position /\ symbol \in TrackedSymbols
      BY <1>3, <1>6 DEF IsTracked, TrackedSymbols
    <3>3. tracked[symbol].quantity \in Nat \ {0}
      BY <3>2 DEF Position
    <3>4. NetOf(lots[symbol]) # 0
      BY <3>1, <3>2, <3>3 DEF TrackedToTheUnit
    <3> QED  BY <1>1, <3>4 DEF IsOpen, NetOf
  <2>7. \A s \in Symbols : IsTracked(s)' => IsTracked(s) /\ s # symbol /\ tracked'[s] = tracked[s]
    BY <1>1, <1>3 DEF IsTracked
  <2>8. ~Lost => PassSound("exits", c)'
    <3> SUFFICES ASSUME ~Lost PROVE PassSound("exits", c)'
      OBVIOUS
    <3>1. PassSound("exits", cycle[t]) /\ ~Calm /\ ~Calm'
      BY <1>1, <1>2, <2>6 DEF Calm, Undisturbed
    <3>2. intrusions' # {}
      BY <3>1 DEF Calm, Undisturbed
    <3>3. \A s \in c.todo \cup c.at : s \in cycle[t].todo \cup cycle[t].at /\ s \in Symbols
      BY <1>2, <2>2 DEF CycleType
    <3>4. \A s \in c.todo \cup c.at : IsTracked(s)' => tracked'[s] = c.snapshot[s]
      BY <2>2, <2>7, <3>1, <3>3 DEF PassSound, Exiting
    <3>5. IsSquareOffTime(c.now) =>
            \A s \in TrackedSymbols' : tracked'[s].side = "BUY" => s \in c.todo \cup c.at
      BY <1>2, <2>2, <2>7, <3>1 DEF PassSound, Exiting, TrackedSymbols, PassFits
    <3>6. c.now <= clock' /\ risk'.cooldown_until <= c.now + CooldownTicks
      BY <1>1, <2>2, <3>1 DEF PassSound, InCycle
    <3> QED  BY <3>1, <3>2, <3>4, <3>5, <3>6 DEF PassSound, IsSquareOffTime
  <2>9. ~Lost => CooldownBound' /\ ~Calm' /\ intrusions' # {}
    BY <1>1, <2>6 DEF AutoInv, HeldInv, CooldownBound, Calm, Undisturbed
  <2>10. HeldInv'
    BY ONLY AutoInv, t \in Tasks, <1>1, <1>2, <2>1, <2>6, <2>8, <2>9, MovesKeepHeld
  <2> QED  BY <2>5, <2>10
<1> QED  BY <1>5, <1>6

\* Without an exit the position that was listed is stored again.  At
\* square-off time there is always an exit.
LEMMA QuoteKeepsKeepsHeld ==
  ASSUME AutoInv, NEW t \in Tasks, NEW symbol \in Symbols, NEW px \in Prices,
         QuoteKeeps(t, symbol, px)
  PROVE  Typed' /\ HeldInv'
<1> PICK c : c = [cycle[t] EXCEPT !.at = {}, !.exited = cycle[t].exited \cup {}]
  OBVIOUS
<1> PICK position : position = RatchetBestPrice(cycle[t].snapshot[symbol], px)
  OBVIOUS
<1>1. /\ GoesOn(t) /\ pc[t] = "quote" /\ running = NoTask /\ symbol \in cycle[t].at
      /\ ~IsSquareOffTime(cycle[t].now)
      /\ tracked' = [tracked EXCEPT ![symbol] = position]
      /\ MonitorOn(t, {})
      /\ UNCHANGED <<cancelled, intrusions, handle, stopper, cash, lots, risk, clock, manual>>
  BY ResumesFacts
     DEF QuoteKeeps, QuoteArrives, MustExit, requestVars, accountVars, worldVars, historyVars
<1>2. /\ cycle[t] \in CycleType /\ PassFits("quote", cycle[t])
      /\ ~Lost => PassSound("quote", cycle[t])
  BY <1>1, TaskFacts
<1>3. cycle[t].at = {symbol} /\ symbol \notin cycle[t].todo
      /\ cycle[t].snapshot[symbol] \in Position
  BY <1>1, <1>2 DEF PassFits, CycleType, Exiting
<1>4. /\ position \in Position
      /\ position.side = cycle[t].snapshot[symbol].side
      /\ position.quantity = cycle[t].snapshot[symbol].quantity
  <2>1. px \in Nat
    BY AutoTradingAssumption
  <2> QED  BY <1>3, <2>1 DEF RatchetBestPrice, Position
<1>5. position # Untracked
  BY <1>4 DEF Position, Untracked, Trades
<1>6. tracked \in [Symbols -> Position \cup {Untracked}]
  BY DEF AutoInv, Typed, TradingTyped
<1>7. /\ pc' = [pc EXCEPT ![t] = "exits"] /\ running' = t
      /\ cycle' = [cycle EXCEPT ![t] = c]
  BY <1>1, <1>2 DEF MonitorOn, AutoInv, Typed, TradingTyped, CycleType
<1>8. /\ c \in CycleType /\ c.now = cycle[t].now /\ c.todo = cycle[t].todo
      /\ c.at = {} /\ c.snapshot = cycle[t].snapshot /\ c.exited = cycle[t].exited
  BY <1>2 DEF CycleType
<1>9. PassFits("exits", c)
  BY <1>2, <1>8 DEF PassFits, Exiting
<1>10. AccountSound' /\ TrackingTyped'
  BY <1>1, <1>4, <1>6 DEF AutoInv, Typed, AccountSound, TradingTyped, TrackingTyped
<1>11. Typed'
  BY ONLY AutoInv, t \in Tasks, <1>1, <1>7, <1>8, <1>9, <1>10, MovesKeepTyped
<1>12. /\ tracked'[symbol] = position
       /\ \A s \in Symbols \ {symbol} : tracked'[s] = tracked[s]
  BY <1>1, <1>6
<1>13. \A s \in Symbols : IsTracked(s) => IsTracked(s)'
  BY <1>5, <1>12 DEF IsTracked
<1>14. ASSUME ~Lost
       PROVE  /\ PassSound("exits", c)'
              /\ CooldownBound'
              /\ Calm => BooksHeld'
              /\ intrusions = {} => AllHeldTracked'
  <2>1. PassSound("quote", cycle[t])
    BY <1>2, <1>14
  <2>2. \A s \in c.todo \cup c.at :
          s # symbol /\ s \in Symbols /\ s \in cycle[t].todo \cup cycle[t].at
    BY <1>2, <1>3, <1>8 DEF CycleType
  <2>3. \A s \in c.todo \cup c.at : IsTracked(s)' => tracked'[s] = c.snapshot[s]
    BY <1>8, <1>12, <2>1, <2>2 DEF PassSound, Exiting, IsTracked
  <2>4. Calm' => \A s \in c.todo \cup c.at : IsTracked(s)'
    BY <1>1, <1>13, <2>1, <2>2 DEF PassSound, Exiting, Calm, Undisturbed
  <2>5. /\ c.now <= clock' /\ risk'.cooldown_until <= c.now + CooldownTicks
        /\ intrusions' = {} => \A s \in Symbols :
             c.snapshot[s] # Untracked => s \in c.exited \/ IsTracked(s)'
    BY <1>1, <1>8, <1>13, <2>1 DEF PassSound, InCycle
  <2>6. PassSound("exits", c)'
    BY <1>1, <1>8, <2>3, <2>4, <2>5 DEF PassSound, IsSquareOffTime
  <2>7. CooldownBound'
    BY <1>1, <1>14 DEF AutoInv, HeldInv, CooldownBound
  <2>8. ASSUME Calm
        PROVE  BooksHeld'
    <3>1. stopper.pc # "flattening" /\ TrackedToTheUnit
      BY <1>1, <1>14, <2>8, BooksWhileGoing
    <3>2. IsTracked(symbol) /\ tracked[symbol] = cycle[t].snapshot[symbol]
      BY <1>3, <2>1, <2>8 DEF PassSound, Exiting
    <3>3. NetOf(lots[symbol]) =
            IF position.side = "BUY" THEN position.quantity ELSE -position.quantity
      BY <1>4, <3>1, <3>2 DEF TrackedToTheUnit, TrackedSymbols
    <3>4. ASSUME NEW s \in TrackedSymbols'
          PROVE  NetOf(lots'[s]) = IF tracked'[s].side = "BUY" THEN tracked'[s].quantity
                                   ELSE -tracked'[s].quantity
      <4>1. CASE s = symbol
        BY <1>1, <1>12, <3>3, <4>1
      <4>2. CASE s # symbol
        BY <1>1, <1>12, <3>1, <4>2 DEF TrackedToTheUnit, TrackedSymbols, IsTracked
      <4> QED  BY <4>1, <4>2
    <3> QED  BY <1>1, <3>1, <3>4 DEF BooksHeld, TrackedToTheUnit
  <2>9. intrusions = {} => AllHeldTracked'
    BY <1>1, <1>13, <1>14 DEF AutoInv, HeldInv, AllHeldTracked, IsOpen
  <2> QED  BY <2>6, <2>7, <2>8, <2>9
<1>15. HeldInv'
  BY ONLY AutoInv, t \in Tasks, <1>1, <1>7, <1>14, MovesKeepHeld
<1> QED  BY <1>11, <1>15

\* What the close of a trade leaves of the cooldown.
LEMMA CloseKeepsCooldown ==
  ASSUME DOMAIN risk = DOMAIN FreshRisk, risk.cooldown_until \in Nat, NEW pnl, NEW now \in Nat
  PROVE  /\ DOMAIN RecordTradeClosed(risk, pnl, now) = DOMAIN FreshRisk
         /\ RecordTradeClosed(risk, pnl, now).cooldown_until
              \in {risk.cooldown_until, now + CooldownTicks}
<1> PICK d : d = RollDay(risk, now)
  OBVIOUS
<1>1. DOMAIN d = DOMAIN FreshRisk /\ d.cooldown_until = risk.cooldown_until
  BY DEF RollDay, FreshRisk
<1> PICK r : r = [d EXCEPT !.daily_realized_pnl = @ + pnl]
  OBVIOUS
<1>2. DOMAIN r = DOMAIN FreshRisk /\ r.cooldown_until = risk.cooldown_until
  BY <1>1 DEF FreshRisk
<1>3. RecordTradeClosed(risk, pnl, now) =
        IF pnl >= 0 THEN [r EXCEPT !.consecutive_losses = 0]
        ELSE [r EXCEPT !.consecutive_losses = r.consecutive_losses + 1,
                       !.cooldown_until = IF r.consecutive_losses + 1 >= CooldownAfter
                                          THEN now + CooldownTicks ELSE @]
  BY DEF RecordTradeClosed
<1>4. CASE pnl >= 0
  BY <1>2, <1>3, <1>4 DEF FreshRisk
<1>5. CASE ~(pnl >= 0)
  BY <1>2, <1>3, <1>5 DEF FreshRisk
<1> QED  BY <1>4, <1>5

\* What an entry, or a refused one, leaves of it.
LEMMA OpenKeepsCooldown ==
  ASSUME DOMAIN risk = DOMAIN FreshRisk, risk.cooldown_until \in Nat, NEW now \in Nat
  PROVE  /\ DOMAIN RollDay(risk, now) = DOMAIN FreshRisk
         /\ RollDay(risk, now).cooldown_until = risk.cooldown_until
         /\ DOMAIN RecordTradeOpened(RollDay(risk, now), now) = DOMAIN FreshRisk
         /\ RecordTradeOpened(RollDay(risk, now), now).cooldown_until = risk.cooldown_until
<1> PICK d : d = RollDay(risk, now)
  OBVIOUS
<1>1. DOMAIN d = DOMAIN FreshRisk /\ d.cooldown_until = risk.cooldown_until
  BY DEF RollDay, FreshRisk
<1> PICK e : e = RollDay(d, now)
  OBVIOUS
<1>2. DOMAIN e = DOMAIN FreshRisk /\ e.cooldown_until = risk.cooldown_until
  BY <1>1 DEF RollDay, FreshRisk
<1>3. RecordTradeOpened(RollDay(risk, now), now) = [e EXCEPT !.trades_today = @ + 1]
  BY DEF RecordTradeOpened
<1> QED  BY <1>1, <1>2, <1>3 DEF FreshRisk

\* What a quote that asks for an exit comes to: the order is rejected, and
\* everything stays; it fills and the position is forgotten; or it fills and
\* the position has been forgotten before, which ends the cycle.
ExitRejected(t, symbol, px) ==
    /\ ~Filled(Opposite(cycle[t].snapshot[symbol].side), cycle[t].snapshot[symbol].quantity, px)
    /\ MonitorOn(t, {})
    /\ UNCHANGED <<tracked, risk, cash, lots>>

ExitFills(t, symbol, px) ==
    /\ FillOrder(symbol, Opposite(cycle[t].snapshot[symbol].side),
                 cycle[t].snapshot[symbol].quantity, px)
    /\ tracked' = [tracked EXCEPT ![symbol] = Untracked]

LEMMA ExitSteps ==
  ASSUME AutoInv, NEW t \in Tasks, NEW symbol \in Symbols, NEW px \in Prices,
         QuoteExits(t, symbol, px)
  PROVE  /\ GoesOn(t) /\ pc[t] = "quote" /\ running = NoTask
         /\ cycle[t] \in CycleType /\ PassFits("quote", cycle[t])
         /\ ~Lost => PassSound("quote", cycle[t])
         /\ cycle[t].at = {symbol} /\ symbol \notin cycle[t].todo
         /\ cycle[t].snapshot[symbol] \in Position
         /\ UNCHANGED <<cancelled, intrusions, handle, stopper, clock, manual>>
         /\ \/ ExitRejected(t, symbol, px)
            \/ /\ ExitFills(t, symbol, px) /\ IsTracked(symbol) /\ MonitorOn(t, {symbol})
               /\ DOMAIN risk' = DOMAIN FreshRisk
               /\ risk'.cooldown_until \in {risk.cooldown_until, cycle[t].now + CooldownTicks}
            \/ /\ ExitFills(t, symbol, px) /\ ~IsTracked(symbol) /\ CycleOver(t)
               /\ UNCHANGED risk
<1>1. /\ GoesOn(t) /\ pc[t] = "quote" /\ running = NoTask /\ symbol \in cycle[t].at
      /\ UNCHANGED <<cancelled, intrusions, handle, stopper, clock, manual>>
  BY ResumesFacts
     DEF QuoteExits, QuoteArrives, requestVars, worldVars, historyVars
<1>2. /\ cycle[t] \in CycleType /\ PassFits("quote", cycle[t])
      /\ ~Lost => PassSound("quote", cycle[t])
  BY <1>1, TaskFacts
<1>3. cycle[t].at = {symbol} /\ symbol \notin cycle[t].todo
      /\ cycle[t].snapshot[symbol] \in Position
  BY <1>1, <1>2 DEF PassFits, CycleType, Exiting
<1>4. \/ ExitRejected(t, symbol, px)
      \/ /\ ExitFills(t, symbol, px) /\ IsTracked(symbol) /\ MonitorOn(t, {symbol})
         /\ \E pnl : risk' = RecordTradeClosed(risk, pnl, cycle[t].now)
      \/ /\ ExitFills(t, symbol, px) /\ ~IsTracked(symbol) /\ CycleOver(t)
         /\ UNCHANGED risk
  BY DEF QuoteExits, ExitRejected, ExitFills, tradeVars, accountVars
<1>5. ASSUME NEW pnl, risk' = RecordTradeClosed(risk, pnl, cycle[t].now)
      PROVE  /\ DOMAIN risk' = DOMAIN FreshRisk
             /\ risk'.cooldown_until \in {risk.cooldown_until, cycle[t].now + CooldownTicks}
  <2>1. /\ DOMAIN risk = DOMAIN FreshRisk /\ risk.cooldown_until \in Nat
        /\ cycle[t].now \in Nat
    BY <1>2 DEF AutoInv, Typed, TradingTyped, CycleType
  <2> QED  BY ONLY <1>5, <2>1, CloseKeepsCooldown
<1> QED  BY <1>1, <1>2, <1>3, <1>4, <1>5

\* The account after an exit: the queue of the symbol has lost what it was for.
LEMMA ExitOfAccount ==
  ASSUME AutoInv, NEW t \in Tasks, NEW symbol \in Symbols, NEW px \in Prices,
         cycle[t].snapshot[symbol] \in Position, ExitFills(t, symbol, px)
  PROVE  /\ AccountSound'
         /\ \A s \in Symbols \ {symbol} : lots'[s] = lots[s]
         /\ NetOf(lots[symbol]) = (IF cycle[t].snapshot[symbol].side = "BUY"
                                   THEN cycle[t].snapshot[symbol].quantity
                                   ELSE -cycle[t].snapshot[symbol].quantity)
              => lots'[symbol] = <<>>
<1> PICK position : position = cycle[t].snapshot[symbol]
  OBVIOUS
<1> PICK n : n = position.quantity
  OBVIOUS
<1> PICK side : side = Opposite(position.side)
  OBVIOUS
<1>1. position.side \in Trades /\ n \in Nat \ {0} /\ side \in Trades /\ side # position.side
  BY DEF Position, Opposite, Trades
<1>2. px \in Nat /\ AccountSound /\ FillOrder(symbol, side, n, px)
  BY AutoTradingAssumption DEF AutoInv, Typed, ExitFills
<1>3. /\ AccountSound'
      /\ NetOf(lots'[symbol]) = NetOf(lots[symbol]) + (IF side = "BUY" THEN n ELSE -n)
      /\ \A s \in Symbols \ {symbol} : lots'[s] = lots[s]
  BY <1>1, <1>2, OrderFills
<1>4. ASSUME NetOf(lots[symbol]) = (IF position.side = "BUY" THEN n ELSE -n)
      PROVE  lots'[symbol] = <<>>
  <2>1. NetOf(lots'[symbol]) = 0
    BY <1>1, <1>3, <1>4 DEF Trades
  <2>2. lots'[symbol] \in Seq(Unit)
    BY <1>3 DEF AccountSound
  <2> QED  BY <2>1, <2>2, NetZero
<1> QED  BY <1>3, <1>4

\* The pass goes on after the quote of a symbol.
LEMMA MonitorFacts ==
  ASSUME AutoInv, NEW t \in Tasks, NEW symbol \in Symbols, NEW exited \in SUBSET Symbols,
         cycle[t] \in CycleType, PassFits("quote", cycle[t]),
         NEW c, c = [cycle[t] EXCEPT !.at = {}, !.exited = cycle[t].exited \cup exited],
         MonitorOn(t, exited)
  PROVE  /\ pc' = [pc EXCEPT ![t] = "exits"] /\ running' = t
         /\ cycle' = [cycle EXCEPT ![t] = c]
         /\ c \in CycleType /\ c.now = cycle[t].now /\ c.todo = cycle[t].todo
         /\ c.at = {} /\ c.snapshot = cycle[t].snapshot
         /\ c.exited = cycle[t].exited \cup exited
         /\ PassFits("exits", c)
<1>1. /\ pc' = [pc EXCEPT ![t] = "exits"] /\ running' = t
      /\ cycle' = [cycle EXCEPT ![t] = c]
  BY DEF MonitorOn, AutoInv, Typed, TradingTyped, CycleType
<1>2. /\ c \in CycleType /\ c.now = cycle[t].now /\ c.todo = cycle[t].todo
      /\ c.at = {} /\ c.snapshot = cycle[t].snapshot
      /\ c.exited = cycle[t].exited \cup exited
  BY DEF CycleType
<1>3. PassFits("exits", c)
  BY <1>2 DEF PassFits, Exiting
<1> QED  BY <1>1, <1>2, <1>3

LEMMA RejectedExitKeepsHeld ==
  ASSUME AutoInv, NEW t \in Tasks, NEW symbol \in Symbols, NEW px \in Prices,
         QuoteExits(t, symbol, px), ExitRejected(t, symbol, px)
  PROVE  Typed' /\ HeldInv'
<1>1. /\ GoesOn(t) /\ pc[t] = "quote" /\ running = NoTask
      /\ cycle[t] \in CycleType /\ PassFits("quote", cycle[t])
      /\ ~Lost => PassSound("quote", cycle[t])
      /\ cycle[t].at = {symbol} /\ symbol \notin cycle[t].todo
      /\ cycle[t].snapshot[symbol] \in Position
      /\ UNCHANGED <<cancelled, intrusions, handle, stopper, clock, manual>>
  BY ExitSteps
<1>2. UNCHANGED <<tracked, risk, cash, lots>> /\ MonitorOn(t, {})
      /\ cycle[t].snapshot[symbol].side = "SELL"
  <2>1. cycle[t].snapshot[symbol].side \in Trades
    BY <1>1 DEF Position
  <2> QED  BY <2>1 DEF ExitRejected, Filled, Opposite, Trades
<1> PICK c : c = [cycle[t] EXCEPT !.at = {}, !.exited = cycle[t].exited \cup {}]
  OBVIOUS
<1>3. /\ pc' = [pc EXCEPT ![t] = "exits"] /\ running' = t
      /\ cycle' = [cycle EXCEPT ![t] = c]
      /\ c \in CycleType /\ c.now = cycle[t].now /\ c.todo = cycle[t].todo
      /\ c.at = {} /\ c.snapshot = cycle[t].snapshot
      /\ c.exited = cycle[t].exited \cup {}
      /\ PassFits("exits", c)
  <2>1. {} \in SUBSET Symbols
    OBVIOUS
  <2> QED  BY <1>1, <1>2, <2>1, MonitorFacts
<1>4. ~Lost => PassSound("exits", c)
  <2> SUFFICES ASSUME ~Lost PROVE PassSound("exits", c)
    OBVIOUS
  <2>1. PassSound("quote", cycle[t])
    BY <1>1
  <2>2. IsSquareOffTime(c.now) =>
          \A s \in TrackedSymbols : tracked[s].side = "BUY" => s \in c.todo \cup c.at
    <3> SUFFICES ASSUME IsSquareOffTime(c.now),
                        NEW s \in TrackedSymbols, tracked[s].side = "BUY"
                 PROVE  s \in c.todo
      OBVIOUS
    <3>1. s \in cycle[t].todo \cup cycle[t].at
      BY <1>3, <2>1 DEF PassSound, Exiting
    <3>2. s # symbol
      BY <1>1, <1>2, <2>1 DEF PassSound, Exiting, TrackedSymbols
    <3> QED  BY <1>1, <1>3, <3>1, <3>2
  <2> QED  BY <1>1, <1>3, <2>1, <2>2 DEF PassSound, Exiting, InCycle
<1> QED  BY ONLY AutoInv, t \in Tasks, <1>1, <1>2, <1>3, <1>4, QuietMoves

LEMMA LostExitKeepsHeld ==
  ASSUME AutoInv, NEW t \in Tasks, NEW symbol \in Symbols, NEW px \in Prices,
         QuoteExits(t, symbol, px), ExitFills(t, symbol, px), ~IsTracked(symbol), CycleOver(t),
         UNCHANGED risk
  PROVE  Typed' /\ HeldInv'
<1>1. /\ GoesOn(t) /\ pc[t] = "quote" /\ running = NoTask
      /\ ~Lost => PassSound("quote", cycle[t])
      /\ cycle[t].at = {symbol}
      /\ cycle[t].snapshot[symbol] \in Position
      /\ UNCHANGED <<cancelled, intrusions, handle, stopper, clock, manual>>
  BY ExitSteps
<1>2. AccountSound'
  BY <1>1, ExitOfAccount
<1>3. tracked' = tracked
  BY DEF ExitFills, IsTracked, AutoInv, Typed, TradingTyped
<1>4. ~Lost => ~Calm
  BY <1>1 DEF PassSound, Exiting
<1> QED  BY ONLY AutoInv, t \in Tasks, UNCHANGED risk, CycleOver(t), <1>1, <1>2, <1>3, <1>4,
            CycleOverKeeps

LEMMA FilledExitKeepsHeld ==
  ASSUME AutoInv, NEW t \in Tasks, NEW symbol \in Symbols, NEW px \in Prices,
         QuoteExits(t, symbol, px), ExitFills(t, symbol, px), IsTracked(symbol),
         MonitorOn(t, {symbol}), DOMAIN risk' = DOMAIN FreshRisk,
         risk'.cooldown_until \in {risk.cooldown_until, cycle[t].now + CooldownTicks}
  PROVE  Typed' /\ HeldInv'
<1>1. /\ GoesOn(t) /\ pc[t] = "quote" /\ running = NoTask
      /\ cycle[t] \in CycleType /\ PassFits("quote", cycle[t])
      /\ ~Lost => PassSound("quote", cycle[t])
      /\ cycle[t].at = {symbol} /\ symbol \notin cycle[t].todo
      /\ cycle[t].snapshot[symbol] \in Position
      /\ UNCHANGED <<cancelled, intrusions, handle, stopper, clock, manual>>
  BY ExitSteps
<1>2. /\ AccountSound'
      /\ \A s \in Symbols \ {symbol} : lots'[s] = lots[s]
      /\ NetOf(lots[symbol]) = (IF cycle[t].snapshot[symbol].side = "BUY"
                                THEN cycle[t].snapshot[symbol].quantity
                                ELSE -cycle[t].snapshot[symbol].quantity)
           => lots'[symbol] = <<>>
  BY <1>1, ExitOfAccount
<1> PICK c : c = [cycle[t] EXCEPT !.at = {}, !.exited = cycle[t].exited \cup {symbol}]
  OBVIOUS
<1>3. /\ pc' = [pc EXCEPT ![t] = "exits"] /\ running' = t
      /\ cycle' = [cycle EXCEPT ![t] = c]
      /\ c \in CycleType /\ c.now = cycle[t].now /\ c.todo = cycle[t].todo
      /\ c.at = {} /\ c.snapshot = cycle[t].snapshot
      /\ c.exited = cycle[t].exited \cup {symbol}
      /\ PassFits("exits", c)
  <2>1. {symbol} \in SUBSET Symbols
    OBVIOUS
  <2> QED  BY <1>1, <2>1, MonitorFacts
<1>4. /\ cycle[t].now \in Nat /\ risk.cooldown_until \in Nat /\ clock \in Nat
      /\ CooldownTicks \in Nat
  BY <1>1, AutoRiskAssumption DEF CycleType, AutoInv, Typed, TradingTyped
<1>5. /\ tracked' = [tracked EXCEPT ![symbol] = Untracked]
      /\ tracked \in [Symbols -> Position \cup {Untracked}]
  BY DEF ExitFills, AutoInv, Typed, TradingTyped
<1>6. TrackingTyped'
  BY <1>4, <1>5 DEF TrackingTyped
<1>7. Typed'
  BY ONLY AutoInv, t \in Tasks, <1>1, <1>2, <1>3, <1>6, MovesKeepTyped
<1>8. \A s \in Symbols : /\ IsTracked(s)' <=> IsTracked(s) /\ s # symbol
                         /\ s # symbol => tracked'[s] = tracked[s]
  BY <1>5 DEF IsTracked
<1>9. ASSUME ~Lost
      PROVE  /\ PassSound("exits", c)'
             /\ CooldownBound'
             /\ Calm => BooksHeld'
             /\ intrusions = {} => AllHeldTracked'
  <2>1. PassSound("quote", cycle[t])
    BY <1>1, <1>9
  <2>2. \A s \in c.todo \cup c.at :
          s # symbol /\ s \in Symbols /\ s \in cycle[t].todo \cup cycle[t].at
    BY <1>1, <1>3 DEF CycleType
  <2>3. \A s \in c.todo \cup c.at : IsTracked(s)' => tracked'[s] = c.snapshot[s]
    BY <1>3, <1>8, <2>1, <2>2 DEF PassSound, Exiting
  <2>4. Calm' => \A s \in c.todo \cup c.at : IsTracked(s)'
    BY <1>1, <1>8, <2>1, <2>2 DEF PassSound, Exiting, Calm, Undisturbed
  <2>5. c.now <= clock' /\ risk'.cooldown_until <= c.now + CooldownTicks
    BY <1>1, <1>3, <1>4, <2>1 DEF PassSound, InCycle
  <2>6. intrusions' = {} => \A s \in Symbols :
          c.snapshot[s] # Untracked => s \in c.exited \/ IsTracked(s)'
    BY <1>1, <1>3, <1>8, <2>1 DEF PassSound
  <2>7. IsSquareOffTime(c.now) =>
          \A s \in TrackedSymbols' : tracked'[s].side = "BUY" => s \in c.todo \cup c.at
    <3> SUFFICES ASSUME IsSquareOffTime(c.now),
                        NEW s \in TrackedSymbols', tracked'[s].side = "BUY"
                 PROVE  s \in c.todo
      OBVIOUS
    <3>1. s \in TrackedSymbols /\ s # symbol /\ tracked[s].side = "BUY"
      BY <1>8 DEF TrackedSymbols
    <3>2. s \in cycle[t].todo \cup cycle[t].at
      BY <1>3, <2>1, <3>1 DEF PassSound, Exiting
    <3> QED  BY <1>1, <1>3, <3>1, <3>2
  <2>8. PassSound("exits", c)'
    BY <2>3, <2>4, <2>5, <2>6, <2>7 DEF PassSound, IsSquareOffTime
  <2>9. CooldownBound'
    BY <1>1, <1>4, <1>9, <2>1 DEF AutoInv, HeldInv, CooldownBound, PassSound, InCycle
  <2>10. ASSUME Calm
         PROVE  BooksHeld' /\ lots'[symbol] = <<>>
    <3>1. stopper.pc # "flattening" /\ TrackedToTheUnit
      BY <1>1, <1>9, <2>10, BooksWhileGoing
    <3>2. tracked[symbol] = cycle[t].snapshot[symbol] /\ symbol \in TrackedSymbols
      BY <1>1, <2>1 DEF PassSound, Exiting, TrackedSymbols
    <3>3. lots'[symbol] = <<>>
      BY <1>2, <3>1, <3>2 DEF TrackedToTheUnit
    <3>4. \A s \in TrackedSymbols' : s \in TrackedSymbols /\ s # symbol
      BY <1>8 DEF TrackedSymbols
    <3>5. TrackedToTheUnit'
      BY <1>2, <1>8, <3>1, <3>4 DEF TrackedToTheUnit, TrackedSymbols
    <3> QED  BY <1>1, <3>1, <3>3, <3>5 DEF BooksHeld
  <2>11. intrusions = {} => AllHeldTracked'
    <3> SUFFICES ASSUME intrusions = {} PROVE AllHeldTracked'
      OBVIOUS
    <3>1. Calm /\ AllHeldTracked
      BY <1>9 DEF Calm, Undisturbed, AutoInv, HeldInv
    <3> QED  BY <1>2, <1>8, <2>10, <3>1 DEF AllHeldTracked, IsOpen
  <2> QED  BY <2>8, <2>9, <2>10, <2>11
<1>10. HeldInv'
  BY ONLY AutoInv, t \in Tasks, <1>1, <1>3, <1>9, MovesKeepHeld
<1> QED  BY <1>7, <1>10

LEMMA QuoteExitsKeepsHeld ==
  ASSUME AutoInv, NEW t \in Tasks, NEW symbol \in Symbols, NEW px \in Prices,
         QuoteExits(t, symbol, px)
  PROVE  Typed' /\ HeldInv'
BY ExitSteps, RejectedExitKeepsHeld, FilledExitKeepsHeld, LostExitKeepsHeld

\* What an entry check comes to: an entry, by an order of at least one unit at
\* the recommended price, or only a day that has been rolled over.
EntryOpens(t, symbol) ==
    LET signal == cycle[t].signals[symbol]
        n      == EntryQuantity(signal)
    IN  /\ n \in Nat \ {0}
        /\ cycle[t].now >= risk.cooldown_until
        /\ FillOrder(symbol, signal.action, n, signal.entry)
        /\ tracked' = [tracked EXCEPT ![symbol] =
             [side |-> signal.action, quantity |-> n,
              entry_price |-> signal.entry, best_price |-> signal.entry,
              stop_loss |-> signal.stop_loss, target |-> signal.target]]

LEMMA EntrySteps ==
  ASSUME AutoInv, NEW t \in Tasks, NEW symbol \in Symbols, MaybeEnter(t, symbol)
  PROVE  /\ GoesOn(t) /\ running = t /\ running' = t /\ pc[t] = "entries"
         /\ pc' = [pc EXCEPT ![t] = "entries"]
         /\ cycle[t] \in CycleType /\ PassFits("entries", cycle[t])
         /\ ~Lost => PassSound("entries", cycle[t])
         /\ symbol \in cycle[t].todo /\ ~IsOpen(symbol)
         /\ cycle' = [cycle EXCEPT ![t] =
                        [cycle[t] EXCEPT !.todo = cycle[t].todo \ {symbol}]]
         /\ cycle[t].signals[symbol] \in SignalType
         /\ cycle[t].signals[symbol].action \in Trades
         /\ UNCHANGED <<cancelled, intrusions, handle, stopper, clock, manual>>
         /\ DOMAIN risk' = DOMAIN FreshRisk /\ risk'.cooldown_until = risk.cooldown_until
         /\ EntryOpens(t, symbol) \/ UNCHANGED <<tracked, cash, lots>>
<1> PICK signal : signal = cycle[t].signals[symbol]
  OBVIOUS
<1> PICK now : now = cycle[t].now
  OBVIOUS
<1>1. /\ running = t /\ running' = t /\ pc[t] = "entries" /\ pc' = pc
      /\ symbol \in cycle[t].todo /\ ~IsOpen(symbol) /\ signal.action # "HOLD"
      /\ cycle' = [cycle EXCEPT ![t].todo = @ \ {symbol}]
      /\ UNCHANGED <<cancelled, intrusions, handle, stopper, clock, manual>>
  BY DEF MaybeEnter, WorthEntering, requestVars, worldVars, historyVars
<1>2. /\ cycle[t] \in CycleType /\ PassFits("entries", cycle[t]) /\ GoesOn(t)
      /\ ~Lost => PassSound("entries", cycle[t])
  BY <1>1, TaskFacts
<1>3. /\ pc' = [pc EXCEPT ![t] = "entries"]
      /\ cycle' = [cycle EXCEPT ![t] = [cycle[t] EXCEPT !.todo = cycle[t].todo \ {symbol}]]
  BY <1>1 DEF AutoInv, LInv, LoopInv, Typed, TradingTyped
<1>4. signal \in Signals
  BY <1>1, <1>2 DEF PassFits, CycleType
<1>5. signal \in SignalType /\ SoundSignal(signal)
  BY <1>4, AutoTradingAssumption
<1>6. signal.action \in Trades /\ signal.entry \in Nat \ {0}
  BY <1>1, <1>5 DEF SignalType, SoundSignal, Actions, Trades
<1>7. EntryQuantity(signal) \in Int
  <2> PICK price : price = SpendOneIn * signal.entry
    OBVIOUS
  <2>1. price \in Nat \ {0}
    BY <1>6, AutoTradingAssumption
  <2>2. cash \in Int
    BY DEF AutoInv, Typed, AccountSound
  <2>3. EntryQuantity(signal) = cash \div price
    BY DEF EntryQuantity
  <2> QED  BY <2>1, <2>2, <2>3
<1>8. /\ now \in Nat /\ DOMAIN risk = DOMAIN FreshRisk /\ risk.cooldown_until \in Nat
  BY <1>2 DEF CycleType, AutoInv, Typed, TradingTyped
<1>9. /\ DOMAIN RollDay(risk, now) = DOMAIN FreshRisk
      /\ RollDay(risk, now).cooldown_until = risk.cooldown_until
      /\ DOMAIN RecordTradeOpened(RollDay(risk, now), now) = DOMAIN FreshRisk
      /\ RecordTradeOpened(RollDay(risk, now), now).cooldown_until = risk.cooldown_until
  BY ONLY <1>8, OpenKeepsCooldown
<1>10. /\ risk' \in {RollDay(risk, now), RecordTradeOpened(RollDay(risk, now), now)}
       /\ EntryOpens(t, symbol) \/ UNCHANGED <<tracked, cash, lots>>
  BY <1>7, <1>9 DEF MaybeEnter, EntryAllowed, EntryOpens, accountVars
<1>11. DOMAIN risk' = DOMAIN FreshRisk /\ risk'.cooldown_until = risk.cooldown_until
  BY <1>9, <1>10
<1> QED  BY <1>1, <1>2, <1>3, <1>5, <1>6, <1>10, <1>11

LEMMA MaybeEnterKeepsHeld ==
  ASSUME AutoInv, NEW t \in Tasks, NEW symbol \in Symbols, MaybeEnter(t, symbol)
  PROVE  Typed' /\ HeldInv'
<1> PICK c : c = [cycle[t] EXCEPT !.todo = cycle[t].todo \ {symbol}]
  OBVIOUS
<1> PICK signal : signal = cycle[t].signals[symbol]
  OBVIOUS
<1> PICK n : n = EntryQuantity(signal)
  OBVIOUS
<1> PICK position : position = [side |-> signal.action, quantity |-> n,
              entry_price |-> signal.entry, best_price |-> signal.entry,
              stop_loss |-> signal.stop_loss, target |-> signal.target]
  OBVIOUS
<1>1. /\ GoesOn(t) /\ running = t /\ running' = t /\ pc[t] = "entries"
      /\ pc' = [pc EXCEPT ![t] = "entries"]
      /\ cycle[t] \in CycleType /\ PassFits("entries", cycle[t])
      /\ ~Lost => PassSound("entries", cycle[t])
      /\ symbol \in cycle[t].todo /\ ~IsOpen(symbol)
      /\ cycle' = [cycle EXCEPT ![t] = c]
      /\ signal \in SignalType /\ signal.action \in Trades
      /\ UNCHANGED <<cancelled, intrusions, handle, stopper, clock, manual>>
      /\ DOMAIN risk' = DOMAIN FreshRisk /\ risk'.cooldown_until = risk.cooldown_until
      /\ EntryOpens(t, symbol) \/ UNCHANGED <<tracked, cash, lots>>
  BY EntrySteps
<1>2. /\ c \in CycleType /\ c.now = cycle[t].now /\ c.todo = cycle[t].todo \ {symbol}
      /\ c.snapshot = cycle[t].snapshot /\ c.exited = cycle[t].exited
      /\ c.signals = cycle[t].signals
  BY <1>1 DEF CycleType
<1>3. PassFits("entries", c)
  BY <1>1, <1>2 DEF PassFits, Exiting
<1>4. /\ tracked \in [Symbols -> Position \cup {Untracked}]
      /\ AccountSound /\ risk.cooldown_until \in Nat
  BY DEF AutoInv, Typed, TradingTyped
<1>5. ASSUME AccountSound', tracked' \in [Symbols -> Position \cup {Untracked}],
             \A s \in Symbols : IsTracked(s) => IsTracked(s)',
             ~Lost /\ Calm => BooksHeld',
             ~Lost /\ intrusions = {} => AllHeldTracked'
      PROVE  Typed' /\ HeldInv'
  <2>1. TrackingTyped'
    BY <1>1, <1>4, <1>5 DEF TrackingTyped
  <2>2. Typed'
    BY ONLY AutoInv, t \in Tasks, <1>1, <1>2, <1>3, <1>5, <2>1, MovesKeepTyped
  <2>3. ~Lost => PassSound("entries", c)'
    BY <1>1, <1>2, <1>5 DEF PassSound, Exiting, InCycle
  <2>4. ~Lost => CooldownBound'
    BY <1>1 DEF AutoInv, HeldInv, CooldownBound
  <2>5. HeldInv'
    BY ONLY AutoInv, t \in Tasks, <1>1, <1>5, <2>3, <2>4, MovesKeepHeld
  <2> QED  BY <2>2, <2>5
<1>6. CASE UNCHANGED <<tracked, cash, lots>>
  <2>1. /\ AccountSound' /\ tracked' \in [Symbols -> Position \cup {Untracked}]
        /\ \A s \in Symbols : IsTracked(s) => IsTracked(s)'
    BY <1>4, <1>6 DEF AccountSound, IsTracked
  <2>2. ~Lost /\ Calm => BooksHeld'
    BY <1>1, <1>6 DEF AutoInv, HeldInv, BooksHeld, ListedIsHeld, TrackedToTheUnit,
       TrackedSymbols, IsTracked, IsOpen
  <2>3. ~Lost /\ intrusions = {} => AllHeldTracked'
    BY <1>1, <1>6 DEF AutoInv, HeldInv, AllHeldTracked, IsTracked, IsOpen
  <2> QED  BY <1>5, <2>1, <2>2, <2>3
<1>7. CASE EntryOpens(t, symbol)
  <2>1. /\ n \in Nat \ {0} /\ FillOrder(symbol, signal.action, n, signal.entry)
        /\ tracked' = [tracked EXCEPT ![symbol] = position]
    BY <1>7 DEF EntryOpens
  <2>2. signal.entry \in Nat
    BY <1>1 DEF SignalType
  <2>3. position \in Position /\ position # Untracked
    <3>1. position \in Position
      BY <1>1, <2>1 DEF SignalType, Position
    <3> QED  BY <3>1 DEF Position, Untracked, Trades
  <2>4. /\ tracked' \in [Symbols -> Position \cup {Untracked}]
        /\ tracked'[symbol] = position
        /\ \A s \in Symbols \ {symbol} : tracked'[s] = tracked[s]
    BY <1>4, <2>1, <2>3
  <2>5. \A s \in Symbols : IsTracked(s)' <=> IsTracked(s) \/ s = symbol
    BY <2>3, <2>4 DEF IsTracked
  <2>6. /\ AccountSound'
        /\ NetOf(lots'[symbol]) = NetOf(lots[symbol])
                                    + (IF signal.action = "BUY" THEN n ELSE -n)
        /\ \A s \in Symbols \ {symbol} : lots'[s] = lots[s]
    BY ONLY <1>1, <1>4, <2>1, <2>2, symbol \in Symbols, OrderFills
  <2>7. NetOf(lots'[symbol]) = IF position.side = "BUY" THEN position.quantity
                               ELSE -position.quantity
    <3>1. NetOf(lots[symbol]) = 0
      BY <1>1 DEF IsOpen, NetOf
    <3> QED  BY <2>1, <2>6, <3>1
  <2>8. ~Lost /\ Calm => BooksHeld'
    <3> SUFFICES ASSUME ~Lost, Calm PROVE BooksHeld'
      OBVIOUS
    <3>1. stopper.pc # "flattening" /\ TrackedToTheUnit
      BY <1>1, BooksWhileGoing
    <3>2. ASSUME NEW s \in TrackedSymbols'
          PROVE  NetOf(lots'[s]) = IF tracked'[s].side = "BUY" THEN tracked'[s].quantity
                                   ELSE -tracked'[s].quantity
      <4>1. CASE s = symbol
        BY <2>4, <2>7, <4>1
      <4>2. CASE s # symbol
        <5>1. s \in TrackedSymbols /\ s \in Symbols
          BY <2>5, <4>2 DEF TrackedSymbols
        <5> QED  BY <2>4, <2>6, <3>1, <4>2, <5>1 DEF TrackedToTheUnit
      <4> QED  BY <4>1, <4>2
    <3> QED  BY <1>1, <3>1, <3>2 DEF BooksHeld, TrackedToTheUnit
  <2>9. ~Lost /\ intrusions = {} => AllHeldTracked'
    BY <2>5, <2>6 DEF AutoInv, HeldInv, AllHeldTracked, IsOpen
  <2> QED  BY <1>5, <2>4, <2>5, <2>6, <2>8, <2>9
<1> QED  BY <1>1, <1>6, <1>7

\* A task that ends because it was cancelled leaves nothing to be sound.
LEMMA CancelArrivesKeepsHeld ==
  ASSUME AutoInv, NEW t \in Tasks, CancelArrives(t)
  PROVE  Typed' /\ HeldInv'
<1>1. /\ running = NoTask /\ t \in cancelled
      /\ pc' = [pc EXCEPT ![t] = "done"] /\ cancelled' = cancelled \ {t}
      /\ cycle' = [cycle EXCEPT ![t] = NoCycle]
      /\ UNCHANGED <<running, intrusions, handle, stopper, tracked, risk, cash, lots, clock,
                     manual>>
  BY DEF CancelArrives, NobodyRuns, tradeVars, accountVars, worldVars, historyVars
<1> PICK c : c = NoCycle
  OBVIOUS
<1>2. c \in CycleType /\ PassFits("done", c)
  BY DEF CycleType, NoCycle, PassFits, Exiting
<1>3. AccountSound' /\ TrackingTyped'
  BY <1>1 DEF AutoInv, Typed, AccountSound, TradingTyped, TrackingTyped
<1>4. Typed'
  BY <1>1, <1>2, <1>3, MovesKeepTyped
<1>5. \A u \in Tasks : GoesOn(u)' => /\ GoesOn(u)
                                     /\ pc'[u] = pc[u] /\ cycle'[u] = cycle[u]
  BY <1>1 DEF GoesOn, Alive, AutoInv, LInv, LoopInv, Typed, TradingTyped
<1>6. ASSUME ~Lost, NEW u \in Tasks, GoesOn(u)'
      PROVE  PassSound(pc[u], cycle[u])'
  <2>1. PassSound(pc[u], cycle[u])
    BY <1>5, <1>6 DEF AutoInv, HeldInv
  <2> QED  BY <1>1, <1>5, <1>6, <2>1
           DEF PassSound, IsTracked, TrackedSymbols, Calm, Undisturbed
<1>7. ~Lost => /\ CooldownBound'
               /\ Calm' => BooksHeld'
               /\ intrusions' = {} => AllHeldTracked'
  BY <1>1 DEF AutoInv, HeldInv, CooldownBound, BooksHeld, ListedIsHeld, TrackedToTheUnit,
         TrackedSymbols, IsTracked, IsOpen, AllHeldTracked, Calm, Undisturbed
<1>8. HeldInv'
  BY <1>1, <1>6, <1>7 DEF HeldInv, Lost
<1> QED  BY <1>4, <1>8

LEMMA TaskNextKeepsHeld ==
  ASSUME AutoInv, NEW t \in Tasks, TaskNext(t)
  PROVE  Typed' /\ HeldInv'
<1>1. CASE LoopEnds(t)
  BY <1>1, LoopEndsKeepsHeld
<1>2. CASE BeginCycle(t)
  BY <1>2, BeginCycleKeepsHeld
<1>3. CASE Answered(t)
  BY <1>3, RecommendationArrivesKeepsHeld, QuoteKeepsKeepsHeld, QuoteExitsKeepsHeld,
     QuoteFailsKeepsHeld DEF Answered
<1>4. CASE Runs(t)
  BY <1>4, ForgetClosedKeepsHeld, AskQuoteKeepsHeld, EntryPassKeepsHeld, MaybeEnterKeepsHeld,
     EndCycleKeepsHeld DEF Runs
<1>5. CASE CancelArrives(t)
  BY <1>5, CancelArrivesKeepsHeld
<1> QED  BY <1>1, <1>2, <1>3, <1>4, <1>5 DEF TaskNext

-----------------------------------------------------------------------------
(***************************************************************************)
(* The requests, the clients and the clock.                                *)
(***************************************************************************)
\* A step that leaves the tasks alone.
LEMMA RequestKeepsTyped ==
  ASSUME AutoInv, UNCHANGED <<pc, cycle, running>>, AccountSound', TrackingTyped',
         clock' \in Nat, manual' \in Nat, StopTyped'
  PROVE  Typed'
<1>1. TradingTyped'
  BY DEF AutoInv, Typed, TradingTyped, TrackingTyped
<1>2. PassTyped'
  BY DEF AutoInv, Typed, PassTyped
<1> QED  BY <1>1, <1>2 DEF Typed

\* A start comes upon no task that goes on.
LEMMA StartKeepsHeld ==
  ASSUME AutoInv, Start
  PROVE  Typed' /\ HeldInv'
<1>1. PICK t \in Tasks : pc[t] = "new" /\ handle' = t /\ pc' = [pc EXCEPT ![t] = "waiting"]
  BY DEF Start
<1>2. /\ running = NoTask /\ ~IsRunning /\ risk' = FreshRisk
      /\ intrusions' = intrusions \cup
           (IF stopper.pc = "flattening" THEN {"start_while_flattening"} ELSE {})
      /\ UNCHANGED <<cancelled, stopper, cycle, running, tracked, cash, lots, clock, manual>>
  BY DEF Start, NobodyRuns, accountVars
<1>3. cycle[t] \in CycleType /\ cycle' = [cycle EXCEPT ![t] = cycle[t]]
  BY <1>2 DEF AutoInv, Typed, TradingTyped
<1>4. PassFits("waiting", cycle[t]) /\ ~("waiting" \in {"exits", "entries"})
  BY DEF PassFits, Exiting
<1>5. AccountSound' /\ TrackingTyped'
  BY <1>2 DEF AutoInv, Typed, AccountSound, TradingTyped, TrackingTyped, FreshRisk
<1>6. Typed'
  BY ONLY AutoInv, <1>1, <1>2, <1>3, <1>4, <1>5, MovesKeepTyped
<1>7. ~Lost' => ~Lost
  BY <1>2 DEF Lost
<1>8. \A u \in Tasks : pc'[u] = IF u = t THEN "waiting" ELSE pc[u]
  BY <1>1 DEF AutoInv, LInv, LoopInv
<1>9. ASSUME ~Lost, NEW u \in Tasks, GoesOn(u)'
      PROVE  PassSound(pc[u], cycle[u])'
  <2>1. u = t
    <3> SUFFICES ASSUME u # t PROVE FALSE
      OBVIOUS
    <3>1. GoesOn(u)
      BY <1>2, <1>8, <1>9 DEF GoesOn, Alive
    <3> QED  BY <1>2, <1>9, <3>1, NobodyGoesOn DEF AutoInv, GoesOn
  <2> QED  BY <1>8, <2>1 DEF PassSound, Exiting, InCycle
<1>10. CooldownBound'
  <2>1. clock \in Nat /\ CooldownTicks \in Nat
    BY AutoRiskAssumption DEF AutoInv, Typed, TradingTyped
  <2> QED  BY <1>2, <2>1 DEF CooldownBound, FreshRisk
<1>11. ~Lost /\ Calm' => BooksHeld'
  <2> SUFFICES ASSUME ~Lost, Calm' PROVE BooksHeld'
    OBVIOUS
  <2>1. stopper.pc # "flattening" /\ intrusions' = intrusions
    BY <1>2 DEF Calm, Undisturbed, Intruders
  <2>2. TrackedToTheUnit
    BY <2>1 DEF AutoInv, HeldInv, BooksHeld, Calm, Undisturbed
  <2> QED  BY <1>2, <2>1, <2>2 DEF BooksHeld, TrackedToTheUnit, TrackedSymbols, IsTracked
<1>12. ~Lost /\ intrusions' = {} => AllHeldTracked'
  BY <1>2 DEF AutoInv, HeldInv, AllHeldTracked, IsOpen, IsTracked
<1>13. HeldInv'
  BY <1>7, <1>9, <1>10, <1>11, <1>12 DEF HeldInv
<1> QED  BY <1>6, <1>13

\* An emergency stop that returns has forgotten everything; while nothing
\* intrudes it has left nothing open, or said so.
LEMMA FlattenReturnsKeepsHeld ==
  ASSUME AutoInv, NEW open, NEW lost, FlattenReturns(open, lost), AccountSound',
         UNCHANGED <<pc, cycle, running, cancelled, risk, clock, manual>>,
         ~Lost' /\ Calm' => \A t \in Tasks : ~GoesOn(t)
  PROVE  Typed' /\ HeldInv'
<1>1. /\ tracked' = [symbol \in Symbols |-> Untracked]
      /\ stopper' = NoStop
      /\ intrusions \cup lost \subseteq intrusions'
      /\ intrusions' = {} => \A symbol \in Symbols : lots'[symbol] = <<>>
  BY DEF FlattenReturns
<1>2. StopTyped' /\ stopper'.pc # "flattening"
  BY <1>1 DEF NoStop, StopTyped
<1>3. TrackingTyped' /\ clock' \in Nat /\ manual' \in Nat
  BY <1>1 DEF AutoInv, Typed, TradingTyped, TrackingTyped
<1>4. Typed'
  BY <1>2, <1>3, RequestKeepsTyped
<1>5. ~Lost' => ~Lost
  BY <1>1 DEF Lost
<1>6. \A symbol \in Symbols : ~IsTracked(symbol)'
  BY <1>1 DEF IsTracked
<1>7. ASSUME ~Lost', NEW u \in Tasks, GoesOn(u)'
      PROVE  PassSound(pc[u], cycle[u])'
  <2>1. GoesOn(u) /\ ~Calm' /\ intrusions' # {}
    BY <1>7 DEF GoesOn, Alive, Calm, Undisturbed
  <2>2. PassSound(pc[u], cycle[u]) /\ cycle[u] \in CycleType
    BY <1>5, <1>7, <2>1 DEF AutoInv, HeldInv, Typed, TradingTyped
  <2>3. \A s \in cycle[u].todo \cup cycle[u].at : s \in Symbols
    BY <2>2 DEF CycleType
  <2> QED  BY <1>6, <2>1, <2>2, <2>3 DEF PassSound, TrackedSymbols
<1>8. ~Lost' => CooldownBound'
  BY <1>5 DEF AutoInv, HeldInv, CooldownBound
<1>9. BooksHeld'
  BY <1>2, <1>6 DEF BooksHeld, TrackedToTheUnit, TrackedSymbols
<1>10. intrusions' = {} => AllHeldTracked'
  BY <1>1 DEF AllHeldTracked, IsOpen
<1>11. HeldInv'
  BY <1>7, <1>8, <1>9, <1>10 DEF HeldInv
<1> QED  BY <1>4, <1>11

\* Once the loop is stopped nothing goes on, and an emergency stop lists what
\* is held.
LEMMA AfterStopKeepsHeld ==
  ASSUME AutoInv, NEW emergency \in BOOLEAN, NEW lost, AfterStop(emergency, lost),
         UNCHANGED <<pc, cycle, running, cancelled, cash, lots, risk, clock, manual>>,
         handle' = NoTask, IsRunning => "lost_loop" \in lost,
         stopper.pc # "flattening"
  PROVE  Typed' /\ HeldInv'
<1>1. AccountSound'
  BY DEF AutoInv, Typed, AccountSound
<1>2. intrusions \cup lost \subseteq intrusions'
  BY AfterStopAwaitsNobody
<1>3. ~Lost' => ~Lost /\ \A t \in Tasks : ~GoesOn(t)
  BY <1>2, NobodyGoesOn DEF Lost, GoesOn, AutoInv
<1>4. CASE FlattenReturns({}, lost)
  BY <1>1, <1>3, <1>4, FlattenReturnsKeepsHeld
<1>5. ASSUME stopper' = NoStop \/
               stopper' = [NoStop EXCEPT !.pc = "flattening",
                             !.todo = {symbol \in Symbols : IsOpen(symbol)},
                             !.quantities = [s \in Symbols |-> NetQuantity(s)]],
             UNCHANGED tracked
      PROVE  Typed' /\ HeldInv'
  <2>1. /\ StopTyped'
        /\ stopper'.pc = "flattening" =>
             \A symbol \in stopper'.todo :
               IsOpen(symbol) /\ stopper'.quantities[symbol] = NetOf(lots[symbol])
    <3>1. CASE stopper' = NoStop
      BY <3>1 DEF NoStop, StopTyped
    <3>2. CASE stopper' = [NoStop EXCEPT !.pc = "flattening",
                             !.todo = {symbol \in Symbols : IsOpen(symbol)},
                             !.quantities = [s \in Symbols |-> NetQuantity(s)]]
      <4>1. /\ stopper'.emergency = FALSE
            /\ stopper'.todo = {symbol \in Symbols : IsOpen(symbol)}
            /\ stopper'.quantities = [s \in Symbols |-> NetQuantity(s)]
        BY <3>2 DEF NoStop
      <4>2. AccountSound
        BY DEF AutoInv, Typed
      <4>3. \A s \in Symbols : /\ NetQuantity(s) = NetOf(lots[s])
                               /\ NetQuantity(s) \in Int
                               /\ NetQuantity(s) # 0 <=> IsOpen(s)
        BY <4>2, NetIsQuantity
      <4> QED  BY <4>1, <4>3 DEF StopTyped
    <3> QED  BY <1>5, <3>1, <3>2
  <2>2. TrackingTyped' /\ clock' \in Nat /\ manual' \in Nat
    BY <1>5 DEF AutoInv, Typed, TradingTyped, TrackingTyped
  <2>3. Typed'
    BY <1>1, <2>1, <2>2, RequestKeepsTyped
  <2>4. ~Lost' => \A t \in Tasks : ~GoesOn(t)'
    BY <1>3 DEF GoesOn, Alive
  <2>5. ~Lost' => CooldownBound'
    BY <1>3 DEF AutoInv, HeldInv, CooldownBound
  <2>6. ~Lost' /\ Calm' => BooksHeld'
    <3> SUFFICES ASSUME ~Lost', Calm' PROVE BooksHeld'
      OBVIOUS
    <3>1. TrackedToTheUnit
      BY <1>2, <1>3 DEF Calm, Undisturbed, AutoInv, HeldInv, BooksHeld
    <3>2. TrackedToTheUnit'
      BY <1>5, <3>1 DEF TrackedToTheUnit, TrackedSymbols, IsTracked
    <3> QED  BY <2>1, <3>2 DEF BooksHeld, ListedIsHeld, IsOpen
  <2>7. ~Lost' /\ intrusions' = {} => AllHeldTracked'
    BY <1>2, <1>3, <1>5 DEF AutoInv, HeldInv, AllHeldTracked, IsOpen, IsTracked
  <2>8. HeldInv'
    BY <2>4, <2>5, <2>6, <2>7 DEF HeldInv
  <2> QED  BY <2>3, <2>8
<1>6. FlattenReturns({}, lost) \/
      /\ stopper' = NoStop \/
               stopper' = [NoStop EXCEPT !.pc = "flattening",
                             !.todo = {symbol \in Symbols : IsOpen(symbol)},
                             !.quantities = [s \in Symbols |-> NetQuantity(s)]]
      /\ UNCHANGED tracked
  BY DEF AfterStop
<1> QED  BY <1>4, <1>5, <1>6

LEMMA StopRequestedKeepsHeld ==
  ASSUME AutoInv, NEW emergency \in BOOLEAN, StopRequested(emergency)
  PROVE  Typed' /\ HeldInv'
<1>1. /\ stopper.pc = "idle"
      /\ UNCHANGED <<pc, cycle, running, cash, lots, risk, clock, manual>>
  BY DEF StopRequested, taskVars, accountVars
<1>2. CASE ~IsRunning
  <2>1. handle' = NoTask /\ AfterStop(emergency, {}) /\ UNCHANGED cancelled
    BY <1>2 DEF StopRequested
  <2> QED  BY <1>1, <1>2, <2>1, AfterStopKeepsHeld
<1>3. CASE IsRunning
  <2>1. /\ cancelled' = cancelled \cup {handle}
        /\ stopper' = [NoStop EXCEPT !.pc = "stopping", !.emergency = emergency,
                                     !.awaits = handle]
        /\ UNCHANGED <<handle, tracked, intrusions>>
    BY <1>3 DEF StopRequested, historyVars
  <2>2. StopTyped' /\ stopper'.pc # "flattening"
    BY <2>1 DEF NoStop, StopTyped
  <2>3. /\ AccountSound' /\ TrackingTyped' /\ clock' \in Nat /\ manual' \in Nat
    BY <1>1, <2>1 DEF AutoInv, Typed, AccountSound, TradingTyped, TrackingTyped
  <2>4. Typed'
    BY <1>1, <2>2, <2>3, RequestKeepsTyped
  <2>5. ASSUME ~Lost, NEW u \in Tasks, GoesOn(u)'
        PROVE  PassSound(pc[u], cycle[u])'
    <3>1. GoesOn(u)
      BY <1>1, <2>1, <2>5 DEF GoesOn, Alive
    <3>2. PassSound(pc[u], cycle[u])
      BY <2>5, <3>1 DEF AutoInv, HeldInv
    <3> QED  BY <1>1, <2>1, <3>2 DEF PassSound, IsTracked, TrackedSymbols, Calm, Undisturbed
  <2>6. ~Lost => /\ CooldownBound'
                 /\ Calm' => BooksHeld'
                 /\ intrusions' = {} => AllHeldTracked'
    BY <1>1, <2>1, <2>2 DEF AutoInv, HeldInv, CooldownBound, BooksHeld, ListedIsHeld,
       TrackedToTheUnit, TrackedSymbols, IsTracked, IsOpen, AllHeldTracked, Calm, Undisturbed
  <2>7. HeldInv'
    BY <2>1, <2>5, <2>6 DEF HeldInv, Lost
  <2> QED  BY <2>4, <2>7
<1> QED  BY <1>2, <1>3

LEMMA StopReturnsKeepsHeld ==
  ASSUME AutoInv, StopReturns
  PROVE  Typed' /\ HeldInv'
<1> PICK lost : lost = IF IsRunning THEN {"lost_loop"} ELSE {}
  OBVIOUS
<1>1. /\ stopper.pc = "stopping" /\ handle' = NoTask /\ AfterStop(stopper.emergency, lost)
      /\ UNCHANGED <<pc, cycle, running, cancelled, cash, lots, risk, clock, manual>>
  BY DEF StopReturns, taskVars, accountVars
<1>2. stopper.emergency \in BOOLEAN /\ (IsRunning => "lost_loop" \in lost)
  BY DEF AutoInv, Typed, StopTyped
<1> QED  BY <1>1, <1>2, AfterStopKeepsHeld

\* A close that fills leaves nothing of what was listed; while the books are
\* calm what is listed is all there is.
LEMMA FlattenKeepsHeld ==
  ASSUME AutoInv, NEW symbol \in Symbols,
         FlattenSkips(symbol) \/ \E px \in Prices : FlattenAt(symbol, px)
  PROVE  Typed' /\ HeldInv'
<1> PICK quantity : quantity = stopper.quantities[symbol]
  OBVIOUS
<1>1. /\ stopper.pc = "flattening" /\ symbol \in stopper.todo
      /\ UNCHANGED <<handle, cancelled, pc, cycle, running, risk, clock, manual>>
  BY DEF FlattenSkips, FlattenAt, taskVars
<1>2. PICK reported : FlattenOn(symbol, reported)
  BY DEF FlattenSkips, FlattenAt
<1>3. /\ AccountSound'
      /\ \A s \in Symbols \ {symbol} : lots'[s] = lots[s]
  <2>1. CASE UNCHANGED <<cash, lots>>
    BY <2>1 DEF AutoInv, Typed, AccountSound
  <2>2. ASSUME NEW px \in Prices, FlattenAt(symbol, px), ~UNCHANGED <<cash, lots>>
        PROVE  /\ AccountSound'
               /\ \A s \in Symbols \ {symbol} : lots'[s] = lots[s]
    <3> PICK side : side = IF quantity > 0 THEN "SELL" ELSE "BUY"
      OBVIOUS
    <3> PICK n : n = IF quantity > 0 THEN quantity ELSE -quantity
      OBVIOUS
    <3>1. FillOrder(symbol, side, n, px)
      BY <2>2 DEF FlattenAt, MarketOrder
    <3>2. quantity \in Int \ {0}
      BY <1>1 DEF AutoInv, Typed, StopTyped
    <3>3. side \in Trades /\ n \in Nat \ {0} /\ px \in Nat /\ AccountSound
      BY <3>2, AutoTradingAssumption DEF Trades, AutoInv, Typed
    <3> QED  BY <3>1, <3>3, OrderFills
  <2> QED  BY <2>1, <2>2 DEF FlattenSkips, accountVars
<1>4. ~Lost /\ Calm => ListedIsHeld /\ \A t \in Tasks : ~GoesOn(t)
  <2> SUFFICES ASSUME ~Lost, Calm PROVE ListedIsHeld /\ \A t \in Tasks : ~GoesOn(t)
    OBVIOUS
  <2>1. ListedIsHeld
    BY <1>1 DEF AutoInv, HeldInv, BooksHeld
  <2> QED  BY <1>1, <2>1, BooksWhileGoing
<1>5. ASSUME NEW open, FlattenReturns(open, {})
      PROVE  Typed' /\ HeldInv'
  <2>1. intrusions \subseteq intrusions'
    BY <1>5 DEF FlattenReturns
  <2>2. ~Lost' /\ Calm' => \A t \in Tasks : ~GoesOn(t)
    BY <1>4, <2>1 DEF Lost, Calm, Undisturbed
  <2> QED  BY <1>1, <1>3, <1>5, <2>2, FlattenReturnsKeepsHeld
<1>6. ASSUME stopper' = [stopper EXCEPT !.todo = @ \ {symbol}, !.closed = @ \cup reported],
             UNCHANGED <<tracked, intrusions>>
      PROVE  Typed' /\ HeldInv'
  <2>1. /\ stopper'.todo = stopper.todo \ {symbol} /\ stopper'.pc = "flattening"
        /\ stopper'.quantities = stopper.quantities /\ stopper'.emergency = stopper.emergency
    BY <1>1, <1>6 DEF AutoInv, LInv, LoopInv, AwaitsWhileStopping
  <2>2. StopTyped'
    BY <2>1 DEF AutoInv, Typed, StopTyped
  <2>3. TrackingTyped' /\ clock' \in Nat /\ manual' \in Nat
    BY <1>1, <1>6 DEF AutoInv, Typed, TradingTyped, TrackingTyped
  <2>4. Typed'
    BY <1>1, <1>3, <2>2, <2>3, RequestKeepsTyped
  <2>5. ASSUME ~Lost, NEW u \in Tasks, GoesOn(u)'
        PROVE  PassSound(pc[u], cycle[u])'
    <3>1. GoesOn(u)
      BY <1>1, <2>5 DEF GoesOn, Alive
    <3>2. PassSound(pc[u], cycle[u])
      BY <2>5, <3>1 DEF AutoInv, HeldInv
    <3> QED  BY <1>1, <1>6, <3>2 DEF PassSound, IsTracked, TrackedSymbols, Calm, Undisturbed
  <2>6. ~Lost => CooldownBound'
    BY <1>1 DEF AutoInv, HeldInv, CooldownBound
  <2>7. ~Lost /\ Calm => BooksHeld'
    <3> SUFFICES ASSUME ~Lost, Calm PROVE ListedIsHeld'
      BY <2>1 DEF BooksHeld
    <3>1. ListedIsHeld /\ stopper.todo \subseteq Symbols
      BY <1>4 DEF AutoInv, Typed, StopTyped
    <3> QED  BY <1>1, <1>3, <2>1, <3>1 DEF ListedIsHeld, IsOpen
  <2>8. ~Lost /\ intrusions = {} => AllHeldTracked'
    <3> SUFFICES ASSUME ~Lost, intrusions = {}, NEW s \in Symbols, IsOpen(s)'
                 PROVE  IsTracked(s)'
      BY DEF AllHeldTracked
    <3>1. Calm /\ AllHeldTracked
      BY DEF Calm, Undisturbed, AutoInv, HeldInv
    <3>2. IsOpen(s)
      <4>1. CASE s = symbol
        BY <1>1, <1>4, <3>1, <4>1 DEF ListedIsHeld
      <4>2. CASE s # symbol
        BY <1>3, <4>2 DEF IsOpen
      <4> QED  BY <4>1, <4>2
    <3> QED  BY <1>6, <3>1, <3>2 DEF AllHeldTracked, IsTracked
  <2>9. HeldInv'
    BY <1>6, <2>5, <2>6, <2>7, <2>8 DEF HeldInv, Lost, Calm, Undisturbed
  <2> QED  BY <2>4, <2>9
<1>7. \/ \E open : FlattenReturns(open, {})
      \/ /\ stopper' = [stopper EXCEPT !.todo = @ \ {symbol}, !.closed = @ \cup reported]
         /\ UNCHANGED <<tracked, intrusions>>
  BY <1>2 DEF FlattenOn, historyVars
<1> QED  BY <1>5, <1>6, <1>7

\* A trade by hand is an intrusion.
LEMMA ManualOrderKeepsHeld ==
  ASSUME AutoInv, NEW symbol \in Symbols, NEW side \in {"BUY", "SELL"}, NEW px \in Prices,
         ManualOrder(symbol, side, px)
  PROVE  Typed' /\ HeldInv'
<1>1. /\ FillOrder(symbol, side, 1, px) /\ manual' = manual + 1
      /\ intrusions' = intrusions \cup {"manual_order"}
      /\ UNCHANGED <<handle, cancelled, stopper, pc, cycle, running, tracked, risk, clock>>
  BY DEF ManualOrder, requestVars, taskVars
<1>2. AccountSound'
  <2>1. side \in Trades /\ 1 \in Nat \ {0} /\ px \in Nat /\ AccountSound
    BY AutoTradingAssumption DEF Trades, AutoInv, Typed
  <2> QED  BY <1>1, <2>1, OrderFills
<1>3. TrackingTyped' /\ clock' \in Nat /\ manual' \in Nat /\ StopTyped'
  BY <1>1 DEF AutoInv, Typed, TradingTyped, TrackingTyped, StopTyped
<1>4. Typed'
  BY <1>1, <1>2, <1>3, RequestKeepsTyped
<1>5. (~Lost' => ~Lost) /\ ~Calm' /\ intrusions' # {}
  BY <1>1 DEF Lost, Calm, Undisturbed, Intruders
<1>6. ASSUME ~Lost', NEW u \in Tasks, GoesOn(u)'
      PROVE  PassSound(pc[u], cycle[u])'
  <2>1. GoesOn(u)
    BY <1>1, <1>6 DEF GoesOn, Alive
  <2>2. PassSound(pc[u], cycle[u])
    BY <1>5, <1>6, <2>1 DEF AutoInv, HeldInv
  <2> QED  BY <1>1, <1>5, <2>2 DEF PassSound, IsTracked, TrackedSymbols
<1>7. ~Lost' => CooldownBound'
  BY <1>1, <1>5 DEF AutoInv, HeldInv, CooldownBound
<1>8. HeldInv'
  BY <1>5, <1>6, <1>7 DEF HeldInv
<1> QED  BY <1>4, <1>8

LEMMA TimeKeepsHeld ==
  ASSUME AutoInv, Tick \/ UNCHANGED autoVars
  PROVE  Typed' /\ HeldInv'
<1>1. /\ clock' = clock + 1 \/ clock' = clock
      /\ UNCHANGED <<handle, cancelled, stopper, pc, cycle, running, tracked, risk, cash, lots,
                     manual, intrusions>>
  BY DEF Tick, autoVars, requestVars, taskVars, tradeVars, accountVars, worldVars, historyVars
<1>2. clock \in Nat /\ risk.cooldown_until \in Nat /\ CooldownTicks \in Nat
  BY AutoRiskAssumption DEF AutoInv, Typed, TradingTyped
<1>3. clock' \in Nat /\ clock <= clock'
  BY <1>1, <1>2
<1>4. AccountSound' /\ TrackingTyped' /\ manual' \in Nat /\ StopTyped'
  BY <1>1 DEF AutoInv, Typed, AccountSound, TradingTyped, TrackingTyped, StopTyped
<1>5. Typed'
  BY <1>1, <1>3, <1>4, RequestKeepsTyped
<1>6. ASSUME ~Lost, NEW u \in Tasks, GoesOn(u)'
      PROVE  PassSound(pc[u], cycle[u])'
  <2>1. GoesOn(u)
    BY <1>1, <1>6 DEF GoesOn, Alive
  <2>2. PassSound(pc[u], cycle[u]) /\ cycle[u].now \in Nat
    BY <1>6, <2>1 DEF AutoInv, HeldInv, Typed, TradingTyped, CycleType
  <2>3. cycle[u].now <= clock => cycle[u].now <= clock'
    BY <1>2, <1>3, <2>2
  <2> QED  BY <1>1, <2>2, <2>3 DEF PassSound, IsTracked, TrackedSymbols, Calm, Undisturbed
<1>7. ~Lost => CooldownBound'
  BY <1>1, <1>2, <1>3 DEF AutoInv, HeldInv, CooldownBound
<1>8. ~Lost => /\ Calm' => BooksHeld'
               /\ intrusions' = {} => AllHeldTracked'
  BY <1>1 DEF AutoInv, HeldInv, BooksHeld, ListedIsHeld,
     TrackedToTheUnit, TrackedSymbols, IsTracked, IsOpen, AllHeldTracked, Calm, Undisturbed
<1>9. HeldInv'
  BY <1>1, <1>6, <1>7, <1>8 DEF HeldInv, Lost
<1> QED  BY <1>5, <1>9

-----------------------------------------------------------------------------
LEMMA InitAutoInv ==
  ASSUME AutoInit
  PROVE  AutoInv
<1>1. LInv
  BY InitLInv
<1>2. AccountSound /\ StopTyped /\ TradingTyped
  <2>1. cash \in Int /\ lots = [s \in Symbols |-> <<>>]
    BY AutoTradingAssumption DEF AutoInit, AccountInit
  <2>2. AccountSound
    BY <2>1 DEF AccountSound, SameSide
  <2>3. StopTyped
    BY DEF AutoInit, StopTyped, NoStop
  <2>4. NoCycle \in CycleType
    BY DEF NoCycle, CycleType
  <2>5. TradingTyped
    BY <2>4 DEF AutoInit, TradingTyped, FreshRisk
  <2> QED  BY <2>2, <2>3, <2>5
<1>3. PassTyped
  BY DEF AutoInit, PassTyped, PassFits, Exiting
<1>4. \A t \in Tasks : ~GoesOn(t)
  BY DEF AutoInit, GoesOn, Alive
<1>5. CooldownBound /\ BooksHeld /\ AllHeldTracked
  <2>1. CooldownBound
    BY AutoRiskAssumption DEF AutoInit, CooldownBound, FreshRisk
  <2>2. BooksHeld
    BY DEF AutoInit, BooksHeld, NoStop, TrackedToTheUnit, TrackedSymbols, IsTracked
  <2>3. AllHeldTracked
    BY DEF AutoInit, AccountInit, AllHeldTracked, IsOpen
  <2> QED  BY <2>1, <2>2, <2>3
<1>6. HeldInv
  BY <1>4, <1>5 DEF HeldInv
<1> QED  BY <1>1, <1>2, <1>3, <1>6 DEF AutoInv, Typed

LEMMA NextAutoInv ==
  ASSUME AutoInv, [AutoNext]_autoVars
  PROVE  AutoInv'
<1>1. LInv'
  BY NextLInv DEF AutoInv
<1>2. Typed' /\ HeldInv'
  BY TaskNextKeepsHeld, StartKeepsHeld, StopRequestedKeepsHeld, StopReturnsKeepsHeld,
     FlattenKeepsHeld, ManualOrderKeepsHeld, TimeKeepsHeld DEF AutoNext, StopNext
<1> QED  BY <1>1, <1>2 DEF AutoInv

\* AutoTradingOrchestrator: the inductive invariant holds for any number of
\* tasks, symbols, recommendations, requests and trades by hand.
THEOREM LoopStaysSound == AutoSpec => []AutoInv
<1>1. AutoInit => AutoInv
  BY InitAutoInv
<1>2. AutoInv /\ [AutoNext]_autoVars => AutoInv'
  BY NextAutoInv
<1> QED  BY <1>1, <1>2, PTL DEF AutoSpec

\* TrackedIsHeld: what the orchestrator tracks the account holds, to the unit,
\* unless trades by hand, a lost loop or a start during an emergency stop
\* have disturbed it.
THEOREM TrackedStaysHeld == AutoSpec => []TrackedIsHeld
<1>1. AutoInv => TrackedIsHeld
  <2> SUFFICES ASSUME AutoInv, Undisturbed(Intruders), stopper.pc # "flattening",
                      NEW symbol \in TrackedSymbols
               PROVE  NetQuantity(symbol) = Sign(tracked[symbol].side) * tracked[symbol].quantity
    BY DEF TrackedIsHeld
  <2>1. ~Lost
    BY DEF Undisturbed, Intruders, Lost
  <2>2. TrackedToTheUnit /\ AccountSound /\ symbol \in Symbols
    BY <2>1 DEF AutoInv, HeldInv, BooksHeld, Calm, Typed, TrackedSymbols
  <2>3. NetQuantity(symbol) = NetOf(lots[symbol])
    BY <2>2, NetIsQuantity
  <2>4. tracked[symbol] \in Position
    BY <2>2 DEF TrackedSymbols, IsTracked, AutoInv, Typed, TradingTyped
  <2> PICK n : n = tracked[symbol].quantity
    OBVIOUS
  <2>5. n \in Nat /\ 1 * n = n /\ (-1) * n = -n
    BY <2>4 DEF Position
  <2> QED  BY <2>2, <2>3, <2>5 DEF TrackedToTheUnit, Sign
<1> QED  BY <1>1, LoopStaysSound, PTL

\* HeldIsTracked: no position is held without being watched for its stop,
\* unless it was bought by hand or left by an emergency stop.
THEOREM HeldStaysTracked == AutoSpec => []HeldIsTracked
<1>1. AutoInv => HeldIsTracked
  BY DEF AutoInv, HeldInv, AllHeldTracked, HeldIsTracked, Lost
<1> QED  BY <1>1, LoopStaysSound, PTL

\* SquareOffPassClosesLongs: the exit pass of a cycle begun at or after
\* square-off time leaves no long position, whatever fails or is answered late
\* in it, unless a loop has been lost.
THEOREM SquareOffClosesLongs == AutoSpec => []SquareOffPassClosesLongs
<1>1. AutoInv => SquareOffPassClosesLongs
  <2> SUFFICES ASSUME AutoInv, NEW t \in Tasks, Undisturbed({"lost_loop"}), running = t,
                      pc[t] = "exits", cycle[t].todo = {}, IsSquareOffTime(cycle[t].now),
                      NEW symbol \in TrackedSymbols
               PROVE  tracked[symbol].side = "SELL"
    BY DEF SquareOffPassClosesLongs
  <2>1. ~Lost
    BY DEF Undisturbed, Lost
  <2>2. PassSound("exits", cycle[t]) /\ cycle[t].at = {}
    BY <2>1, TaskFacts DEF PassFits
  <2>3. tracked[symbol].side # "BUY"
    BY <2>2 DEF PassSound, Exiting
  <2>4. tracked[symbol] \in Position
    BY DEF TrackedSymbols, IsTracked, AutoInv, Typed, TradingTyped
  <2> QED  BY <2>3, <2>4 DEF Position, Trades
<1> QED  BY <1>1, LoopStaysSound, PTL

-----------------------------------------------------------------------------
(***************************************************************************)
(* Closes and entries.                                                     *)
(***************************************************************************)
\* The steps that may change what is held.
LEMMA LotsSteps ==
  ASSUME AutoInv, [AutoNext]_autoVars
  PROVE  \/ UNCHANGED lots
         \/ \E t \in Tasks, symbol \in Symbols, px \in Prices : QuoteExits(t, symbol, px)
         \/ \E t \in Tasks, symbol \in Symbols : MaybeEnter(t, symbol)
         \/ \E symbol \in Symbols, px \in Prices : FlattenAt(symbol, px)
         \/ manual' = manual + 1 /\ running = NoTask /\ UNCHANGED <<risk, clock>>
<1> USE DEF accountVars, tradeVars
<1>1. ASSUME NEW t \in Tasks, TaskNext(t)
      PROVE  \/ UNCHANGED lots
             \/ \E symbol \in Symbols, px \in Prices : QuoteExits(t, symbol, px)
             \/ \E symbol \in Symbols : MaybeEnter(t, symbol)
  <2>1. CASE LoopEnds(t) \/ BeginCycle(t) \/ CancelArrives(t)
    BY <2>1 DEF LoopEnds, BeginCycle, CancelArrives
  <2>2. CASE Answered(t)
    BY <2>2 DEF Answered, RecommendationArrives, QuoteKeeps, QuoteFails
  <2>3. CASE Runs(t)
    BY <2>3 DEF Runs, ForgetClosed, AskQuote, BeginEntries, PassOver, EndCycle
  <2> QED  BY <1>1, <2>1, <2>2, <2>3 DEF TaskNext
<1>2. CASE StopNext
  BY <1>2 DEF StopNext, StopReturns, FlattenSkips
<1>3. CASE Start \/ Tick \/ UNCHANGED autoVars \/ \E emergency \in BOOLEAN : StopRequested(emergency)
  BY <1>3 DEF Start, Tick, autoVars, StopRequested
<1>4. ASSUME NEW symbol, NEW side, NEW px, ManualOrder(symbol, side, px)
      PROVE  manual' = manual + 1 /\ running = NoTask /\ UNCHANGED <<risk, clock>>
  BY <1>4 DEF ManualOrder, NobodyRuns
<1> QED  BY <1>1, <1>2, <1>3, <1>4 DEF AutoNext

\* ClosesOnlyReduce: while the books are calm, an order of the orchestrator
\* leaves an open position as it is or closes all of it, though its quantity
\* was read before the quote was awaited.
THEOREM ClosesReduce == AutoSpec => ClosesOnlyReduce
<1>1. AutoInv /\ [AutoNext]_autoVars =>
        [Undisturbed(Intruders) /\ manual' = manual =>
           \A symbol \in Symbols :
             IsOpen(symbol) =>
               \/ lots'[symbol] = lots[symbol]
               \/ lots'[symbol] = <<>>]_autoVars
  <2> SUFFICES ASSUME AutoInv, [AutoNext]_autoVars, Calm, manual' = manual,
                      NEW s \in Symbols, IsOpen(s)
               PROVE  lots'[s] = lots[s] \/ lots'[s] = <<>>
    BY DEF Calm
  <2>1. ~Lost /\ manual \in Nat
    BY DEF Calm, Undisturbed, Intruders, Lost, AutoInv, Typed, TradingTyped
  <2>2. ASSUME NEW t \in Tasks, NEW symbol \in Symbols, NEW px \in Prices,
               QuoteExits(t, symbol, px)
        PROVE  lots'[s] = lots[s] \/ lots'[s] = <<>>
    <3>1. /\ GoesOn(t) /\ cycle[t].at = {symbol} /\ cycle[t].snapshot[symbol] \in Position
          /\ PassSound("quote", cycle[t])
          /\ UNCHANGED lots \/ ExitFills(t, symbol, px)
      BY <2>1, <2>2, ExitSteps DEF ExitRejected
    <3>2. TrackedToTheUnit
      BY <2>1, <3>1, BooksWhileGoing
    <3>3. IsTracked(symbol) /\ tracked[symbol] = cycle[t].snapshot[symbol]
      BY <3>1 DEF PassSound, Exiting
    <3>4. CASE ExitFills(t, symbol, px)
      <4>1. /\ \A u \in Symbols \ {symbol} : lots'[u] = lots[u]
            /\ NetOf(lots[symbol]) = (IF cycle[t].snapshot[symbol].side = "BUY"
                                      THEN cycle[t].snapshot[symbol].quantity
                                      ELSE -cycle[t].snapshot[symbol].quantity)
                 => lots'[symbol] = <<>>
        BY <3>1, <3>4, ExitOfAccount
      <4> QED  BY <3>2, <3>3, <4>1 DEF TrackedToTheUnit, TrackedSymbols
    <3> QED  BY <3>1, <3>4
  <2>3. ASSUME NEW t \in Tasks, NEW symbol \in Symbols, MaybeEnter(t, symbol)
        PROVE  lots'[s] = lots[s]
    <3>1. ~IsOpen(symbol)
      BY <2>3, EntrySteps
    <3>2. \E side, n, px : FillOrder(symbol, side, n, px) \/ UNCHANGED lots
      BY <2>3 DEF MaybeEnter, accountVars
    <3> QED  BY <3>1, <3>2 DEF FillOrder, AutoInv, Typed, AccountSound
  <2>4. ASSUME NEW symbol \in Symbols, NEW px \in Prices, FlattenAt(symbol, px)
        PROVE  lots'[s] = lots[s] \/ lots'[s] = <<>>
    <3> PICK quantity : quantity = stopper.quantities[symbol]
      OBVIOUS
    <3> PICK side : side = IF quantity > 0 THEN "SELL" ELSE "BUY"
      OBVIOUS
    <3> PICK n : n = IF quantity > 0 THEN quantity ELSE -quantity
      OBVIOUS
    <3>1. /\ stopper.pc = "flattening" /\ symbol \in stopper.todo
          /\ UNCHANGED lots \/ FillOrder(symbol, side, n, px)
      BY <2>4 DEF FlattenAt, MarketOrder
    <3>2. /\ quantity \in Int \ {0} /\ quantity = NetOf(lots[symbol])
      BY <2>1, <3>1 DEF AutoInv, Typed, StopTyped, HeldInv, BooksHeld, ListedIsHeld
    <3>3. side \in Trades /\ n \in Nat \ {0} /\ px \in Nat /\ AccountSound
      BY <3>2, AutoTradingAssumption DEF Trades, AutoInv, Typed
    <3>4. CASE FillOrder(symbol, side, n, px)
      <4>1. /\ AccountSound'
            /\ NetOf(lots'[symbol]) = NetOf(lots[symbol]) + (IF side = "BUY" THEN n ELSE -n)
            /\ \A u \in Symbols \ {symbol} : lots'[u] = lots[u]
        BY <3>3, <3>4, OrderFills
      <4>2. NetOf(lots'[symbol]) = 0
        <5>1. quantity + (IF side = "BUY" THEN n ELSE -n) = 0
          BY <3>2
        <5> QED  BY ONLY <3>2, <4>1, <5>1
      <4>4. lots'[symbol] \in Seq(Unit)
        BY <4>1 DEF AccountSound
      <4>3. lots'[symbol] = <<>>
        BY <4>2, <4>4, NetZero
      <4> QED  BY <4>1, <4>3
    <3> QED  BY <3>1, <3>4
  <2>5. manual' # manual + 1
    BY <2>1
  <2> QED  BY <2>2, <2>3, <2>4, <2>5, LotsSteps
<1> QED  BY <1>1, LoopStaysSound, PTL DEF AutoSpec, ClosesOnlyReduce

\* The steps that may change what is remembered of the risk.
LEMMA RiskSteps ==
  ASSUME AutoInv, [AutoNext]_autoVars
  PROVE  \/ UNCHANGED risk
         \/ risk' = FreshRisk
         \/ \E t \in Tasks, symbol \in Symbols, px \in Prices : QuoteExits(t, symbol, px)
         \/ \E t \in Tasks, symbol \in Symbols : MaybeEnter(t, symbol)
<1> USE DEF tradeVars
<1>1. ASSUME NEW t \in Tasks, TaskNext(t)
      PROVE  \/ UNCHANGED risk
             \/ \E symbol \in Symbols, px \in Prices : QuoteExits(t, symbol, px)
             \/ \E symbol \in Symbols : MaybeEnter(t, symbol)
  <2>1. CASE LoopEnds(t) \/ BeginCycle(t) \/ CancelArrives(t)
    BY <2>1 DEF LoopEnds, BeginCycle, CancelArrives
  <2>2. CASE Answered(t)
    BY <2>2 DEF Answered, RecommendationArrives, QuoteKeeps, QuoteFails
  <2>3. CASE Runs(t)
    BY <2>3 DEF Runs, ForgetClosed, AskQuote, BeginEntries, PassOver, EndCycle
  <2> QED  BY <1>1, <2>1, <2>2, <2>3 DEF TaskNext
<1>2. CASE StopNext
  BY <1>2 DEF StopNext, StopReturns, FlattenSkips, FlattenAt
<1>3. CASE Start \/ Tick \/ UNCHANGED autoVars \/ \E emergency \in BOOLEAN : StopRequested(emergency)
  BY <1>3 DEF Start, Tick, autoVars, StopRequested
<1>4. ASSUME NEW symbol, NEW side, NEW px, ManualOrder(symbol, side, px)
      PROVE  UNCHANGED risk
  BY <1>4 DEF ManualOrder
<1> QED  BY <1>1, <1>2, <1>3, <1>4 DEF AutoNext

\* A position that is opened in the entry pass is opened by MaybeEnter, of the
\* task that runs.
LEMMA EntryIsMaybeEnter ==
  ASSUME AutoInv, [AutoNext]_autoVars, NEW s \in Symbols, NEW t \in Tasks,
         pc[t] = "entries", running = t, Opens(s)
  PROVE  MaybeEnter(t, s) /\ EntryOpens(t, s)
<1>1. running # NoTask
  BY AutoTradingAssumption
<1>2. \A u \in Tasks, symbol \in Symbols, px \in Prices : ~QuoteExits(u, symbol, px)
  BY <1>1 DEF QuoteExits, QuoteArrives, Resumes, NobodyRuns
<1>3. \A symbol \in Symbols, px \in Prices : ~FlattenAt(symbol, px)
  BY <1>1 DEF FlattenAt, NobodyRuns
<1>4. ~UNCHANGED lots
  BY DEF Opens
<1>5. PICK u \in Tasks, symbol \in Symbols : MaybeEnter(u, symbol)
  BY <1>1, <1>2, <1>3, <1>4, LotsSteps
<1>6. u = t
  BY <1>5 DEF MaybeEnter
<1>7. EntryOpens(t, symbol)
  BY <1>4, <1>5, <1>6, EntrySteps
<1>8. symbol = s
  BY <1>7 DEF EntryOpens, FillOrder, Opens, AutoInv, Typed, AccountSound
<1> QED  BY <1>5, <1>6, <1>7, <1>8

\* EntriesWaitTheirTurn: only a start brings the end of a cooldown forward, no
\* entry is made before it although every check uses the time its cycle began
\* at, and no cycle enters a symbol it has exited.
THEOREM EntriesWait == AutoSpec => EntriesWaitTheirTurn
<1>1. AutoInv /\ [AutoNext]_autoVars =>
        [Undisturbed({"lost_loop"}) =>
           /\ risk'.cooldown_until < risk.cooldown_until => risk' = FreshRisk
           /\ \A symbol \in Symbols : Entry(symbol) => clock >= risk.cooldown_until]_autoVars
  <2> SUFFICES ASSUME AutoInv, [AutoNext]_autoVars, ~Lost
               PROVE  /\ risk'.cooldown_until < risk.cooldown_until => risk' = FreshRisk
                      /\ \A symbol \in Symbols :
                           Entry(symbol) => clock >= risk.cooldown_until
    BY DEF Undisturbed, Lost
  <2>1. risk.cooldown_until \in Nat /\ clock \in Nat /\ CooldownTicks \in Nat
    BY AutoRiskAssumption DEF AutoInv, Typed, TradingTyped
  <2>2. ASSUME NEW t \in Tasks, NEW symbol \in Symbols, NEW px \in Prices,
               QuoteExits(t, symbol, px)
        PROVE  risk'.cooldown_until \in Nat /\ risk'.cooldown_until >= risk.cooldown_until
    <3>1. /\ PassSound("quote", cycle[t]) /\ cycle[t] \in CycleType
          /\ \/ UNCHANGED risk
             \/ risk'.cooldown_until \in {risk.cooldown_until, cycle[t].now + CooldownTicks}
      BY <2>2, ExitSteps DEF ExitRejected
    <3>2. cycle[t].now \in Nat /\ risk.cooldown_until <= cycle[t].now + CooldownTicks
      BY <3>1 DEF CycleType, PassSound, InCycle
    <3> QED  BY <2>1, <3>1, <3>2
  <2>3. ASSUME NEW t \in Tasks, NEW symbol \in Symbols, MaybeEnter(t, symbol)
        PROVE  risk'.cooldown_until = risk.cooldown_until
    BY <2>3, EntrySteps
  <2>4. risk'.cooldown_until < risk.cooldown_until => risk' = FreshRisk
    BY <2>1, <2>2, <2>3, RiskSteps
  <2>5. ASSUME NEW symbol \in Symbols, Entry(symbol)
        PROVE  clock >= risk.cooldown_until
    <3>1. PICK t \in Tasks : pc[t] = "entries" /\ running = t /\ Opens(symbol)
      BY <2>5 DEF Entry
    <3>2. EntryOpens(t, symbol)
      BY <3>1, EntryIsMaybeEnter
    <3>3. cycle[t].now <= clock /\ cycle[t].now \in Nat
      BY <3>1, TaskFacts DEF PassSound, InCycle, CycleType
    <3> QED  BY <2>1, <3>2, <3>3 DEF EntryOpens
  <2> QED  BY <2>4, <2>5
<1>2. AutoInv /\ [AutoNext]_autoVars =>
        [intrusions = {} =>
           \A t \in Tasks, symbol \in Symbols :
             running = t /\ Entry(symbol) => cycle[t].snapshot[symbol] = Untracked]_autoVars
  <2> SUFFICES ASSUME AutoInv, [AutoNext]_autoVars, intrusions = {}, NEW t \in Tasks,
                      NEW symbol \in Symbols, running = t, Entry(symbol)
               PROVE  cycle[t].snapshot[symbol] = Untracked
    OBVIOUS
  <2>1. pc[t] = "entries" /\ Opens(symbol)
    BY DEF Entry
  <2>2. MaybeEnter(t, symbol)
    BY <2>1, EntryIsMaybeEnter
  <2>3. ~Lost /\ Calm
    BY DEF Lost, Calm, Undisturbed
  <2>4. /\ PassSound("entries", cycle[t]) /\ PassFits("entries", cycle[t]) /\ GoesOn(t)
        /\ symbol \in cycle[t].todo
    BY <2>2, <2>3, EntrySteps
  <2>5. symbol \notin cycle[t].exited
    BY <2>4 DEF PassFits
  <2>6. ~IsTracked(symbol)
    <3> SUFFICES ASSUME IsTracked(symbol) PROVE FALSE
      OBVIOUS
    <3>1. TrackedToTheUnit
      BY <2>3, <2>4, BooksWhileGoing
    <3>2. tracked[symbol] \in Position /\ symbol \in TrackedSymbols
      BY DEF IsTracked, TrackedSymbols, AutoInv, Typed, TradingTyped
    <3>3. tracked[symbol].quantity \in Nat \ {0}
      BY <3>2 DEF Position
    <3>4. NetOf(lots[symbol]) = 0
      BY <2>1 DEF Opens, NetOf
    <3> QED  BY <3>1, <3>2, <3>3, <3>4 DEF TrackedToTheUnit
  <2> QED  BY <2>4, <2>5, <2>6 DEF PassSound
<1> QED  BY <1>1, <1>2, LoopStaysSound, PTL
         DEF AutoSpec, EntriesWaitTheirTurn, CooldownIsServed, NoReentryInTheSameCycle
==============================================================================
