---------------------------- MODULE OptionProofs ----------------------------
(***************************************************************************)
(* Proofs about OptionTrading, for any number of loop tasks, clients,      *)
(* requests and cycles.  The limit on open positions rests on PInv, which  *)
(* is about the tasks and what is tracked.  OptionInv adds three layers on *)
(* the types: LedgerSound (nobody sells what another is selling, so no     *)
(* option is written and the premium deployed is bounded), DaySound (the   *)
(* gate's record is the P&L of the day) and WatchSound (what is held is    *)
(* tracked, and what a cycle is about to exit is tracked as it listed it). *)
(***************************************************************************)
EXTENDS OptionTrading, SumTheorems, FiniteSetTheorems, TLAPS

Places == {"idle", "waiting", "exits", "entries", "advice", "premium", "quote", "exitquote"}

\* The awaits of an entry, after its check of the limit.
Entering == {"advice", "premium"}

OptionTyped ==
    /\ pc \in [Actors -> Places]
    /\ handle \in Tasks \cup {Nothing}
    /\ stopper \in Tasks \cup {Nothing}
    /\ running \in Tasks \cup {Nothing}
    /\ cancelled \subseteq Tasks
    /\ tracked = [u \in Underlyings |-> tracked[u]]

\* A task that runs has not been cancelled, and a cancelled one has not ended
\* and is what the stop request waits for.
TasksSound ==
    /\ running # Nothing => running \notin cancelled /\ pc[running] # "idle"
    /\ \A t \in cancelled : Alive(t) /\ t = stopper

Lost == "lost_loop" \in intrusions

\* Unless a loop has been lost, the only task that goes on is the one _task names.
OneLoop == ~Lost => \A t \in Tasks : Alive(t) /\ t \notin cancelled => t = handle

\* An entry that will go on still finds the room it has been promised.
RoomSound ==
    ~Lost =>
      /\ Cardinality(TrackedUnderlyings) <= MaxOpenPositions
      /\ \A t \in Tasks : pc[t] \in Entering /\ t \notin cancelled =>
           Cardinality(TrackedUnderlyings) < MaxOpenPositions

\* The inductive invariant.
PInv == OptionTyped /\ TasksSound /\ OneLoop /\ RoomSound

-----------------------------------------------------------------------------
(***************************************************************************)
(* What is tracked.                                                        *)
(***************************************************************************)
LEMMA TrackedIsFinite == IsFiniteSet(TrackedUnderlyings)
BY OptionTradingAssumption, FS_Subset DEF TrackedUnderlyings

\* Removing positions makes room; one position takes the room of one.
LEMMA FewerTracked ==
  ASSUME TrackedUnderlyings' \subseteq TrackedUnderlyings
  PROVE  /\ Cardinality(TrackedUnderlyings) \in Nat
         /\ Cardinality(TrackedUnderlyings') \in Nat
         /\ Cardinality(TrackedUnderlyings') <= Cardinality(TrackedUnderlyings)
BY TrackedIsFinite, FS_Subset, FS_CardinalityType

LEMMA OneMoreTracked ==
  ASSUME NEW x, TrackedUnderlyings' \subseteq TrackedUnderlyings \cup {x}
  PROVE  /\ Cardinality(TrackedUnderlyings) \in Nat
         /\ Cardinality(TrackedUnderlyings') \in Nat
         /\ Cardinality(TrackedUnderlyings') <= Cardinality(TrackedUnderlyings) + 1
<1>1. /\ IsFiniteSet(TrackedUnderlyings \cup {x})
      /\ Cardinality(TrackedUnderlyings) \in Nat
      /\ Cardinality(TrackedUnderlyings \cup {x}) <= Cardinality(TrackedUnderlyings) + 1
  BY TrackedIsFinite, FS_AddElement, FS_CardinalityType
<1>2. /\ IsFiniteSet(TrackedUnderlyings')
      /\ Cardinality(TrackedUnderlyings') <= Cardinality(TrackedUnderlyings \cup {x})
  BY <1>1, FS_Subset
<1>3. /\ Cardinality(TrackedUnderlyings') \in Nat
      /\ Cardinality(TrackedUnderlyings \cup {x}) \in Nat
  BY <1>1, <1>2, FS_CardinalityType
<1> QED  BY <1>1, <1>2, <1>3

\* Tracking and forgetting one underlying.
LEMMA TrackedExcept ==
  ASSUME OptionTyped, NEW u, NEW position, tracked' = [tracked EXCEPT ![u] = position]
  PROVE  /\ (tracked = [q \in Underlyings |-> tracked[q]])'
         /\ TrackedUnderlyings' \subseteq TrackedUnderlyings \cup {u}
         /\ position = Untracked => TrackedUnderlyings' \subseteq TrackedUnderlyings
BY DEF OptionTyped, TrackedUnderlyings

-----------------------------------------------------------------------------
(***************************************************************************)
(* Steps.                                                                  *)
(***************************************************************************)
\* One actor goes from one place to another: a task that may go on, or a client.
\* It enters an entry only with room, and only such an entry takes the room.
LEMMA ActorMoves ==
  ASSUME PInv, NEW a \in Actors, NEW place \in Places,
         pc' = [pc EXCEPT ![a] = place],
         UNCHANGED <<handle, cancelled, stopper>>,
         a \notin cancelled,
         a \in Tasks => Alive(a),
         running' = Nothing \/ (running' = a /\ a \in Tasks /\ place # "idle"),
         (tracked = [u \in Underlyings |-> tracked[u]])',
         "lost_loop" \in intrusions' <=> "lost_loop" \in intrusions,
         \/ TrackedUnderlyings' \subseteq TrackedUnderlyings
         \/ /\ a \in Tasks /\ pc[a] \in Entering /\ place \notin Entering
            /\ \E x : TrackedUnderlyings' \subseteq TrackedUnderlyings \cup {x},
         ~Lost /\ a \in Tasks /\ place \in Entering =>
           /\ Cardinality(TrackedUnderlyings) < MaxOpenPositions
           /\ TrackedUnderlyings' \subseteq TrackedUnderlyings
  PROVE  PInv'
<1>1. /\ pc' \in [Actors -> Places]
      /\ pc'[a] = place
      /\ \A b \in Actors : b # a => pc'[b] = pc[b]
  BY DEF PInv, OptionTyped
<1>2. OptionTyped'
  BY <1>1 DEF PInv, OptionTyped
<1>3. TasksSound'
  <2>1. \A t \in cancelled : t \in Actors /\ t # a
    BY DEF PInv, OptionTyped, Actors
  <2> QED  BY <1>1, <2>1 DEF PInv, TasksSound, Alive
<1>4. OneLoop'
  BY <1>1 DEF PInv, OneLoop, Lost, Alive, Actors
<1>5. RoomSound'
  <2> SUFFICES ASSUME ~Lost
               PROVE  /\ Cardinality(TrackedUnderlyings') <= MaxOpenPositions
                      /\ \A t \in Tasks : pc'[t] \in Entering /\ t \notin cancelled =>
                           Cardinality(TrackedUnderlyings') < MaxOpenPositions
    BY DEF RoomSound, Lost
  <2>1. /\ Cardinality(TrackedUnderlyings) <= MaxOpenPositions
        /\ \A t \in Tasks : pc[t] \in Entering /\ t \notin cancelled =>
             Cardinality(TrackedUnderlyings) < MaxOpenPositions
    BY DEF PInv, RoomSound
  <2>2. MaxOpenPositions \in Nat
    BY OptionTradingAssumption
  <2>3. CASE TrackedUnderlyings' \subseteq TrackedUnderlyings
    <3>1. \A t \in Tasks : pc'[t] \in Entering /\ t \notin cancelled =>
            Cardinality(TrackedUnderlyings) < MaxOpenPositions
      BY <1>1, <2>1 DEF Actors
    <3> QED  BY <2>1, <2>2, <2>3, <3>1, FewerTracked
  <2>4. ASSUME a \in Tasks, pc[a] \in Entering, place \notin Entering,
               NEW x, TrackedUnderlyings' \subseteq TrackedUnderlyings \cup {x}
        PROVE  /\ Cardinality(TrackedUnderlyings') <= MaxOpenPositions
               /\ \A t \in Tasks : ~(pc'[t] \in Entering /\ t \notin cancelled)
    <3>1. Cardinality(TrackedUnderlyings) < MaxOpenPositions
      BY <2>1, <2>4
    <3>2. Cardinality(TrackedUnderlyings') <= MaxOpenPositions
      BY <2>2, <2>4, <3>1, OneMoreTracked
    <3>3. \A t \in Tasks : Alive(t) /\ t \notin cancelled => t = a
      BY <2>4 DEF PInv, OneLoop
    <3>4. \A t \in Tasks : pc'[t] \in Entering => t = a \/ Alive(t)
      BY <1>1 DEF Actors, Alive, Entering
    <3> QED  BY <1>1, <2>4, <3>2, <3>3, <3>4
  <2> QED  BY <2>3, <2>4
<1> QED  BY <1>2, <1>3, <1>4, <1>5 DEF PInv

\* Such a move without a change to what is tracked.
LEMMA QuietMoves ==
  ASSUME PInv, NEW a \in Actors, NEW place \in Places,
         pc' = [pc EXCEPT ![a] = place],
         UNCHANGED <<handle, cancelled, stopper, tracked>>,
         a \notin cancelled,
         a \in Tasks => Alive(a),
         running' = Nothing \/ (running' = a /\ a \in Tasks /\ place # "idle"),
         "lost_loop" \in intrusions' <=> "lost_loop" \in intrusions,
         ~Lost /\ a \in Tasks /\ place \in Entering =>
           Cardinality(TrackedUnderlyings) < MaxOpenPositions
  PROVE  PInv'
<1>1. (tracked = [u \in Underlyings |-> tracked[u]])'
  BY DEF PInv, OptionTyped
<1>2. TrackedUnderlyings' = TrackedUnderlyings
  BY DEF TrackedUnderlyings
<1> QED  BY <1>1, <1>2, ActorMoves

\* Where the end of an entry leads, for a task and for a client.
LEMMA EntryOverMoves ==
  ASSUME NEW a \in Actors, NobodyRuns, EntryOver(a)
  PROVE  \E place \in {"entries", "idle"} :
           /\ pc' = [pc EXCEPT ![a] = place]
           /\ running' = Nothing \/ (running' = a /\ a \in Tasks /\ place # "idle")
BY DEF EntryOver, GoesOn, Answered, NobodyRuns

LEMMA EnterAtKeepsPInv ==
  ASSUME PInv, NEW a \in Actors, NEW px \in Premiums, EnterAt(a, px)
  PROVE  PInv'
<1>1. a \notin cancelled /\ Alive(a) /\ NobodyRuns /\ pc[a] = "premium"
  BY DEF EnterAt, Resumes, Alive
<1>2. EntryOver(a) /\ UNCHANGED <<handle, cancelled, stopper>>
  BY DEF EnterAt, requestVars
<1>3. PICK place \in {"entries", "idle"} :
        /\ pc' = [pc EXCEPT ![a] = place]
        /\ running' = Nothing \/ (running' = a /\ a \in Tasks /\ place # "idle")
  BY <1>1, <1>2, EntryOverMoves
<1>4. "lost_loop" \in intrusions' <=> "lost_loop" \in intrusions
  BY DEF EnterAt
<1>5. place \in Places /\ place \notin Entering /\ pc[a] \in Entering
  BY <1>1 DEF Places, Entering
<1>6. \/ UNCHANGED tracked
      \/ a \in Tasks /\ \E position : tracked' = [tracked EXCEPT ![job[a].at] = position]
  BY DEF EnterAt, Track
<1>7. CASE UNCHANGED tracked
  BY <1>1, <1>2, <1>3, <1>4, <1>5, <1>7, QuietMoves
<1>8. ASSUME a \in Tasks, NEW position, tracked' = [tracked EXCEPT ![job[a].at] = position]
      PROVE  PInv'
  <2>1. /\ (tracked = [q \in Underlyings |-> tracked[q]])'
        /\ TrackedUnderlyings' \subseteq TrackedUnderlyings \cup {job[a].at}
    BY <1>8, TrackedExcept DEF PInv
  <2> QED  BY <1>1, <1>2, <1>3, <1>4, <1>5, <1>8, <2>1, ActorMoves
<1> QED  BY <1>6, <1>7, <1>8

LEMMA ExitAtKeepsPInv ==
  ASSUME PInv, NEW a \in Actors, NEW px \in Premiums, ExitAt(a, px)
  PROVE  PInv'
<1>1. a \notin cancelled /\ Alive(a) /\ NobodyRuns
  BY DEF ExitAt, Resumes, Alive
<1>2. UNCHANGED <<handle, cancelled, stopper, intrusions>>
  BY DEF ExitAt, requestVars, worldVars
<1>3. \/ Answered(a) /\ UNCHANGED tracked
      \/ /\ a \in Tasks
         /\ tracked' = [tracked EXCEPT ![job[a].at] = Untracked]
         /\ GoesOn(a, "exits", {job[a].at}, {}) \/ CycleOver(a)
  BY DEF ExitAt, Actors
<1>4. CASE Answered(a) /\ UNCHANGED tracked
  <2>1. pc' = [pc EXCEPT ![a] = "idle"] /\ running' = Nothing
    BY <1>1, <1>4 DEF Answered, NobodyRuns
  <2> QED  BY <1>1, <1>2, <1>4, <2>1, QuietMoves DEF Places, Entering
<1>5. CASE /\ a \in Tasks
           /\ tracked' = [tracked EXCEPT ![job[a].at] = Untracked]
           /\ GoesOn(a, "exits", {job[a].at}, {}) \/ CycleOver(a)
  <2>1. PICK place \in {"exits", "waiting"} :
          pc' = [pc EXCEPT ![a] = place] /\ (running' = Nothing \/ running' = a)
    BY <1>5 DEF GoesOn, CycleOver
  <2>2. /\ (tracked = [q \in Underlyings |-> tracked[q]])'
        /\ TrackedUnderlyings' \subseteq TrackedUnderlyings
    BY <1>5, TrackedExcept DEF PInv
  <2>3. place \in Places /\ place \notin Entering /\ place # "idle"
    BY DEF Places, Entering
  <2> QED  BY <1>1, <1>2, <1>5, <2>1, <2>2, <2>3, ActorMoves
<1> QED  BY <1>3, <1>4, <1>5

\* A premium is asked for within an entry that has begun.
LEMMA AdvisedKeepsPInv ==
  ASSUME PInv, NEW a \in Actors, NEW contract \in Contracts, NEW worthwhile \in BOOLEAN,
         Advised(a, contract, worthwhile)
  PROVE  PInv'
<1>1. a \notin cancelled /\ Alive(a) /\ NobodyRuns /\ pc[a] = "advice"
  BY DEF Advised, Resumes, Alive
<1>2. UNCHANGED <<handle, cancelled, stopper, tracked, intrusions>>
  BY DEF Advised, requestVars, tradeVars, worldVars
<1>3. \/ EntryOver(a)
      \/ pc' = [pc EXCEPT ![a] = "premium"] /\ running' = Nothing
  BY DEF Advised, AskPremium
<1>4. CASE EntryOver(a)
  <2>1. PICK place \in {"entries", "idle"} :
          /\ pc' = [pc EXCEPT ![a] = place]
          /\ running' = Nothing \/ (running' = a /\ a \in Tasks /\ place # "idle")
    BY <1>1, <1>4, EntryOverMoves
  <2>2. place \in Places /\ place \notin Entering
    BY DEF Places, Entering
  <2> QED  BY <1>1, <1>2, <2>1, <2>2, QuietMoves
<1>5. CASE pc' = [pc EXCEPT ![a] = "premium"] /\ running' = Nothing
  <2>1. ~Lost /\ a \in Tasks => Cardinality(TrackedUnderlyings) < MaxOpenPositions
    BY <1>1 DEF PInv, RoomSound, Entering
  <2> QED  BY <1>1, <1>2, <1>5, <2>1, QuietMoves DEF Places
<1> QED  BY <1>3, <1>4, <1>5

\* Whatever fails ends the call.
LEMMA FailuresKeepPInv ==
  ASSUME PInv, NEW a \in Actors,
         PremiumFails(a) \/ NotAdvised(a) \/ ExitQuoteFails(a)
  PROVE  PInv'
<1>1. a \notin cancelled /\ Alive(a) /\ NobodyRuns
  BY DEF PremiumFails, NotAdvised, ExitQuoteFails, Resumes, Alive
<1>2. UNCHANGED <<handle, cancelled, stopper, tracked, intrusions>>
  BY DEF PremiumFails, NotAdvised, ExitQuoteFails, requestVars, tradeVars, worldVars
<1>3. \E place \in {"entries", "idle", "exits"} :
        /\ pc' = [pc EXCEPT ![a] = place]
        /\ running' = Nothing \/ (running' = a /\ a \in Tasks /\ place # "idle")
  <2>1. CASE PremiumFails(a) \/ NotAdvised(a)
    BY <1>1, <2>1, EntryOverMoves DEF PremiumFails, NotAdvised
  <2>2. CASE ExitQuoteFails(a)
    BY <1>1, <2>2 DEF ExitQuoteFails, Answered, GoesOn, NobodyRuns, Actors
  <2> QED  BY <2>1, <2>2
<1>4. PICK place \in {"entries", "idle", "exits"} :
        /\ pc' = [pc EXCEPT ![a] = place]
        /\ running' = Nothing \/ (running' = a /\ a \in Tasks /\ place # "idle")
  BY <1>3
<1>5. place \in Places /\ place \notin Entering
  BY DEF Places, Entering
<1> QED  BY <1>1, <1>2, <1>4, <1>5, QuietMoves

\* The limit is checked where an entry begins.
LEMMA ConsiderEntryKeepsPInv ==
  ASSUME PInv, NEW t \in Tasks, NEW u \in Underlyings, ConsiderEntry(t, u)
  PROVE  PInv'
<1>1. running = t /\ t \notin cancelled /\ Alive(t) /\ t \in Actors
  BY OptionTradingAssumption DEF PInv, TasksSound, ConsiderEntry, Visits, Alive, Actors
<1>2. UNCHANGED <<handle, cancelled, stopper, tracked, intrusions>>
  BY DEF ConsiderEntry, requestVars, tradeVars, worldVars
<1>3. CASE HasRoom(u)
  <2>1. pc' = [pc EXCEPT ![t] = "advice"] /\ running' = Nothing
    BY <1>3 DEF ConsiderEntry
  <2> QED  BY <1>1, <1>2, <1>3, <2>1, QuietMoves DEF HasRoom, Places
<1>4. CASE ~HasRoom(u)
  <2>1. UNCHANGED <<pc, running>>
    BY <1>4 DEF ConsiderEntry
  <2> QED
    BY <1>2, <2>1 DEF PInv, OptionTyped, TasksSound, OneLoop, RoomSound, Lost, Alive,
                      TrackedUnderlyings
<1> QED  BY <1>3, <1>4

\* The steps of a cycle that neither enter nor track anything.
LEMMA CycleStepKeepsPInv ==
  ASSUME PInv, NEW t \in Tasks,
         \/ LoopEnds(t) \/ BeginCycle(t) \/ BeginEntries(t) \/ EndCycle(t) \/ QuoteFails(t)
         \/ \E u \in Underlyings : AskQuote(t, u)
         \/ \E px \in Premiums : QuoteArrives(t, px)
  PROVE  PInv'
<1>1. t \notin cancelled /\ Alive(t) /\ t \in Actors
  BY OptionTradingAssumption
     DEF PInv, TasksSound, LoopEnds, BeginCycle, BeginEntries, EndCycle, QuoteFails,
         AskQuote, QuoteArrives, Resumes, Visits, Alive, Actors
<1>2. UNCHANGED <<handle, cancelled, stopper, tracked>>
  BY DEF LoopEnds, BeginCycle, BeginEntries, EndCycle, QuoteFails, AskQuote, QuoteArrives,
         requestVars, tradeVars
<1>3. \A px : QuoteArrives(t, px) =>
        /\ \/ pc' = [pc EXCEPT ![t] = "exitquote"] /\ running' = Nothing
           \/ pc' = [pc EXCEPT ![t] = "exits"] /\ running' = t
        /\ "lost_loop" \in intrusions' <=> "lost_loop" \in intrusions
  <2> SUFFICES ASSUME NEW px, QuoteArrives(t, px)
               PROVE  /\ \/ pc' = [pc EXCEPT ![t] = "exitquote"] /\ running' = Nothing
                         \/ pc' = [pc EXCEPT ![t] = "exits"] /\ running' = t
                      /\ "lost_loop" \in intrusions' <=> "lost_loop" \in intrusions
    OBVIOUS
  <2> DEFINE position == job[t].snapshot[job[t].at]
  <2>1. \/ AskExitQuote(t, position.contract, NetQuantity(position.contract))
        \/ GoesOn(t, "exits", {}, {}) /\ UNCHANGED intrusions
    BY DEF QuoteArrives
  <2> HIDE DEF position
  <2> QED  BY <2>1 DEF AskExitQuote, GoesOn
<1>4. "lost_loop" \in intrusions' <=> "lost_loop" \in intrusions
  <2>1. \/ UNCHANGED intrusions
        \/ \E px \in Premiums : QuoteArrives(t, px)
    BY DEF LoopEnds, BeginCycle, BeginEntries, EndCycle, QuoteFails, AskQuote, worldVars
  <2> QED  BY <1>3, <2>1
<1>5. \/ pc' = [pc EXCEPT ![t] = "idle"] /\ running' = Nothing
      \/ \E place \in {"waiting", "exits", "entries", "quote", "exitquote"} :
           pc' = [pc EXCEPT ![t] = place] /\ (running' = Nothing \/ running' = t)
  <2>1. CASE LoopEnds(t)
    BY <2>1 DEF LoopEnds, Resumes, NobodyRuns
  <2>2. CASE BeginCycle(t)
    BY <2>2 DEF BeginCycle
  <2>3. CASE BeginEntries(t)
    BY <2>3 DEF BeginEntries
  <2>4. CASE EndCycle(t)
    BY <2>4 DEF EndCycle, CycleOver
  <2>5. CASE QuoteFails(t)
    BY <2>5 DEF QuoteFails, GoesOn
  <2>6. CASE \E u \in Underlyings : AskQuote(t, u)
    BY <2>6 DEF AskQuote
  <2>7. CASE \E px \in Premiums : QuoteArrives(t, px)
    BY <1>3, <2>7
  <2> QED  BY <2>1, <2>2, <2>3, <2>4, <2>5, <2>6, <2>7
<1>6. PICK place \in Places \ Entering :
        /\ pc' = [pc EXCEPT ![t] = place]
        /\ running' = Nothing \/ (running' = t /\ place # "idle")
  BY <1>5 DEF Places, Entering
<1> QED  BY <1>1, <1>2, <1>4, <1>6, QuietMoves

LEMMA ForgetClosedKeepsPInv ==
  ASSUME PInv, NEW t \in Tasks, NEW u \in Underlyings, ForgetClosed(t, u)
  PROVE  PInv'
<1>1. running = t /\ t \notin cancelled /\ Alive(t) /\ t \in Actors /\ pc[t] = "exits"
  BY OptionTradingAssumption DEF PInv, TasksSound, ForgetClosed, Visits, Alive, Actors
<1>2. UNCHANGED <<handle, cancelled, stopper, intrusions>>
  BY DEF ForgetClosed, requestVars, worldVars
<1>3. \E place \in {"exits", "waiting"} :
        pc' = [pc EXCEPT ![t] = place] /\ (running' = Nothing \/ running' = t)
  <2>1. pc = [pc EXCEPT ![t] = "exits"]
    BY <1>1 DEF PInv, OptionTyped
  <2> QED  BY <1>1, <2>1 DEF ForgetClosed, CycleOver
<1>4. PICK place \in {"exits", "waiting"} :
        pc' = [pc EXCEPT ![t] = place] /\ (running' = Nothing \/ running' = t)
  BY <1>3
<1>5. place \in Places /\ place \notin Entering /\ place # "idle"
  BY DEF Places, Entering
<1>6. /\ (tracked = [q \in Underlyings |-> tracked[q]])'
      /\ TrackedUnderlyings' \subseteq TrackedUnderlyings
  BY TrackedExcept DEF ForgetClosed, PInv
<1> QED  BY <1>1, <1>2, <1>4, <1>5, <1>6, ActorMoves

\* What clients ask for concerns no task.
LEMMA ClientKeepsPInv ==
  ASSUME PInv, NEW c \in Clients,
         \/ \E u \in Underlyings, count \in ManualLots : RequestEntry(c, u, count)
         \/ \E contract \in Contracts : \E size \in 1..Len(lots[contract]) :
              RequestExit(c, contract, size)
  PROVE  PInv'
<1>1. c \notin cancelled /\ c \in Actors /\ c \notin Tasks
  BY OptionTradingAssumption DEF PInv, OptionTyped, Actors
<1>2. UNCHANGED <<handle, cancelled, stopper, tracked>>
  BY DEF RequestEntry, RequestExit, requestVars, tradeVars
<1>3. "lost_loop" \in intrusions' <=> "lost_loop" \in intrusions
  BY DEF RequestEntry, RequestExit, AskExitQuote
<1>4. \E place \in Places : pc' = [pc EXCEPT ![c] = place] /\ running' = Nothing
  BY DEF RequestEntry, RequestExit, AskExitQuote, Resumes, NobodyRuns, Places
<1> QED  BY <1>1, <1>2, <1>3, <1>4, QuietMoves

\* A task that has been cancelled ends.
LEMMA CancelArrivesKeepsPInv ==
  ASSUME PInv, NEW t \in Tasks, CancelArrives(t)
  PROVE  PInv'
<1>1. /\ UNCHANGED <<handle, stopper, running, tracked, intrusions>>
      /\ running = Nothing
      /\ pc' = [pc EXCEPT ![t] = "idle"] /\ cancelled' = cancelled \ {t}
  BY DEF CancelArrives, NobodyRuns, tradeVars, worldVars
<1>2. /\ pc' \in [Actors -> Places]
      /\ pc'[t] = "idle"
      /\ \A b \in Actors : b # t => pc'[b] = pc[b]
  BY <1>1 DEF PInv, OptionTyped, Actors, Places
<1>3. OptionTyped'
  BY <1>1, <1>2 DEF PInv, OptionTyped
<1>4. TasksSound' /\ OneLoop'
  BY <1>1, <1>2 DEF PInv, OptionTyped, TasksSound, OneLoop, Lost, Alive, Actors
<1>5. RoomSound'
  BY <1>1, <1>2 DEF PInv, RoomSound, Lost, TrackedUnderlyings, Actors, Entering
<1> QED  BY <1>3, <1>4, <1>5 DEF PInv

\* Without a loop that is running, no task goes on.
LEMMA NobodyGoesOn ==
  ASSUME PInv, ~IsRunning, ~Lost
  PROVE  \A t \in Tasks : Alive(t) => t \in cancelled
BY OptionTradingAssumption DEF PInv, OneLoop, IsRunning

LEMMA StartKeepsPInv ==
  ASSUME PInv, Start
  PROVE  PInv'
<1>1. PICK t \in Tasks : ~Alive(t) /\ t # stopper /\ handle' = t
                          /\ pc' = [pc EXCEPT ![t] = "waiting"]
  BY DEF Start
<1>2. UNCHANGED <<cancelled, stopper, running, tracked, intrusions>> /\ ~IsRunning /\ NobodyRuns
  BY DEF Start, tradeVars, worldVars
<1>3. /\ pc' \in [Actors -> Places]
      /\ pc'[t] = "waiting"
      /\ \A b \in Actors : b # t => pc'[b] = pc[b]
  BY <1>1 DEF PInv, OptionTyped, Actors, Places
<1>4. OptionTyped'
  BY <1>1, <1>2, <1>3 DEF PInv, OptionTyped
<1>5. TasksSound'
  BY <1>1, <1>2, <1>3 DEF PInv, OptionTyped, TasksSound, Alive, Actors, NobodyRuns
<1>6. OneLoop'
  BY <1>1, <1>2, <1>3, NobodyGoesOn DEF OneLoop, Lost, Alive, Actors
<1>7. RoomSound'
  BY <1>2, <1>3 DEF PInv, RoomSound, Lost, TrackedUnderlyings, Actors, Entering
<1> QED  BY <1>4, <1>5, <1>6, <1>7 DEF PInv

LEMMA StopRequestedKeepsPInv ==
  ASSUME PInv, StopRequested
  PROVE  PInv'
<1>1. UNCHANGED <<pc, running, tracked, intrusions>> /\ NobodyRuns /\ stopper = Nothing
  BY DEF StopRequested, actorVars, tradeVars, worldVars
<1>2. cancelled = {}
  BY <1>1, OptionTradingAssumption DEF PInv, OptionTyped, TasksSound
<1>3. RoomSound'
  BY <1>1, <1>2 DEF PInv, RoomSound, Lost, TrackedUnderlyings
<1>4. CASE IsRunning
  <2>1. cancelled' = cancelled \cup {handle} /\ stopper' = handle /\ handle' = handle
    BY <1>4 DEF StopRequested
  <2>2. handle \in Tasks /\ Alive(handle)
    BY <1>4 DEF IsRunning, PInv, OptionTyped
  <2>3. OptionTyped'
    BY <1>1, <2>1, <2>2 DEF PInv, OptionTyped
  <2>4. TasksSound' /\ OneLoop'
    BY <1>1, <1>2, <2>1, <2>2 DEF PInv, TasksSound, OneLoop, Lost, Alive, NobodyRuns
  <2> QED  BY <1>3, <2>3, <2>4 DEF PInv
<1>5. CASE ~IsRunning
  <2>1. UNCHANGED <<cancelled, stopper>> /\ handle' = Nothing
    BY <1>5 DEF StopRequested
  <2>2. OptionTyped' /\ TasksSound'
    BY <1>1, <2>1 DEF PInv, OptionTyped, TasksSound, Alive
  <2>3. OneLoop'
    BY <1>1, <1>5, <2>1, NobodyGoesOn DEF OneLoop, Lost, Alive
  <2> QED  BY <1>3, <2>2, <2>3 DEF PInv
<1> QED  BY <1>4, <1>5

\* A stop that returns loses the loop that has been started meanwhile, or
\* there is none.
LEMMA StopReturnsKeepsPInv ==
  ASSUME PInv, StopReturns
  PROVE  PInv'
<1>1. /\ UNCHANGED <<pc, running, tracked, cancelled>> /\ NobodyRuns
      /\ handle' = Nothing /\ stopper' = Nothing /\ ~Alive(stopper)
      /\ intrusions' = intrusions \cup (IF IsRunning THEN {"lost_loop"} ELSE {})
  BY DEF StopReturns, actorVars, tradeVars
<1>2. cancelled = {}
  BY <1>1 DEF PInv, TasksSound
<1>3. OptionTyped' /\ TasksSound'
  BY <1>1, <1>2 DEF PInv, OptionTyped, TasksSound, Alive, NobodyRuns
<1>4. OneLoop'
  BY <1>1, <1>2, NobodyGoesOn DEF OneLoop, Lost, Alive
<1>5. RoomSound'
  BY <1>1 DEF PInv, RoomSound, Lost, TrackedUnderlyings
<1> QED  BY <1>3, <1>4, <1>5 DEF PInv

\* Whatever leaves tasks and positions alone.
LEMMA IdleStepKeepsPInv ==
  ASSUME PInv, UNCHANGED <<handle, stopper, cancelled, pc, running, tracked>>,
         "lost_loop" \in intrusions' <=> "lost_loop" \in intrusions
  PROVE  PInv'
BY DEF PInv, OptionTyped, TasksSound, OneLoop, RoomSound, Lost, Alive, TrackedUnderlyings

-----------------------------------------------------------------------------
(***************************************************************************)
(* The invariant.                                                          *)
(***************************************************************************)
LEMMA InitPInv == Init => PInv
<1> SUFFICES ASSUME Init
             PROVE  PInv
  OBVIOUS
<1> USE DEF Init
<1>1. OptionTyped
  BY DEF OptionTyped, Places
<1>2. TasksSound /\ OneLoop
  BY DEF TasksSound, OneLoop, Alive, Actors
<1>3. RoomSound
  <2>1. TrackedUnderlyings = {}
    BY DEF TrackedUnderlyings
  <2>2. Cardinality(TrackedUnderlyings) <= MaxOpenPositions
    BY <2>1, FS_EmptySet, OptionTradingAssumption
  <2>3. \A t \in Tasks : pc[t] \notin Entering
    BY DEF Actors, Entering
  <2> QED  BY <2>2, <2>3 DEF RoomSound
<1> QED  BY <1>1, <1>2, <1>3 DEF PInv

LEMMA NextPInv == PInv /\ [Next]_optionVars => PInv'
<1> SUFFICES ASSUME PInv, [Next]_optionVars
             PROVE  PInv'
  OBVIOUS
<1>1. ASSUME NEW a \in Actors, ActorNext(a)
      PROVE  PInv'
  BY <1>1, EnterAtKeepsPInv, ExitAtKeepsPInv, AdvisedKeepsPInv, FailuresKeepPInv
     DEF ActorNext
<1>2. ASSUME NEW t \in Tasks, TaskNext(t)
      PROVE  PInv'
  BY <1>2, CycleStepKeepsPInv, CancelArrivesKeepsPInv, ForgetClosedKeepsPInv,
     ConsiderEntryKeepsPInv DEF TaskNext
<1>3. ASSUME NEW c \in Clients, ClientNext(c)
      PROVE  PInv'
  BY <1>3, ClientKeepsPInv DEF ClientNext
<1>4. CASE Start \/ StopRequested \/ StopReturns
  BY <1>4, StartKeepsPInv, StopRequestedKeepsPInv, StopReturnsKeepsPInv
<1>5. CASE Tick
  <2>1. UNCHANGED <<handle, stopper, cancelled, pc, running, tracked>>
    BY <1>5 DEF Tick, requestVars, actorVars
  <2>2. "lost_loop" \in intrusions' <=> "lost_loop" \in intrusions
    BY <1>5 DEF Tick
  <2> QED  BY <2>1, <2>2, IdleStepKeepsPInv
<1>6. CASE UNCHANGED optionVars
  <2>1. UNCHANGED <<handle, stopper, cancelled, pc, running, tracked, intrusions>>
    BY <1>6 DEF optionVars, requestVars, actorVars, tradeVars, worldVars
  <2> QED  BY <2>1, IdleStepKeepsPInv
<1> QED  BY <1>1, <1>2, <1>3, <1>4, <1>5, <1>6 DEF Next

\* The loop never tracks more positions than it may, although it checks the
\* limit two awaits before it tracks one and tasks come and go in between,
\* unless a stop has lost a loop that was started while it waited.
THEOREM PositionsStayWithinLimit == Spec => []PositionsWithinLimit
<1>1. PInv => PositionsWithinLimit
  BY DEF PInv, RoomSound, Lost, PositionsWithinLimit, Undisturbed
<1> QED  BY <1>1, InitPInv, NextPInv, PTL DEF Spec

-----------------------------------------------------------------------------
(***************************************************************************)
(* Types.                                                                  *)
(***************************************************************************)
Trades == {"BUY", "SELL"}

Unit == [entry : Nat, side : Trades, price : Nat]

Watched == [contract : Contracts, entry_premium : Nat]

JobType ==
    [now : Nat, todo : SUBSET Underlyings, exited : SUBSET Underlyings,
     unpriced : SUBSET Underlyings, at : Underlyings \cup {Nothing},
     contract : Contracts \cup {Nothing}, lots : Nat, quantity : Int,
     snapshot : [Underlyings -> Watched \cup {Untracked}]]

\* The units of a contract are on one side.
AccountSound ==
    /\ cash \in Int
    /\ lots \in [Contracts -> Seq(Unit)]
    /\ \A contract \in Contracts : SameSide(lots[contract])

StateTyped ==
    /\ tracked \in [Underlyings -> Watched \cup {Untracked}]
    /\ risk \in [day : Int, daily_realized_pnl : Int]
    /\ realized \in Int
    /\ clock \in Nat

\* From the listing of the positions to the last exit.
ExitPass == {"exits", "quote", "exitquote"}

\* What a cycle has still to exit, or exits now.
ToExit(j) == (j.todo \cup {j.at}) \ {Nothing}

\* Where an actor is says what its locals hold.
JobFits(a, place, j) ==
    /\ a \in Clients => place \in {"idle", "advice", "premium", "exitquote"}
    /\ a \in Tasks /\ place \in ExitPass =>
         \A u \in ToExit(j) : j.snapshot[u] # Untracked
    /\ place = "exits" => j.at = Nothing
    /\ place = "quote" => j.at \in Underlyings \ j.todo
    /\ place = "entries" => j.todo \cap j.exited = {}
    /\ place \in Entering =>
         /\ j.at \in Underlyings
         /\ a \in Tasks => j.at \notin j.exited /\ j.todo \cap j.exited = {}
         /\ a \in Clients => j.lots # 0
    /\ place = "premium" =>
         j.contract \in Contracts /\ UnderlyingOf[j.contract] = j.at /\ j.lots # 0
    /\ place = "exitquote" =>
         /\ j.contract \in Contracts /\ j.quantity # 0
         /\ a \in Tasks => /\ j.at \in Underlyings \ j.todo
                           /\ j.snapshot[j.at].contract = j.contract

Typed ==
    /\ AccountSound
    /\ StateTyped
    /\ job \in [Actors -> JobType]
    /\ \A a \in Actors : JobFits(a, pc[a], job[a])

-----------------------------------------------------------------------------
(***************************************************************************)
(* The inductive invariant about money and positions.                      *)
(***************************************************************************)
Gentle == Undisturbed({"overlapping_exits"})
OneDay == Undisturbed({"cycle_over_midnight", "overlapping_exits"})
Calm == Undisturbed({"entry_by_hand", "overlapping_exits", "lost_loop"})

\* No one else is about to sell the contract, and there is enough to sell.
SoleExit(a, j) ==
    \A b \in Actors \ {a} : pc[b] = "exitquote" => job[b].contract # j.contract

HoldsEnough(j) == j.quantity \in 1..NetOf(lots[j.contract])

LedgerSound ==
    Gentle =>
      /\ \A contract \in Contracts : NetOf(lots[contract]) >= 0
      /\ Exposure <= MaxPremiumExposure
      /\ \A a \in Actors : pc[a] = "exitquote" => HoldsEnough(job[a]) /\ SoleExit(a, job[a])

\* The gate remembers the day's P&L, and a cycle ends on the day it began on.
DaySound ==
    OneDay =>
      /\ risk.day <= Day(clock)
      /\ realized = IF risk.day = Day(clock) THEN risk.daily_realized_pnl ELSE 0
      /\ \A t \in Tasks : pc[t] \notin {"idle", "waiting"} => Day(job[t].now) = Day(clock)

\* What a cycle has still to exit is tracked as it was listed, and after the
\* exit time it is all that is held; an exit is for everything that is held,
\* and an entry for what is not tracked.
WatchPass(place, j) ==
    /\ place \in ExitPass =>
         /\ \A u \in ToExit(j) : tracked[u] = j.snapshot[u]
         /\ IsExitTime(j.now) =>
              \A u \in TrackedUnderlyings :
                IsOpen(tracked[u].contract) => u \in j.unpriced \cup ToExit(j)
    /\ place = "exitquote" => j.quantity = NetOf(lots[j.contract])
    /\ place \in Entering => tracked[j.at] = Untracked

WatchSound ==
    Calm =>
      /\ \A contract \in Contracts :
           IsOpen(contract) => tracked[UnderlyingOf[contract]].contract = contract
      /\ \A t \in Tasks \ cancelled : WatchPass(pc[t], job[t])

Layers == Typed /\ LedgerSound /\ DaySound /\ WatchSound

OptionInv == PInv /\ Layers
\* Who disturbs the calm is remembered.
LEMMA IntrusionsStay ==
  ASSUME intrusions \subseteq intrusions'
  PROVE  (Gentle' => Gentle) /\ (OneDay' => OneDay) /\ (Calm' => Calm)
BY DEF Gentle, OneDay, Calm, Undisturbed

\* An actor goes from one place to another with new locals.
LEMMA MovesKeepTyped ==
  ASSUME PInv, Typed, NEW a \in Actors, NEW place, NEW j \in JobType,
         pc' = [pc EXCEPT ![a] = place], job' = [job EXCEPT ![a] = j],
         JobFits(a, place, j), AccountSound', StateTyped'
  PROVE  Typed'
<1>1. \A b \in Actors : /\ pc'[b] = IF b = a THEN place ELSE pc[b]
                        /\ job'[b] = IF b = a THEN j ELSE job[b]
  BY DEF PInv, OptionTyped, Typed
<1>2. job' \in [Actors -> JobType]
  BY DEF Typed
<1>3. \A b \in Actors : JobFits(b, pc'[b], job'[b])
  BY <1>1 DEF Typed
<1> QED  BY <1>2, <1>3 DEF Typed, JobFits

\* Such a move while what is held, tracked and remembered of the risk stays.
LEMMA QuietKeepsLayers ==
  ASSUME OptionInv, NEW a \in Actors, NEW place, NEW j \in JobType,
         pc' = [pc EXCEPT ![a] = place], job' = [job EXCEPT ![a] = j],
         JobFits(a, place, j),
         cancelled \subseteq cancelled' \cup {a},
         intrusions \subseteq intrusions',
         UNCHANGED <<tracked, risk, cash, lots, realized, clock>>,
         place = "exitquote" /\ Gentle' => HoldsEnough(j) /\ SoleExit(a, j),
         a \in Tasks /\ place \notin {"idle", "waiting"} /\ OneDay' =>
           Day(j.now) = Day(clock),
         a \in Tasks /\ Calm' => WatchPass(place, j)
  PROVE  Layers'
<1>1. \A b \in Actors : /\ pc'[b] = IF b = a THEN place ELSE pc[b]
                        /\ job'[b] = IF b = a THEN j ELSE job[b]
  BY DEF OptionInv, PInv, OptionTyped, Layers, Typed
<1>2. Typed'
  <2>1. AccountSound' /\ StateTyped'
    BY DEF OptionInv, Layers, Typed, AccountSound, StateTyped
  <2> QED  BY <2>1, MovesKeepTyped DEF OptionInv, Layers
<1>3. LedgerSound'
  <2> SUFFICES ASSUME Gentle'
               PROVE  /\ \A contract \in Contracts : NetOf(lots'[contract]) >= 0
                      /\ Exposure' <= MaxPremiumExposure
                      /\ \A b \in Actors : pc'[b] = "exitquote" =>
                           HoldsEnough(job[b])' /\ SoleExit(b, job[b])'
    BY DEF LedgerSound
  <2>1. LedgerSound /\ Gentle
    BY IntrusionsStay DEF OptionInv, Layers
  <2>2. Exposure' = Exposure
    BY DEF Exposure, Deployed
  <2>3. ASSUME NEW b \in Actors, pc'[b] = "exitquote"
        PROVE  HoldsEnough(job[b])' /\ SoleExit(b, job[b])'
    <3>1. CASE b = a
      BY <1>1, <2>3, <3>1 DEF HoldsEnough, SoleExit
    <3>2. CASE b # a
      <4>1. pc[b] = "exitquote" /\ job'[b] = job[b]
        BY <1>1, <2>3, <3>2
      <4>2. HoldsEnough(job[b]) /\ SoleExit(b, job[b])
        BY <2>1, <4>1 DEF LedgerSound
      <4>3. place = "exitquote" => j.contract # job[b].contract
        BY <3>2, <4>1 DEF SoleExit
      <4> QED  BY <1>1, <4>1, <4>2, <4>3 DEF HoldsEnough, SoleExit
    <3> QED  BY <3>1, <3>2
  <2> QED  BY <2>1, <2>2, <2>3 DEF LedgerSound
<1>4. DaySound'
  BY <1>1, IntrusionsStay DEF OptionInv, Layers, DaySound, Actors
<1>5. WatchSound'
  <2> SUFFICES ASSUME Calm'
               PROVE  /\ \A contract \in Contracts :
                           IsOpen(contract)' => tracked'[UnderlyingOf[contract]].contract = contract
                      /\ \A t \in Tasks \ cancelled' : WatchPass(pc[t], job[t])'
    BY DEF WatchSound
  <2>1. WatchSound /\ Calm
    BY IntrusionsStay DEF OptionInv, Layers
  <2>2. ASSUME NEW t \in Tasks \ cancelled'
        PROVE  WatchPass(pc[t], job[t])'
    <3>1. WatchPass(pc'[t], job'[t])
      BY <1>1, <2>1 DEF WatchSound, Actors
    <3> QED  BY <3>1 DEF WatchPass, TrackedUnderlyings, IsOpen
  <2> QED  BY <2>1, <2>2 DEF WatchSound, IsOpen
<1> QED  BY <1>2, <1>3, <1>4, <1>5 DEF Layers

-----------------------------------------------------------------------------
(***************************************************************************)
(* Orders and the account.                                                 *)
(***************************************************************************)
LEMMA NetIsQuantity ==
  ASSUME AccountSound, NEW contract \in Contracts
  PROVE  /\ NetQuantity(contract) = NetOf(lots[contract])
         /\ NetQuantity(contract) \in Int
         /\ NetQuantity(contract) # 0 <=> IsOpen(contract)
         /\ NetOf(lots[contract]) >= 0 => NetOf(lots[contract]) = Len(lots[contract])
<1>1. lots[contract] \in Seq(Unit)
  BY DEF AccountSound
<1> DEFINE m == Len(lots[contract])
<1>2. m \in Nat /\ 1 * m = m /\ (-1) * m = -m /\ (lots[contract] = <<>> <=> m = 0)
  BY <1>1
<1> HIDE DEF m
<1>3. /\ NetQuantity(contract) = IF lots[contract] = <<>> THEN 0
                               ELSE Sign(lots[contract][1].side) * m
      /\ NetOf(lots[contract]) = IF lots[contract] = <<>> THEN 0
                               ELSE IF lots[contract][1].side = "BUY" THEN m ELSE -m
  BY DEF NetQuantity, NetOf, m
<1>4. /\ NetQuantity(contract) = NetOf(lots[contract])
      /\ NetOf(lots[contract]) >= 0 => NetOf(lots[contract]) = m
  BY <1>2, <1>3 DEF Sign
<1> QED  BY <1>1, <1>4, NetZero DEF IsOpen, m

\* What an order leaves of the account.
LEMMA OrderFills ==
  ASSUME AccountSound, NEW contract \in Contracts, NEW side \in Trades, NEW n \in Nat \ {0},
         NEW px \in Nat, FillOrder(contract, side, n, px)
  PROVE  /\ AccountSound'
         /\ NetOf(lots'[contract]) = NetOf(lots[contract]) + (IF side = "BUY" THEN n ELSE -n)
         /\ \A s \in Contracts \ {contract} : lots'[s] = lots[s]
<1> DEFINE q == lots[contract]
           u == [entry |-> 0, side |-> side, price |-> px]
           c == TakenFrom(q, u.side, n)
           now == SubSeq(q, c + 1, Len(q)) \o [i \in 1..(n - c) |-> u]
<1>1. q \in Seq(Unit) /\ SameSide(q)
  BY DEF AccountSound
<1>2. u \in Unit /\ u.side = side
  BY DEF Unit
<1>3. \A v \in Unit : v.side \in {"BUY", "SELL"}
  BY DEF Unit, Trades
<1>4. lots' = [lots EXCEPT ![contract] = now]
  BY DEF FillOrder, Kept, Opened, CloseCount, TakenFrom
<1>5. cash' \in Int
  <2>1. cash' = cash - Sign(side) * n * px /\ cash \in Int
    BY DEF FillOrder, AccountSound
  <2> QED  BY <2>1 DEF Sign
<1> HIDE DEF q, u
<1>6. /\ now \in Seq(Unit) /\ SameSide(now)
      /\ NetOf(now) = NetOf(q) + (IF u.side = "BUY" THEN n ELSE -n)
  <2>1. /\ \A v \in Unit : v.side \in {"BUY", "SELL"}
        /\ q \in Seq(Unit) /\ SameSide(q) /\ u \in Unit /\ n \in Nat \ {0}
        /\ c = TakenFrom(q, u.side, n)
    BY <1>1, <1>2, <1>3
  <2> HIDE DEF c
  <2> QED  BY ONLY <2>1, FillOfQueue
<1> HIDE DEF now
<1>7. lots'[contract] = now /\ \A s \in Contracts \ {contract} : lots'[s] = lots[s]
  BY <1>4 DEF AccountSound
<1>8. lots' \in [Contracts -> Seq(Unit)]
  BY <1>4, <1>6 DEF AccountSound
<1> QED  BY <1>2, <1>5, <1>6, <1>7, <1>8 DEF AccountSound, q

\* A queue is its front and what follows it.
LEMMA CutQueue ==
  ASSUME NEW U, NEW q \in Seq(U), NEW n \in 0..Len(q)
  PROVE  /\ SubSeq(q, 1, n) \in Seq(U)
         /\ SubSeq(q, n + 1, Len(q)) \in Seq(U)
         /\ q = SubSeq(q, 1, n) \o SubSeq(q, n + 1, Len(q))
<1> DEFINE a == SubSeq(q, 1, n)
           b == SubSeq(q, n + 1, Len(q))
           m == Len(q)
<1>1. m \in Nat /\ n \in Nat /\ n <= m /\ \A i \in 1..m : q[i] \in U
  OBVIOUS
<1>2. a \in Seq(U) /\ Len(a) = n /\ \A i \in 1..n : a[i] = q[i]
  BY <1>1
<1>3. b \in Seq(U) /\ Len(b) = m - n
  BY <1>1
<1>4. \A i \in 1..(m - n) : b[i] = q[i + n]
  BY <1>1
<1> HIDE DEF a, b
<1>5. /\ a \o b \in Seq(U)
      /\ Len(a \o b) = Len(a) + Len(b)
      /\ \A i \in 1..Len(a) : (a \o b)[i] = a[i]
      /\ \A i \in 1..Len(b) : (a \o b)[i + Len(a)] = b[i]
  BY <1>2, <1>3, JoinParts
<1>6. \A i \in 1..m : (a \o b)[i] = q[i]
  <2> SUFFICES ASSUME NEW i \in 1..m
               PROVE  (a \o b)[i] = q[i]
    OBVIOUS
  <2>0. i \in Int /\ n \in Int
    OBVIOUS
  <2> HIDE DEF m
  <2>1. CASE i <= n
    BY <1>1, <1>2, <1>5, <2>1
  <2>2. CASE i > n
    <3>1. i - n \in 1..(m - n) /\ (i - n) + n = i
      BY <1>1, <2>2
    <3>2. (a \o b)[(i - n) + n] = b[i - n]
      BY <1>2, <1>3, <1>5, <3>1
    <3>3. b[i - n] = q[(i - n) + n]
      BY <1>4, <3>1
    <3> QED  BY <3>1, <3>2, <3>3
  <2>3. i <= n \/ i > n
    BY ONLY <2>0
  <2> QED  BY <2>1, <2>2, <2>3, Zenon
<1>7. Len(a \o b) = Len(q)
  BY <1>1, <1>2, <1>3, <1>5
<1>8. q = a \o b
  BY <1>5, <1>6, <1>7, SeqEqual
<1> QED  BY <1>2, <1>3, <1>8 DEF a, b

\* The premium deployed in the units of one contract.
Prices(q) == SumFunction([i \in DOMAIN q |-> q[i].price])

PriceOf == [unit \in Unit |-> unit.price]

LEMMA PricesAreSums ==
  ASSUME NEW q \in Seq(Unit)
  PROVE  Prices(q) = SumOf(PriceOf, q) /\ Prices(q) \in Nat
<1>1. DOMAIN q = 1..Len(q) /\ IsFiniteSet(DOMAIN q) /\ \A i \in DOMAIN q : q[i] \in Unit
  BY SeqIndices
<1> DEFINE f == [i \in DOMAIN q |-> q[i].price]
<1>2. f = Mapped(PriceOf, q)
  BY <1>1 DEF Mapped, PriceOf
<1>3. \A i \in DOMAIN q : f[i] \in Nat
  BY <1>1 DEF Unit
<1>4. DOMAIN f = DOMAIN q
  OBVIOUS
<1> HIDE DEF f
<1>5. SumFunction(f) \in Nat
  BY <1>1, <1>3, <1>4, SumIsNat DEF SumFunction
<1> QED  BY <1>2, <1>5 DEF Prices, SumOf, f

LEMMA PricesJoin ==
  ASSUME NEW a \in Seq(Unit), NEW b \in Seq(Unit)
  PROVE  Prices(a \o b) = Prices(a) + Prices(b)
<1>1. PriceOf \in [Unit -> Int]
  BY DEF PriceOf, Unit
<1>2. a \o b \in Seq(Unit)
  OBVIOUS
<1>3. SumOf(PriceOf, a \o b) = SumOf(PriceOf, a) + SumOf(PriceOf, b)
  BY <1>1, SumOfConcat
<1> QED  BY <1>2, <1>3, PricesAreSums

\* The exposure is the sum over the contracts.
LEMMA ExposureIsSum ==
  ASSUME AccountSound
  PROVE  /\ Exposure = SumFunction([c \in Contracts |-> Prices(lots[c])])
         /\ Exposure \in Nat
<1> DEFINE f == [c \in Contracts |-> Prices(lots[c])]
<1>1. Exposure = SumFunction(f)
  BY DEF Exposure, Deployed, Prices
<1>2. \A c \in Contracts : f[c] \in Nat
  BY PricesAreSums DEF AccountSound
<1>3. DOMAIN f = Contracts /\ IsFiniteSet(Contracts)
  BY OptionTradingAssumption
<1> HIDE DEF f
<1>4. SumFunction(f) \in Nat
  BY <1>2, <1>3, SumIsNat DEF SumFunction
<1> QED  BY <1>1, <1>4 DEF f

LEMMA ExposureMoves ==
  ASSUME AccountSound, AccountSound', NEW contract \in Contracts, NEW q \in Seq(Unit),
         lots' = [lots EXCEPT ![contract] = q]
  PROVE  Exposure' = Exposure - Prices(lots[contract]) + Prices(q)
<1> DEFINE f == [c \in Contracts |-> Prices(lots[c])]
           g == [c \in Contracts |-> Prices(lots'[c])]
           v == Prices(q)
<1>1. Exposure = SumFunction(f) /\ Exposure' = SumFunction(g)
  BY ExposureIsSum DEF Exposure, Deployed, Prices
<1>2. g = [f EXCEPT ![contract] = v]
  BY DEF AccountSound
<1>3. /\ \A c \in Contracts : f[c] \in Int
      /\ v \in Int
  BY PricesAreSums DEF AccountSound
<1>4. DOMAIN f = Contracts /\ IsFiniteSet(Contracts) /\ f[contract] = Prices(lots[contract])
  BY OptionTradingAssumption
<1> HIDE DEF f, g, v
<1>5. SumFunction(g) = SumFunction(f) - f[contract] + v
  BY <1>2, <1>3, <1>4, SumExcept
<1> QED  BY <1>1, <1>4, <1>5 DEF v

\* A purchase, where nothing is written, adds its value and realizes nothing.
LEMMA BuyAdds ==
  ASSUME AccountSound, NEW contract \in Contracts, NEW n \in Nat \ {0}, NEW px \in Nat,
         FillOrder(contract, "BUY", n, px), NetOf(lots[contract]) >= 0
  PROVE  /\ Exposure' = Exposure + n * px
         /\ PnlOf(contract, "BUY", n, px) = 0
<1> DEFINE q == lots[contract]
           u == [entry |-> 0, side |-> "BUY", price |-> px]
           new == [i \in 1..n |-> u]
<1>1. q \in Seq(Unit) /\ Len(q) \in Nat /\ AccountSound'
  BY OrderFills DEF AccountSound, Trades
<1>2. CloseCount(q, "BUY", n) = 0
  <2>1. q # <<>> => q[1].side = "BUY"
    BY <1>1 DEF NetOf
  <2> QED  BY <2>1 DEF CloseCount
<1>3. SubSeq(q, 1, Len(q)) = q /\ SubSeq(q, 1, 0) = <<>>
  BY <1>1
<1>4. lots' = [lots EXCEPT ![contract] = q \o new]
  <2>1. Kept(q, "BUY", n) = q
    BY <1>2, <1>3 DEF Kept
  <2>2. Opened(q, "BUY", n, px, 0) = new
    BY <1>2 DEF Opened
  <2> HIDE DEF new
  <2> QED  BY <2>1, <2>2 DEF FillOrder
<1>5. new \in Seq(Unit) /\ DOMAIN new = 1..n /\ \A i \in 1..n : new[i].price = px
  BY DEF Unit, Trades
<1>6. Prices(new) = n * px
  <2> DEFINE f == [i \in DOMAIN new |-> new[i].price]
             S == 1..n
  <2>1. DOMAIN f = S /\ IsFiniteSet(S) /\ Cardinality(S) = n
    BY <1>5, IndicesFinite
  <2>2. \A i \in S : f[i] = px
    BY <1>5
  <2> HIDE DEF f, S
  <2>3. SumFunctionOnSet(f, S) = Cardinality(S) * px
    <3>1. px \in Int
      OBVIOUS
    <3> QED  BY ONLY <2>1, <2>2, <3>1, SumConstant
  <2> QED  BY <2>1, <2>3 DEF f, Prices, SumFunction
<1>7. PnlOf(contract, "BUY", n, px) = 0
  <2>1. Closed(q, "BUY", n) = <<>>
    BY <1>2, <1>3 DEF Closed
  <2> DEFINE f == [i \in 1..Len(<<>>) |-> UnitPnl(<<>>[i], px)]
  <2>2. DOMAIN f = {}
    OBVIOUS
  <2>3. PnlOf(contract, "BUY", n, px) = SumFunction(f)
    BY <2>1 DEF PnlOf, RealizedPnl
  <2> HIDE DEF f
  <2> QED  BY <2>2, <2>3, SumEmpty DEF SumFunction
<1> HIDE DEF q, new
<1>8. q \o new \in Seq(Unit)
  BY <1>1, <1>5
<1>9. Prices(q \o new) = Prices(q) + Prices(new)
  BY <1>1, <1>5, PricesJoin
<1>10. Exposure' = Exposure - Prices(q) + Prices(q \o new)
  BY <1>1, <1>4, <1>8, ExposureMoves DEF q
<1>11. Exposure \in Nat /\ Prices(q) \in Nat
  BY <1>1, ExposureIsSum, PricesAreSums
<1> QED  BY <1>6, <1>7, <1>9, <1>10, <1>11

\* A sale of no more than is held takes its units out.
LEMMA SellTakes ==
  ASSUME AccountSound, NEW contract \in Contracts, NEW n \in Nat \ {0}, NEW px \in Nat,
         FillOrder(contract, "SELL", n, px), NetOf(lots[contract]) >= n
  PROVE  Exposure' \in Int /\ Exposure' <= Exposure
<1> DEFINE q == lots[contract]
           gone == SubSeq(q, 1, n)
           kept == SubSeq(q, n + 1, Len(q))
<1>1. q \in Seq(Unit) /\ Len(q) \in Nat /\ AccountSound'
  BY OrderFills DEF AccountSound, Trades
<1>2. q # <<>> /\ q[1].side = "BUY" /\ n <= Len(q)
  BY <1>1 DEF NetOf
<1>3. CloseCount(q, "SELL", n) = n
  <2>1. CloseCount(q, "SELL", n) = Min({Len(q), n})
    BY <1>2 DEF CloseCount
  <2> QED  BY <1>1, <1>2, <2>1, LeastOfTwo
<1>4. lots' = [lots EXCEPT ![contract] = kept]
  <2>1. Kept(q, "SELL", n) = kept
    BY <1>3 DEF Kept
  <2>2. Opened(q, "SELL", n, px, 0) = <<>>
    BY <1>3 DEF Opened
  <2>3. kept \in Seq(Unit)
    BY <1>1, <1>2
  <2>4. kept \o <<>> = kept
    BY <2>3
  <2> QED  BY <2>1, <2>2, <2>4 DEF FillOrder
<1>5. gone \in Seq(Unit) /\ kept \in Seq(Unit) /\ q = gone \o kept
  <2> HIDE DEF q
  <2>1. n \in 0..Len(q)
    BY <1>1, <1>2
  <2> QED  BY <1>1, <2>1, CutQueue
<1> HIDE DEF q, gone, kept
<1>6. Prices(q) = Prices(gone) + Prices(kept)
  BY <1>5, PricesJoin
<1>7. Exposure' = Exposure - Prices(q) + Prices(kept)
  BY <1>1, <1>4, <1>5, ExposureMoves DEF q
<1>8. Exposure \in Nat /\ Prices(gone) \in Nat /\ Prices(kept) \in Nat
  BY <1>5, ExposureIsSum, PricesAreSums
<1> QED  BY <1>6, <1>7, <1>8

\* The P&L of an order is a number.
LEMMA PnlIsInt ==
  ASSUME AccountSound, NEW contract \in Contracts, NEW side, NEW n \in Nat, NEW px \in Nat
  PROVE  PnlOf(contract, side, n, px) \in Int
<1> DEFINE q == lots[contract]
           c == CloseCount(q, side, n)
           units == SubSeq(q, 1, c)
           f == [i \in 1..Len(units) |-> UnitPnl(units[i], px)]
<1>1. q \in Seq(Unit) /\ Len(q) \in Nat
  BY DEF AccountSound
<1>2. c \in Nat /\ c <= Len(q)
  BY <1>1, LeastOfTwo DEF CloseCount
<1> HIDE DEF c
<1>3. Len(units) \in Nat /\ \A i \in 1..Len(units) : units[i] \in Unit
  <2>1. units \in Seq(Unit)
    BY <1>1, <1>2
  <2> QED  BY <2>1
<1> HIDE DEF units
<1>4. \A i \in 1..Len(units) : f[i] \in Int
  BY <1>3 DEF Unit, UnitPnl, Sign
<1>5. DOMAIN f = 1..Len(units) /\ IsFiniteSet(1..Len(units))
  BY <1>3, IndicesFinite
<1>6. PnlOf(contract, side, n, px) = SumFunction(f)
  BY DEF PnlOf, RealizedPnl, Closed, units, c
<1> HIDE DEF f
<1> DEFINE S == DOMAIN f
<1>7. IsFiniteSet(S) /\ \A i \in S : f[i] \in Int
  BY <1>4, <1>5
<1> HIDE DEF S
<1>8. SumFunctionOnSet(f, S) \in Int
  BY <1>7, SumIsInt
<1> QED  BY <1>6, <1>8 DEF SumFunction, S

-----------------------------------------------------------------------------
(***************************************************************************)
(* The steps of tasks and clients that trade nothing.                      *)
(***************************************************************************)
LEMMA ActorFacts ==
  ASSUME OptionInv, NEW a \in Actors
  PROVE  /\ job[a] \in JobType
         /\ JobFits(a, pc[a], job[a])
         /\ a \in Tasks \/ a \in Clients
         /\ a \in Tasks => a \notin Clients
         /\ job = [job EXCEPT ![a] = job[a]]
BY OptionTradingAssumption DEF OptionInv, Layers, Typed, Actors

\* What the day and the watch say of a task.
LEMMA TaskFacts ==
  ASSUME OptionInv, NEW t \in Tasks
  PROVE  /\ t \in Actors /\ job[t] \in JobType /\ JobFits(t, pc[t], job[t])
         /\ t \notin Clients
         /\ job = [job EXCEPT ![t] = job[t]]
         /\ pc = [pc EXCEPT ![t] = pc[t]]
         /\ OneDay /\ pc[t] \notin {"idle", "waiting"} => Day(job[t].now) = Day(clock)
         /\ Calm /\ t \notin cancelled => WatchPass(pc[t], job[t])
<1>1. t \in Actors
  BY DEF Actors
<1>2. pc = [pc EXCEPT ![t] = pc[t]]
  BY <1>1 DEF OptionInv, PInv, OptionTyped
<1>3. OneDay /\ pc[t] \notin {"idle", "waiting"} => Day(job[t].now) = Day(clock)
  BY DEF OptionInv, Layers, DaySound
<1>4. Calm /\ t \notin cancelled => WatchPass(pc[t], job[t])
  BY DEF OptionInv, Layers, WatchSound
<1> QED  BY <1>1, <1>2, <1>3, <1>4, ActorFacts

LEMMA RunningGoesOn ==
  ASSUME OptionInv, NEW t \in Tasks, running = t
  PROVE  t \notin cancelled
BY OptionTradingAssumption DEF OptionInv, PInv, TasksSound

LEMMA NoJobFits ==
  /\ NoJob \in JobType
  /\ NoJob.at = Nothing /\ NoJob.todo = {} /\ NoJob.exited = {}
  /\ \A a : JobFits(a, "idle", NoJob)
  /\ \A a \in Tasks : JobFits(a, "waiting", NoJob)
<1>1. NoJob \in JobType /\ NoJob.at = Nothing /\ NoJob.todo = {} /\ NoJob.exited = {}
  BY DEF NoJob, JobType
<1>2. \A a \in Tasks : a \notin Clients
  BY OptionTradingAssumption
<1> QED  BY <1>1, <1>2 DEF JobFits, ExitPass, Entering

\* A task goes on with its cycle.
LEMMA GoesOnMoves ==
  ASSUME OptionInv, NEW t \in Tasks, NEW pass, NEW exited \in SUBSET Underlyings,
         NEW unpriced \in SUBSET Underlyings, GoesOn(t, pass, exited, unpriced)
  PROVE  /\ pc' = [pc EXCEPT ![t] = pass]
         /\ job'[t] \in JobType
         /\ job' = [job EXCEPT ![t] = job'[t]]
         /\ job'[t].at = Nothing
         /\ job'[t].now = job[t].now
         /\ job'[t].todo = job[t].todo
         /\ job'[t].snapshot = job[t].snapshot
         /\ job'[t].exited = job[t].exited \cup exited
         /\ job'[t].unpriced = job[t].unpriced \cup unpriced
<1> PICK j : j = [job[t] EXCEPT !.at = Nothing, !.contract = Nothing, !.lots = 0,
                                 !.quantity = 0, !.exited = @ \cup exited,
                                 !.unpriced = @ \cup unpriced]
  OBVIOUS
<1>1. job[t] \in JobType /\ t \in Actors
  BY TaskFacts
<1>2. j \in JobType
  <2> PICK k : k = [job[t] EXCEPT !.at = Nothing, !.contract = Nothing]
    OBVIOUS
  <2> PICK l : l = [k EXCEPT !.lots = 0]
    OBVIOUS
  <2> PICK m : m = [l EXCEPT !.quantity = 0]
    OBVIOUS
  <2>1. k \in JobType
    BY <1>1 DEF JobType
  <2>2. l \in JobType
    BY <2>1 DEF JobType
  <2>3. m \in JobType
    <3>1. m = [l EXCEPT !.quantity = 0]
      OBVIOUS
    <3> QED  BY ONLY <2>2, <3>1 DEF JobType
  <2>4. j = [m EXCEPT !.exited = @ \cup exited, !.unpriced = @ \cup unpriced]
    BY <1>1 DEF JobType
  <2>5. m.exited \subseteq Underlyings /\ m.unpriced \subseteq Underlyings
    BY <2>3 DEF JobType
  <2> QED  BY ONLY <2>3, <2>4, <2>5, exited \in SUBSET Underlyings,
                   unpriced \in SUBSET Underlyings DEF JobType
<1>3. job' = [job EXCEPT ![t] = j]
  BY DEF GoesOn, OptionInv, Layers, Typed
<1>4. /\ j.at = Nothing
      /\ j.now = job[t].now /\ j.todo = job[t].todo /\ j.snapshot = job[t].snapshot
      /\ j.exited = job[t].exited \cup exited
      /\ j.unpriced = job[t].unpriced \cup unpriced
  BY <1>1 DEF JobType
<1>5. job'[t] = j
  BY <1>1, <1>3 DEF OptionInv, Layers, Typed
<1> QED  BY <1>2, <1>3, <1>4, <1>5 DEF GoesOn

\* Where an entry that is over leads.
LEMMA EntryOverJob ==
  ASSUME OptionInv, NEW a \in Actors, pc[a] \in Entering, EntryOver(a)
  PROVE  \E place \in {"entries", "idle"}, j \in JobType :
           /\ pc' = [pc EXCEPT ![a] = place]
           /\ job' = [job EXCEPT ![a] = j]
           /\ JobFits(a, place, j)
           /\ a \in Tasks => place = "entries" /\ j.now = job[a].now
<1>1. CASE a \in Tasks
  <2>1. GoesOn(a, "entries", {}, {})
    BY <1>1 DEF EntryOver
  <2> PICK j : j = job'[a]
    OBVIOUS
  <2>2. /\ pc' = [pc EXCEPT ![a] = "entries"]
        /\ j \in JobType /\ job' = [job EXCEPT ![a] = j]
        /\ j.at = Nothing
        /\ j.now = job[a].now /\ j.todo = job[a].todo
        /\ j.exited = job[a].exited \cup {}
    <3>1. {} \in SUBSET Underlyings
      OBVIOUS
    <3>2. /\ pc' = [pc EXCEPT ![a] = "entries"]
          /\ job'[a] \in JobType
          /\ job' = [job EXCEPT ![a] = job'[a]]
          /\ job'[a].at = Nothing
          /\ job'[a].now = job[a].now
          /\ job'[a].todo = job[a].todo
          /\ job'[a].snapshot = job[a].snapshot
          /\ job'[a].exited = job[a].exited \cup {}
          /\ job'[a].unpriced = job[a].unpriced \cup {}
      BY ONLY OptionInv, <1>1, <2>1, <3>1, GoesOnMoves
    <3> QED  BY <3>2
  <2>3. JobFits(a, "entries", j)
    BY <1>1, <2>2, ActorFacts DEF JobFits, ExitPass, Entering
  <2> QED  BY <1>1, <2>2, <2>3
<1>2. CASE a \notin Tasks
  <2>1. pc' = [pc EXCEPT ![a] = "idle"] /\ job' = [job EXCEPT ![a] = NoJob]
    BY <1>2 DEF EntryOver, Answered
  <2> QED  BY <1>2, <2>1, NoJobFits
<1> QED  BY <1>1, <1>2

LEMMA EntryOverKeepsLayers ==
  ASSUME OptionInv, NEW a \in Actors, pc[a] \in Entering, EntryOver(a),
         UNCHANGED <<cancelled, intrusions, tracked, risk, cash, lots, realized, clock>>
  PROVE  Layers'
<1>1. PICK place \in {"entries", "idle"}, j \in JobType :
        /\ pc' = [pc EXCEPT ![a] = place]
        /\ job' = [job EXCEPT ![a] = j]
        /\ JobFits(a, place, j)
        /\ a \in Tasks => place = "entries" /\ j.now = job[a].now
  BY EntryOverJob
<1>2. WatchPass(place, j) /\ place # "exitquote"
  BY DEF WatchPass, ExitPass, Entering
<1>3. a \in Tasks /\ OneDay' => Day(j.now) = Day(clock)
  BY <1>1, TaskFacts, IntrusionsStay DEF Entering
<1> QED  BY <1>1, <1>2, <1>3, QuietKeepsLayers

LEMMA FailedEntryKeepsLayers ==
  ASSUME OptionInv, NEW a \in Actors, PremiumFails(a) \/ NotAdvised(a)
  PROVE  Layers'
<1>1. /\ pc[a] \in Entering /\ EntryOver(a)
      /\ UNCHANGED <<cancelled, intrusions, tracked, risk, cash, lots, realized, clock>>
  BY DEF PremiumFails, NotAdvised, Resumes, Entering, requestVars, tradeVars, accountVars,
         worldVars
<1> QED  BY <1>1, EntryOverKeepsLayers

LEMMA AdvisedKeepsLayers ==
  ASSUME OptionInv, NEW a \in Actors, NEW contract \in Contracts, NEW worthwhile \in BOOLEAN,
         Advised(a, contract, worthwhile)
  PROVE  Layers'
<1>1. /\ pc[a] = "advice" /\ a \notin cancelled
      /\ UnderlyingOf[contract] = job[a].at
      /\ UNCHANGED <<cancelled, intrusions, tracked, risk, cash, lots, realized, clock>>
  BY DEF Advised, Resumes, requestVars, tradeVars, accountVars, worldVars
<1>2. \/ EntryOver(a)
      \/ \E count \in Nat \ {0} : /\ pc' = [pc EXCEPT ![a] = "premium"]
                                  /\ job' = [job EXCEPT ![a].contract = contract,
                                                        ![a].lots = count]
  <2>1. LotsPerTrade \in Nat \ {0}
    BY OptionTradingAssumption
  <2>2. a \in Clients => job[a].lots \in Nat \ {0}
    BY <1>1, ActorFacts DEF JobFits, Entering, JobType
  <2> QED  BY <2>1, <2>2, ActorFacts DEF Advised, AskPremium
<1>3. CASE EntryOver(a)
  BY <1>1, <1>3, EntryOverKeepsLayers DEF Entering
<1>4. ASSUME NEW count \in Nat \ {0}, pc' = [pc EXCEPT ![a] = "premium"],
             job' = [job EXCEPT ![a].contract = contract, ![a].lots = count]
      PROVE  Layers'
  <2> PICK j : j = [job[a] EXCEPT !.contract = contract, !.lots = count]
    OBVIOUS
  <2>1. /\ j \in JobType /\ job' = [job EXCEPT ![a] = j]
        /\ j.contract = contract /\ j.lots = count
        /\ j.at = job[a].at /\ j.now = job[a].now /\ j.todo = job[a].todo
        /\ j.exited = job[a].exited
    <3>1. job[a] \in JobType
      BY ActorFacts
    <3>2. job' = [job EXCEPT ![a] = j]
      BY <1>4 DEF OptionInv, Layers, Typed
    <3> QED  BY <3>1, <3>2 DEF JobType
  <2>2. JobFits(a, "premium", j)
    <3>1. JobFits(a, "advice", job[a])
      BY <1>1, ActorFacts
    <3> QED  BY <1>1, <2>1, <3>1 DEF JobFits, ExitPass, Entering
  <2>3. a \in Tasks /\ OneDay' => Day(j.now) = Day(clock)
    BY <1>1, <2>1, TaskFacts, IntrusionsStay
  <2>4. a \in Tasks /\ Calm' => WatchPass("premium", j)
    <3>1. a \in Tasks /\ Calm' => tracked[job[a].at] = Untracked
      BY <1>1, TaskFacts, IntrusionsStay DEF WatchPass, Entering
    <3> QED  BY <2>1, <3>1 DEF WatchPass, ExitPass
  <2> QED  BY <1>1, <1>4, <2>1, <2>2, <2>3, <2>4, QuietKeepsLayers
<1> QED  BY <1>2, <1>3, <1>4

\* A quote that cannot be had, at either of the two awaits for one.
LEMMA NoQuoteKeepsLayers ==
  ASSUME OptionInv, NEW t \in Tasks, t \notin cancelled, pc[t] \in {"quote", "exitquote"},
         GoesOn(t, "exits", {}, {job[t].at}),
         UNCHANGED <<cancelled, intrusions, tracked, risk, cash, lots, realized, clock>>
  PROVE  Layers'
<1> PICK j : j = job'[t]
  OBVIOUS
<1>1. t \in Actors /\ t \notin Clients /\ JobFits(t, pc[t], job[t]) /\ job[t] \in JobType
  BY TaskFacts
<1>2. job[t].at \in Underlyings
  BY <1>1 DEF JobFits
<1>3. /\ pc' = [pc EXCEPT ![t] = "exits"]
      /\ j \in JobType /\ job' = [job EXCEPT ![t] = j]
      /\ j.at = Nothing /\ j.now = job[t].now /\ j.todo = job[t].todo
      /\ j.snapshot = job[t].snapshot
      /\ j.unpriced = job[t].unpriced \cup {job[t].at}
  <2> PICK x : x = {job[t].at}
    OBVIOUS
  <2>1. x \in SUBSET Underlyings /\ {} \in SUBSET Underlyings
    BY <1>2
  <2>2. GoesOn(t, "exits", {}, x)
    OBVIOUS
  <2>3. /\ pc' = [pc EXCEPT ![t] = "exits"]
        /\ job'[t] \in JobType
        /\ job' = [job EXCEPT ![t] = job'[t]]
        /\ job'[t].at = Nothing
        /\ job'[t].now = job[t].now
        /\ job'[t].todo = job[t].todo
        /\ job'[t].snapshot = job[t].snapshot
        /\ job'[t].exited = job[t].exited \cup {}
        /\ job'[t].unpriced = job[t].unpriced \cup x
    BY ONLY OptionInv, t \in Tasks, <2>1, <2>2, GoesOnMoves
  <2> QED  BY <2>3
<1>4. ToExit(j) \subseteq ToExit(job[t]) /\ ToExit(job[t]) \subseteq ToExit(j) \cup {job[t].at}
  BY <1>3 DEF ToExit
<1>5. JobFits(t, "exits", j)
  BY <1>1, <1>3, <1>4 DEF JobFits, ExitPass, Entering
<1>6. OneDay' => Day(j.now) = Day(clock)
  BY <1>3, TaskFacts, IntrusionsStay
<1>7. Calm' => WatchPass("exits", j)
  <2> SUFFICES ASSUME Calm' PROVE WatchPass("exits", j)
    OBVIOUS
  <2>1. WatchPass(pc[t], job[t])
    BY TaskFacts, IntrusionsStay
  <2> QED  BY <1>3, <1>4, <2>1 DEF WatchPass, ExitPass, Entering
<1> QED  BY <1>1, <1>3, <1>5, <1>6, <1>7, QuietKeepsLayers


LEMMA QuoteFailsKeepsLayers ==
  ASSUME OptionInv, NEW t \in Tasks, QuoteFails(t)
  PROVE  Layers'
<1>1. /\ t \notin cancelled /\ pc[t] \in {"quote", "exitquote"}
      /\ GoesOn(t, "exits", {}, {job[t].at})
      /\ UNCHANGED <<cancelled, intrusions, tracked, risk, cash, lots, realized, clock>>
  BY DEF QuoteFails, Resumes, requestVars, tradeVars, accountVars, worldVars
<1> QED  BY <1>1, NoQuoteKeepsLayers

\* An actor that is done: a client with its answer, a task with its cycle.
LEMMA DoneKeepsLayers ==
  ASSUME OptionInv, NEW a \in Actors, NEW place \in {"idle", "waiting"},
         place = "waiting" => a \in Tasks,
         pc' = [pc EXCEPT ![a] = place], job' = [job EXCEPT ![a] = NoJob],
         cancelled \subseteq cancelled' \cup {a},
         UNCHANGED <<intrusions, tracked, risk, cash, lots, realized, clock>>
  PROVE  Layers'
<1>1. NoJob \in JobType /\ JobFits(a, place, NoJob)
  BY NoJobFits
<1>2. WatchPass(place, NoJob)
  BY DEF WatchPass, ExitPass, Entering
<1> QED  BY <1>1, <1>2, QuietKeepsLayers

LEMMA ExitQuoteFailsKeepsLayers ==
  ASSUME OptionInv, NEW a \in Actors, ExitQuoteFails(a)
  PROVE  Layers'
<1>1. /\ a \notin cancelled /\ pc[a] \in {"quote", "exitquote"}
      /\ UNCHANGED <<cancelled, intrusions, tracked, risk, cash, lots, realized, clock>>
  BY DEF ExitQuoteFails, Resumes, requestVars, tradeVars, accountVars, worldVars
<1>2. CASE a \in Clients
  <2>1. pc' = [pc EXCEPT ![a] = "idle"] /\ job' = [job EXCEPT ![a] = NoJob]
    BY <1>2 DEF ExitQuoteFails, Answered
  <2> QED  BY <1>1, <2>1, DoneKeepsLayers
<1>3. CASE a \notin Clients
  <2>1. a \in Tasks /\ GoesOn(a, "exits", {}, {job[a].at})
    BY <1>3 DEF ExitQuoteFails, Actors
  <2> QED  BY <1>1, <2>1, NoQuoteKeepsLayers
<1> QED  BY <1>2, <1>3

LEMMA EndCycleKeepsLayers ==
  ASSUME OptionInv, NEW t \in Tasks, EndCycle(t)
  PROVE  Layers'
<1>1. /\ pc' = [pc EXCEPT ![t] = "waiting"] /\ job' = [job EXCEPT ![t] = NoJob]
      /\ UNCHANGED <<cancelled, intrusions, tracked, risk, cash, lots, realized, clock>>
  BY DEF EndCycle, CycleOver, requestVars, tradeVars, accountVars, worldVars
<1> QED  BY <1>1, TaskFacts, DoneKeepsLayers

LEMMA CancelArrivesKeepsLayers ==
  ASSUME OptionInv, NEW t \in Tasks, CancelArrives(t)
  PROVE  Layers'
<1>1. /\ pc' = [pc EXCEPT ![t] = "idle"] /\ job' = [job EXCEPT ![t] = NoJob]
      /\ cancelled' = cancelled \ {t}
      /\ UNCHANGED <<intrusions, tracked, risk, cash, lots, realized, clock>>
  BY DEF CancelArrives, tradeVars, accountVars, worldVars
<1> QED  BY <1>1, TaskFacts, DoneKeepsLayers

LEMMA LoopEndsKeepsLayers ==
  ASSUME OptionInv, NEW t \in Tasks, LoopEnds(t)
  PROVE  Layers'
<1>1. /\ pc' = [pc EXCEPT ![t] = "idle"] /\ job' = [job EXCEPT ![t] = job[t]]
      /\ UNCHANGED <<cancelled, intrusions, tracked, risk, cash, lots, realized, clock>>
  BY TaskFacts DEF LoopEnds, requestVars, tradeVars, accountVars, worldVars
<1>2. job[t] \in JobType /\ JobFits(t, "idle", job[t]) /\ WatchPass("idle", job[t])
  BY TaskFacts DEF JobFits, WatchPass, ExitPass, Entering
<1> QED  BY <1>1, <1>2, TaskFacts, QuietKeepsLayers

LEMMA StartKeepsLayers ==
  ASSUME OptionInv, Start
  PROVE  Layers'
<1>1. PICK t \in Tasks : pc' = [pc EXCEPT ![t] = "waiting"]
  BY DEF Start
<1>2. /\ job' = [job EXCEPT ![t] = job[t]]
      /\ UNCHANGED <<cancelled, intrusions, tracked, risk, cash, lots, realized, clock>>
  BY TaskFacts DEF Start, tradeVars, accountVars, worldVars
<1>3. job[t] \in JobType /\ JobFits(t, "waiting", job[t]) /\ WatchPass("waiting", job[t])
  BY TaskFacts DEF JobFits, WatchPass, ExitPass, Entering
<1> QED  BY <1>1, <1>2, <1>3, TaskFacts, QuietKeepsLayers

LEMMA BeginCycleKeepsLayers ==
  ASSUME OptionInv, NEW t \in Tasks, BeginCycle(t)
  PROVE  Layers'
<1> PICK j : j = [NoJob EXCEPT !.now = clock, !.todo = TrackedUnderlyings, !.snapshot = tracked]
  OBVIOUS
<1>1. /\ pc' = [pc EXCEPT ![t] = "exits"] /\ job' = [job EXCEPT ![t] = j]
      /\ UNCHANGED <<cancelled, intrusions, tracked, risk, cash, lots, realized, clock>>
  BY DEF BeginCycle, requestVars, tradeVars, accountVars
<1>2. /\ j.now = clock /\ j.todo = TrackedUnderlyings /\ j.snapshot = tracked
      /\ j.at = Nothing
      /\ j \in JobType
  <2>1. clock \in Nat /\ tracked \in [Underlyings -> Watched \cup {Untracked}]
    BY DEF OptionInv, Layers, Typed, StateTyped
  <2>2. j = [now |-> clock, todo |-> TrackedUnderlyings, exited |-> {}, unpriced |-> {},
             at |-> Nothing, contract |-> Nothing, lots |-> 0, quantity |-> 0,
             snapshot |-> tracked]
    BY DEF NoJob
  <2>3. TrackedUnderlyings \subseteq Underlyings
    BY DEF TrackedUnderlyings
  <2> QED  BY ONLY <2>1, <2>2, <2>3 DEF JobType
<1>3. Nothing \notin TrackedUnderlyings /\ ToExit(j) = TrackedUnderlyings
  BY <1>2, OptionTradingAssumption DEF TrackedUnderlyings, ToExit
<1>4. JobFits(t, "exits", j)
  BY <1>2, <1>3, TaskFacts DEF JobFits, TrackedUnderlyings, ExitPass, Entering
<1>5. WatchPass("exits", j)
  BY <1>2, <1>3 DEF WatchPass, Entering
<1> QED  BY <1>1, <1>2, <1>4, <1>5, TaskFacts, QuietKeepsLayers

LEMMA BeginEntriesKeepsLayers ==
  ASSUME OptionInv, NEW t \in Tasks, BeginEntries(t)
  PROVE  Layers'
<1> PICK j : j = [job[t] EXCEPT !.todo = EntryCandidates(t)]
  OBVIOUS
<1>1. /\ pc' = [pc EXCEPT ![t] = "entries"]
      /\ UNCHANGED <<cancelled, intrusions, tracked, risk, cash, lots, realized, clock>>
      /\ pc[t] = "exits"
  BY DEF BeginEntries, requestVars, tradeVars, accountVars, worldVars
<1>2. job[t] \in JobType /\ t \in Actors /\ t \notin Clients
  BY TaskFacts
<1>3. /\ j \in JobType
      /\ j.now = job[t].now /\ j.exited = job[t].exited
      /\ j.todo = Underlyings \ job[t].exited
  BY <1>2 DEF JobType, EntryCandidates
<1>4. job' = [job EXCEPT ![t] = j]
  BY DEF BeginEntries, OptionInv, Layers, Typed
<1>5. JobFits(t, "entries", j) /\ WatchPass("entries", j)
  BY <1>2, <1>3 DEF JobFits, WatchPass, ExitPass, Entering
<1>6. OneDay' => Day(j.now) = Day(clock)
  BY <1>1, <1>3, TaskFacts, IntrusionsStay
<1> QED  BY <1>1, <1>2, <1>3, <1>4, <1>5, <1>6, QuietKeepsLayers

LEMMA ConsiderEntryKeepsLayers ==
  ASSUME OptionInv, NEW t \in Tasks, NEW u \in Underlyings, ConsiderEntry(t, u)
  PROVE  Layers'
<1>1. /\ pc[t] = "entries" /\ u \in job[t].todo
      /\ UNCHANGED <<cancelled, intrusions, tracked, risk, cash, lots, realized, clock>>
  BY DEF ConsiderEntry, Visits, requestVars, tradeVars, accountVars, worldVars
<1>2. /\ job[t] \in JobType /\ t \in Actors /\ t \notin Clients
      /\ JobFits(t, "entries", job[t])
  BY <1>1, TaskFacts
<1>3. OneDay' => Day(job[t].now) = Day(clock)
  BY <1>1, TaskFacts, IntrusionsStay
<1>4. CASE HasRoom(u)
  <2> PICK j : j = [job[t] EXCEPT !.todo = @ \ {u}, !.at = u]
    OBVIOUS
  <2>1. pc' = [pc EXCEPT ![t] = "advice"] /\ job' = [job EXCEPT ![t] = j]
    BY <1>4 DEF ConsiderEntry, OptionInv, Layers, Typed
  <2>2. /\ j \in JobType
        /\ j.now = job[t].now /\ j.exited = job[t].exited
        /\ j.todo = job[t].todo \ {u} /\ j.at = u
    BY <1>2 DEF JobType
  <2>3. JobFits(t, "advice", j)
    BY <1>1, <1>2, <2>2 DEF JobFits, ExitPass, Entering
  <2>4. WatchPass("advice", j)
    BY <1>4, <2>2 DEF WatchPass, ExitPass, HasRoom
  <2> QED  BY <1>1, <1>2, <1>3, <2>1, <2>2, <2>3, <2>4, QuietKeepsLayers
<1>5. CASE ~HasRoom(u)
  <2> PICK j : j = [job[t] EXCEPT !.todo = @ \ {u}]
    OBVIOUS
  <2>1. pc' = [pc EXCEPT ![t] = "entries"] /\ job' = [job EXCEPT ![t] = j]
    BY <1>1, <1>5, TaskFacts DEF ConsiderEntry, OptionInv, Layers, Typed
  <2>2. /\ j \in JobType
        /\ j.now = job[t].now /\ j.exited = job[t].exited
        /\ j.todo = job[t].todo \ {u}
    BY <1>2 DEF JobType
  <2>3. JobFits(t, "entries", j) /\ WatchPass("entries", j)
    BY <1>2, <2>2 DEF JobFits, WatchPass, ExitPass, Entering
  <2> QED  BY <1>1, <1>2, <1>3, <2>1, <2>2, <2>3, QuietKeepsLayers
<1> QED  BY <1>4, <1>5

LEMMA AskQuoteKeepsLayers ==
  ASSUME OptionInv, NEW t \in Tasks, NEW u \in Underlyings, AskQuote(t, u)
  PROVE  Layers'
<1> PICK j : j = [job[t] EXCEPT !.todo = @ \ {u}, !.at = u]
  OBVIOUS
<1>1. /\ running = t /\ pc[t] = "exits" /\ u \in job[t].todo
      /\ pc' = [pc EXCEPT ![t] = "quote"]
      /\ UNCHANGED <<cancelled, intrusions, tracked, risk, cash, lots, realized, clock>>
  BY DEF AskQuote, Visits, requestVars, tradeVars, accountVars, worldVars
<1>2. /\ job[t] \in JobType /\ t \in Actors /\ t \notin Clients
      /\ JobFits(t, "exits", job[t])
      /\ t \notin cancelled
  BY <1>1, TaskFacts, RunningGoesOn
<1>3. job' = [job EXCEPT ![t] = j]
  BY DEF AskQuote, OptionInv, Layers, Typed
<1>4. /\ j \in JobType
      /\ j.now = job[t].now /\ j.snapshot = job[t].snapshot /\ j.unpriced = job[t].unpriced
      /\ j.todo = job[t].todo \ {u} /\ j.at = u
  BY <1>2 DEF JobType
<1>5. ToExit(j) = ToExit(job[t])
  <2>1. job[t].at = Nothing /\ u # Nothing
    BY <1>2, OptionTradingAssumption DEF JobFits
  <2> QED  BY <1>1, <1>4, <2>1 DEF ToExit
<1>6. JobFits(t, "quote", j)
  BY <1>2, <1>4, <1>5 DEF JobFits, ExitPass, Entering
<1>7. Calm' => WatchPass("quote", j)
  <2> SUFFICES ASSUME Calm' PROVE WatchPass("quote", j)
    OBVIOUS
  <2>1. WatchPass("exits", job[t])
    BY <1>1, <1>2, TaskFacts, IntrusionsStay
  <2> QED  BY <1>4, <1>5, <2>1 DEF WatchPass, ExitPass, Entering
<1>8. OneDay' => Day(j.now) = Day(clock)
  BY <1>1, <1>4, TaskFacts, IntrusionsStay
<1> QED  BY <1>1, <1>2, <1>3, <1>4, <1>6, <1>7, <1>8, QuietKeepsLayers

\* The quantity of an exit is what is held, and no one else is about to sell it.
LEMMA ExitQuoteAsked ==
  ASSUME OptionInv, NEW a \in Actors, NEW contract \in Contracts, NEW quantity \in Int,
         AskExitQuote(a, contract, quantity), UNCHANGED lots,
         Gentle => quantity \in 1..NetOf(lots[contract])
  PROVE  /\ pc' = [pc EXCEPT ![a] = "exitquote"]
         /\ job' = [job EXCEPT ![a] = job'[a]]
         /\ job'[a] \in JobType
         /\ job'[a].contract = contract
         /\ job'[a].quantity = quantity
         /\ job'[a].now = job[a].now
         /\ job'[a].todo = job[a].todo
         /\ job'[a].at = job[a].at
         /\ job'[a].snapshot = job[a].snapshot
         /\ job'[a].unpriced = job[a].unpriced
         /\ intrusions \subseteq intrusions'
         /\ Gentle' => HoldsEnough(job'[a]) /\ SoleExit(a, job'[a])
<1> PICK j : j = [job[a] EXCEPT !.contract = contract, !.quantity = quantity]
  OBVIOUS
<1>1. pc' = [pc EXCEPT ![a] = "exitquote"] /\ intrusions \subseteq intrusions'
  BY DEF AskExitQuote
<1>2. job' = [job EXCEPT ![a] = j]
  BY DEF AskExitQuote, OptionInv, Layers, Typed
<1>3. job[a] \in JobType
  BY ActorFacts
<1>4. /\ j \in JobType
      /\ j.contract = contract /\ j.quantity = quantity
      /\ j.now = job[a].now /\ j.todo = job[a].todo /\ j.at = job[a].at
      /\ j.snapshot = job[a].snapshot /\ j.unpriced = job[a].unpriced
  BY <1>3 DEF JobType
<1>5. Gentle' => HoldsEnough(j) /\ SoleExit(a, j)
  <2> SUFFICES ASSUME Gentle' PROVE HoldsEnough(j) /\ SoleExit(a, j)
    OBVIOUS
  <2>1. Gentle /\ ~Overlaps(a, contract)
    BY <1>1 DEF AskExitQuote, Gentle, Undisturbed
  <2> QED  BY <1>4, <2>1 DEF HoldsEnough, SoleExit, Overlaps
<1>6. job'[a] = j
  BY <1>2 DEF OptionInv, Layers, Typed
<1> QED  BY <1>1, <1>2, <1>4, <1>5, <1>6

LEMMA QuoteArrivesKeepsLayers ==
  ASSUME OptionInv, NEW t \in Tasks, NEW px \in Premiums, QuoteArrives(t, px)
  PROVE  Layers'
<1> PICK u : u = job[t].at
  OBVIOUS
<1> PICK position : position = job[t].snapshot[u]
  OBVIOUS
<1> PICK contract : contract = position.contract
  OBVIOUS
<1>1. /\ pc[t] = "quote" /\ t \notin cancelled
      /\ UNCHANGED <<cancelled, tracked, risk, cash, lots, realized, clock>>
  BY DEF QuoteArrives, Resumes, requestVars, tradeVars, accountVars
<1>2. /\ job[t] \in JobType /\ t \in Actors /\ t \notin Clients
      /\ JobFits(t, "quote", job[t])
  BY <1>1, TaskFacts
<1>3. u \in Underlyings \ job[t].todo /\ u # Nothing
  BY <1>2, OptionTradingAssumption DEF JobFits
<1>4. position \in Watched /\ contract \in Contracts
  <2>1. job[t].snapshot \in [Underlyings -> Watched \cup {Untracked}]
    BY <1>2 DEF JobType
  <2>2. u \in ToExit(job[t])
    BY <1>3 DEF ToExit
  <2>3. position # Untracked
    BY <1>2, <2>2 DEF JobFits, ExitPass
  <2>4. position \in Watched
    BY <1>3, <2>1, <2>3
  <2> QED  BY <2>4 DEF Watched
<1>5. OneDay' => Day(job[t].now) = Day(clock)
  <2>1. OneDay' => OneDay
    BY DEF QuoteArrives, AskExitQuote, OneDay, Undisturbed
  <2> QED  BY <1>1, <2>1, TaskFacts
<1>6. Calm' => WatchPass("quote", job[t])
  <2>1. Calm' => Calm
    BY DEF QuoteArrives, AskExitQuote, Calm, Undisturbed
  <2> QED  BY <1>1, <2>1, TaskFacts
<1>7. CASE MustExit(position, px, job[t].now) /\ IsOpen(contract)
  <2> PICK quantity : quantity = NetQuantity(contract)
    OBVIOUS
  <2>1. AskExitQuote(t, contract, quantity)
    BY <1>7 DEF QuoteArrives
  <2>2. /\ quantity \in Int /\ quantity # 0 /\ quantity = NetOf(lots[contract])
        /\ Gentle => quantity \in 1..NetOf(lots[contract])
    <3>1. AccountSound /\ (Gentle => NetOf(lots[contract]) >= 0)
      BY <1>4 DEF OptionInv, Layers, Typed, LedgerSound
    <3>2. quantity \in Int /\ quantity # 0 /\ quantity = NetOf(lots[contract])
      BY <1>4, <1>7, <3>1, NetIsQuantity
    <3> PICK net : net = NetOf(lots[contract])
      OBVIOUS
    <3>3. Gentle => quantity \in 1..net
      BY ONLY <3>1, <3>2, net = NetOf(lots[contract])
    <3> QED  BY <3>2, <3>3
  <2> PICK j : j = job'[t]
    OBVIOUS
  <2>3. /\ pc' = [pc EXCEPT ![t] = "exitquote"]
        /\ job' = [job EXCEPT ![t] = j]
        /\ j \in JobType
        /\ j.contract = contract /\ j.quantity = quantity
        /\ j.now = job[t].now /\ j.todo = job[t].todo /\ j.at = job[t].at
        /\ j.snapshot = job[t].snapshot /\ j.unpriced = job[t].unpriced
        /\ intrusions \subseteq intrusions'
        /\ Gentle' => HoldsEnough(j) /\ SoleExit(t, j)
    <3>1. t \in Actors /\ UNCHANGED lots
      BY <1>1, <1>2
    <3>2. quantity \in Int /\ (Gentle => quantity \in 1..NetOf(lots[contract]))
      BY <2>2
    <3>3. /\ pc' = [pc EXCEPT ![t] = "exitquote"]
          /\ job' = [job EXCEPT ![t] = job'[t]]
          /\ job'[t] \in JobType
          /\ job'[t].contract = contract
          /\ job'[t].quantity = quantity
          /\ job'[t].now = job[t].now
          /\ job'[t].todo = job[t].todo
          /\ job'[t].at = job[t].at
          /\ job'[t].snapshot = job[t].snapshot
          /\ job'[t].unpriced = job[t].unpriced
          /\ intrusions \subseteq intrusions'
          /\ Gentle' => HoldsEnough(job'[t]) /\ SoleExit(t, job'[t])
      BY ONLY OptionInv, <1>4, <2>1, <3>1, <3>2, ExitQuoteAsked
    <3> QED  BY <3>3
  <2>4. ToExit(j) = ToExit(job[t])
    BY <2>3 DEF ToExit
  <2>5. JobFits(t, "exitquote", j)
    BY <1>2, <1>3, <1>4, <2>2, <2>3, <2>4 DEF JobFits, ExitPass, Entering
  <2>6. Calm' => WatchPass("exitquote", j)
    BY <1>6, <2>2, <2>3, <2>4 DEF WatchPass, ExitPass, Entering
  <2> QED  BY <1>1, <1>2, <1>5, <2>3, <2>5, <2>6, QuietKeepsLayers
<1>8. CASE ~(MustExit(position, px, job[t].now) /\ IsOpen(contract))
  <2> PICK j : j = job'[t]
    OBVIOUS
  <2>1. GoesOn(t, "exits", {}, {}) /\ UNCHANGED intrusions
    BY <1>8 DEF QuoteArrives
  <2>2. /\ pc' = [pc EXCEPT ![t] = "exits"]
        /\ job'[t] \in JobType
        /\ job' = [job EXCEPT ![t] = job'[t]]
        /\ job'[t].at = Nothing
        /\ job'[t].now = job[t].now
        /\ job'[t].todo = job[t].todo
        /\ job'[t].snapshot = job[t].snapshot
        /\ job'[t].exited = job[t].exited \cup {}
        /\ job'[t].unpriced = job[t].unpriced \cup {}
    <3>1. {} \in SUBSET Underlyings
      OBVIOUS
    <3> QED  BY ONLY OptionInv, t \in Tasks, <2>1, <3>1, GoesOnMoves
  <2>3. ToExit(j) \subseteq ToExit(job[t]) /\ ToExit(job[t]) \subseteq ToExit(j) \cup {u}
    BY <2>2 DEF ToExit
  <2>4. JobFits(t, "exits", j)
    BY <1>2, <2>2, <2>3 DEF JobFits, ExitPass, Entering
  <2>5. Calm' => WatchPass("exits", j)
    <3> SUFFICES ASSUME Calm' PROVE WatchPass("exits", j)
      OBVIOUS
    <3>1. WatchPass("quote", job[t])
      BY <1>6
    <3>2. u \in ToExit(job[t]) /\ tracked[u] = position
      BY <1>3, <3>1 DEF ToExit, WatchPass, ExitPass
    <3>3. IsExitTime(job[t].now) => ~IsOpen(tracked[u].contract)
      BY <1>8, <3>2 DEF MustExit
    <3>4. j.unpriced = job[t].unpriced /\ j.now = job[t].now /\ j.snapshot = job[t].snapshot
      BY <2>2
    <3> QED  BY <2>3, <3>1, <3>3, <3>4 DEF WatchPass, ExitPass, Entering
  <2>6. /\ OneDay' => Day(j.now) = Day(clock)
        /\ j \in JobType /\ job' = [job EXCEPT ![t] = j]
    BY <1>5, <2>2
  <2> QED  BY <1>1, <1>2, <2>1, <2>2, <2>4, <2>5, <2>6, QuietKeepsLayers
<1> QED  BY <1>7, <1>8
LEMMA RequestEntryKeepsLayers ==
  ASSUME OptionInv, NEW c \in Clients, NEW u \in Underlyings, NEW count \in ManualLots,
         RequestEntry(c, u, count)
  PROVE  Layers'
<1> PICK j : j = [job[c] EXCEPT !.at = u, !.lots = count]
  OBVIOUS
<1>1. /\ pc' = [pc EXCEPT ![c] = "advice"]
      /\ UNCHANGED <<cancelled, intrusions, tracked, risk, cash, lots, realized, clock>>
  BY DEF RequestEntry, requestVars, tradeVars, accountVars
<1>2. c \in Actors /\ c \notin Tasks /\ job[c] \in JobType
  BY OptionTradingAssumption, ActorFacts DEF Actors
<1>3. job' = [job EXCEPT ![c] = j]
  BY DEF RequestEntry, OptionInv, Layers, Typed
<1>4. count \in Nat \ {0}
  BY OptionTradingAssumption
<1>5. j \in JobType /\ j.at = u /\ j.lots = count
  BY <1>2, <1>4 DEF JobType
<1>6. JobFits(c, "advice", j)
  BY <1>2, <1>4, <1>5 DEF JobFits, ExitPass, Entering
<1> QED  BY <1>1, <1>2, <1>3, <1>5, <1>6, QuietKeepsLayers

LEMMA RequestExitKeepsLayers ==
  ASSUME OptionInv, NEW c \in Clients, NEW contract \in Contracts,
         NEW size \in 1..Len(lots[contract]), RequestExit(c, contract, size)
  PROVE  Layers'
<1> PICK held : held = NetQuantity(contract)
  OBVIOUS
<1> PICK quantity : quantity = IF held > 0 THEN size ELSE -size
  OBVIOUS
<1>1. /\ AskExitQuote(c, contract, quantity)
      /\ UNCHANGED <<cancelled, tracked, risk, cash, lots, realized, clock>>
  BY DEF RequestExit, requestVars, tradeVars, accountVars
<1>2. c \in Actors /\ c \notin Tasks
  BY OptionTradingAssumption DEF Actors
<1>3. /\ quantity \in Int /\ quantity # 0
      /\ Gentle => quantity \in 1..NetOf(lots[contract])
  <2> PICK m : m = Len(lots[contract])
    OBVIOUS
  <2>1. AccountSound /\ (Gentle => NetOf(lots[contract]) >= 0)
    BY DEF OptionInv, Layers, Typed, LedgerSound
  <2>2. /\ held = NetOf(lots[contract]) /\ held \in Int
        /\ held >= 0 => held = m
    BY <2>1, NetIsQuantity
  <2>3. m \in Nat /\ size \in 1..m
    BY <2>1 DEF AccountSound
  <2>4. quantity \in Int /\ quantity # 0
    BY <2>3
  <2>5. Gentle => quantity \in 1..held
    BY ONLY <2>1, <2>2, <2>3, quantity = IF held > 0 THEN size ELSE -size
  <2> QED  BY <2>2, <2>4, <2>5
<1> PICK j : j = job'[c]
  OBVIOUS
<1>4. /\ pc' = [pc EXCEPT ![c] = "exitquote"]
      /\ job' = [job EXCEPT ![c] = j]
      /\ j \in JobType
      /\ j.contract = contract /\ j.quantity = quantity
      /\ intrusions \subseteq intrusions'
      /\ Gentle' => HoldsEnough(j) /\ SoleExit(c, j)
  <2>1. UNCHANGED lots /\ quantity \in Int /\ (Gentle => quantity \in 1..NetOf(lots[contract]))
    BY <1>1, <1>3
  <2>2. /\ pc' = [pc EXCEPT ![c] = "exitquote"]
        /\ job' = [job EXCEPT ![c] = job'[c]]
        /\ job'[c] \in JobType
        /\ job'[c].contract = contract
        /\ job'[c].quantity = quantity
        /\ job'[c].now = job[c].now
        /\ job'[c].todo = job[c].todo
        /\ job'[c].at = job[c].at
        /\ job'[c].snapshot = job[c].snapshot
        /\ job'[c].unpriced = job[c].unpriced
        /\ intrusions \subseteq intrusions'
        /\ Gentle' => HoldsEnough(job'[c]) /\ SoleExit(c, job'[c])
    BY ONLY OptionInv, contract \in Contracts, <1>1, <1>2, <2>1, ExitQuoteAsked
  <2> QED  BY <2>2
<1>5. JobFits(c, "exitquote", j)
  BY <1>2, <1>3, <1>4 DEF JobFits, ExitPass, Entering
<1> QED  BY <1>1, <1>2, <1>4, <1>5, QuietKeepsLayers

\* Requests to stop, and their answers, move no actor and no money.
LEMMA StandingKeepsLayers ==
  ASSUME OptionInv, cancelled \subseteq cancelled', intrusions \subseteq intrusions',
         UNCHANGED <<pc, job, tracked, risk, cash, lots, realized, clock>>
  PROVE  Layers'
<1>1. Typed'
  BY DEF OptionInv, Layers, Typed, AccountSound, StateTyped, JobFits
<1>2. LedgerSound'
  BY IntrusionsStay
     DEF OptionInv, Layers, LedgerSound, Exposure, Deployed, HoldsEnough, SoleExit
<1>3. DaySound'
  BY IntrusionsStay DEF OptionInv, Layers, DaySound
<1>4. WatchSound'
  BY IntrusionsStay
     DEF OptionInv, Layers, WatchSound, WatchPass, TrackedUnderlyings, IsOpen
<1> QED  BY <1>1, <1>2, <1>3, <1>4 DEF Layers

LEMMA StopKeepsLayers ==
  ASSUME OptionInv, StopRequested \/ StopReturns \/ UNCHANGED optionVars
  PROVE  Layers'
<1>1. /\ cancelled \subseteq cancelled' /\ intrusions \subseteq intrusions'
      /\ UNCHANGED <<pc, job, tracked, risk, cash, lots, realized, clock>>
  BY DEF StopRequested, StopReturns, optionVars, requestVars, actorVars, tradeVars,
         accountVars, worldVars
<1> QED  BY <1>1, StandingKeepsLayers

\* The day never goes back.
LEMMA DayMoves ==
  ASSUME clock \in Nat
  PROVE  Day(clock) \in Nat /\ Day(clock + 1) \in Nat /\ Day(clock) <= Day(clock + 1)
<1>1. DayLength \in Nat \ {0}
  BY OptionRiskAssumption
<1> QED  BY <1>1 DEF Day

LEMMA TickKeepsLayers ==
  ASSUME OptionInv, Tick
  PROVE  Layers'
<1>1. /\ clock' = clock + 1 /\ clock \in Nat
      /\ realized' = IF Day(clock') = Day(clock) THEN realized ELSE 0
      /\ intrusions \subseteq intrusions'
      /\ UNCHANGED <<pc, job, running, cancelled, tracked, risk, cash, lots>>
  BY DEF Tick, requestVars, actorVars, accountVars, OptionInv, Layers, Typed, StateTyped
<1>2. realized' \in Int
  BY <1>1 DEF OptionInv, Layers, Typed, StateTyped
<1>3. Typed'
  <2>1. AccountSound' /\ StateTyped'
    BY <1>1, <1>2 DEF OptionInv, Layers, Typed, AccountSound, StateTyped
  <2> QED  BY <1>1, <2>1 DEF OptionInv, Layers, Typed, JobFits
<1>4. LedgerSound'
  BY <1>1, IntrusionsStay
     DEF OptionInv, Layers, LedgerSound, Exposure, Deployed, HoldsEnough, SoleExit
<1>5. DaySound'
  <2> SUFFICES ASSUME OneDay'
               PROVE  /\ risk.day <= Day(clock')
                      /\ realized' = IF risk.day = Day(clock') THEN risk.daily_realized_pnl ELSE 0
                      /\ \A t \in Tasks : pc[t] \notin {"idle", "waiting"} =>
                           Day(job[t].now) = Day(clock')
    BY <1>1 DEF DaySound
  <2> PICK d : d = Day(clock)
    OBVIOUS
  <2> PICK e : e = Day(clock')
    OBVIOUS
  <2>1. d \in Nat /\ e \in Nat /\ d <= e /\ risk.day \in Int
    BY <1>1, DayMoves DEF OptionInv, Layers, Typed, StateTyped
  <2>2. /\ risk.day <= d
        /\ realized = IF risk.day = d THEN risk.daily_realized_pnl ELSE 0
        /\ \A t \in Tasks : pc[t] \notin {"idle", "waiting"} => Day(job[t].now) = d
    BY <1>1, IntrusionsStay DEF OptionInv, Layers, DaySound
  <2>3. e # d => \A t \in Tasks : pc[t] \in {"idle", "waiting"}
    BY DEF Tick, OneDay, Undisturbed
  <2>4. realized' = IF e = d THEN realized ELSE 0
    BY <1>1
  <2>5. CASE e = d
    BY <2>2, <2>4, <2>5
  <2>6. CASE e # d
    BY <2>1, <2>2, <2>3, <2>4, <2>6
  <2> QED  BY <2>5, <2>6
<1>6. WatchSound'
  BY <1>1, IntrusionsStay
     DEF OptionInv, Layers, WatchSound, WatchPass, TrackedUnderlyings, IsOpen
<1> QED  BY <1>3, <1>4, <1>5, <1>6 DEF Layers
-----------------------------------------------------------------------------
(***************************************************************************)
(* The steps that forget a position, enter one or exit one.                *)
(***************************************************************************)
\* In the calm only one task goes on.
LEMMA OthersIdle ==
  ASSUME OptionInv, NEW t \in Tasks, t \notin cancelled, Alive(t), Calm
  PROVE  \A b \in Tasks \ cancelled : b # t => pc[b] = "idle"
<1>1. ~Lost
  BY DEF Calm, Undisturbed, Lost
<1>2. \A b \in Tasks : Alive(b) /\ b \notin cancelled => b = handle
  BY <1>1 DEF OptionInv, PInv, OneLoop
<1> QED  BY <1>2 DEF Alive

\* An idle task keeps its promises whatever changes.
LEMMA WatchIdle ==
  ASSUME NEW j
  PROVE  WatchPass("idle", j)' /\ WatchPass("waiting", j)' /\ WatchPass("entries", j)'
BY DEF WatchPass, ExitPass, Entering

\* A task that goes on has watched its positions well when it has for itself.
LEMMA OwnWatch ==
  ASSUME OptionInv, NEW t \in Tasks, t \notin cancelled, Alive(t),
         NEW place, NEW j \in JobType,
         pc' = [pc EXCEPT ![t] = place], job' = [job EXCEPT ![t] = j],
         UNCHANGED cancelled, Calm' => Calm,
         Calm' => WatchPass(place, j)',
         Calm' => \A contract \in Contracts :
           lots'[contract] # <<>> => tracked'[UnderlyingOf[contract]].contract = contract
  PROVE  WatchSound'
<1> SUFFICES ASSUME Calm'
             PROVE  /\ \A contract \in Contracts :
                         IsOpen(contract)' => tracked'[UnderlyingOf[contract]].contract = contract
                    /\ \A b \in Tasks \ cancelled' : WatchPass(pc[b], job[b])'
  BY DEF WatchSound
<1>1. \A b \in Tasks : /\ pc'[b] = IF b = t THEN place ELSE pc[b]
                       /\ job'[b] = IF b = t THEN j ELSE job[b]
  BY DEF OptionInv, PInv, OptionTyped, Layers, Typed, Actors
<1>2. ASSUME NEW b \in Tasks \ cancelled'
      PROVE  WatchPass(pc[b], job[b])'
  <2>1. CASE b = t
    BY <1>1, <2>1 DEF WatchPass
  <2>2. CASE b # t
    <3>1. pc'[b] = "idle"
      BY <1>1, <2>2, OthersIdle
    <3> QED  BY <3>1 DEF WatchPass, ExitPass, Entering
  <2> QED  BY <2>1, <2>2
<1> QED  BY <1>2 DEF IsOpen

LEMMA ForgetClosedKeepsLayers ==
  ASSUME OptionInv, NEW t \in Tasks, NEW u \in Underlyings, ForgetClosed(t, u)
  PROVE  Layers'
<1> PICK closed : closed = job[t].snapshot[u].contract
  OBVIOUS
<1>1. /\ pc[t] = "exits" /\ running = t /\ u \in job[t].todo /\ ~IsOpen(closed)
      /\ tracked' = [tracked EXCEPT ![u] = Untracked]
      /\ UNCHANGED <<cancelled, intrusions, risk, cash, lots, realized, clock>>
  BY DEF ForgetClosed, Visits, requestVars, accountVars, worldVars
<1>2. /\ t \notin cancelled /\ Alive(t) /\ t \in Actors /\ t \notin Clients
      /\ job[t] \in JobType /\ JobFits(t, "exits", job[t])
      /\ pc = [pc EXCEPT ![t] = "exits"]
  BY <1>1, TaskFacts, RunningGoesOn DEF Alive
<1>3. tracked \in [Underlyings -> Watched \cup {Untracked}]
  BY DEF OptionInv, Layers, Typed, StateTyped
<1>4. CASE tracked[u] = Untracked
  <2>1. UNCHANGED tracked
    BY <1>1, <1>3, <1>4
  <2>2. pc' = [pc EXCEPT ![t] = "waiting"] /\ job' = [job EXCEPT ![t] = NoJob]
    BY <1>4 DEF ForgetClosed, CycleOver
  <2> QED  BY <1>1, <1>2, <2>1, <2>2, DoneKeepsLayers
<1>5. CASE tracked[u] # Untracked
  <2> PICK j : j = [job[t] EXCEPT !.todo = @ \ {u}]
    OBVIOUS
  <2>1. pc' = [pc EXCEPT ![t] = "exits"] /\ job' = [job EXCEPT ![t] = j]
    BY <1>2, <1>5 DEF ForgetClosed, OptionInv, Layers, Typed
  <2>2. /\ j \in JobType
        /\ j.todo = job[t].todo \ {u} /\ j.at = Nothing /\ j.snapshot = job[t].snapshot
        /\ j.now = job[t].now /\ j.unpriced = job[t].unpriced
    BY <1>2 DEF JobType, JobFits
  <2>3. u # Nothing /\ u \in ToExit(job[t]) /\ ToExit(j) = ToExit(job[t]) \ {u}
    <3>1. u # Nothing /\ job[t].at = Nothing
      BY <1>2, OptionTradingAssumption DEF JobFits
    <3> QED  BY <1>1, <2>2, <3>1 DEF ToExit
  <2>4. JobFits(t, "exits", j)
    BY <1>2, <2>2, <2>3 DEF JobFits, ExitPass, Entering
  <2>5. Typed'
    <3>1. StateTyped'
      BY <1>1, <1>3 DEF OptionInv, Layers, Typed, StateTyped
    <3>2. AccountSound'
      BY <1>1 DEF OptionInv, Layers, Typed, AccountSound
    <3> QED  BY <1>2, <2>1, <2>2, <2>4, <3>1, <3>2, MovesKeepTyped DEF OptionInv, Layers
  <2>6. \A b \in Actors : /\ pc'[b] = pc[b]
                          /\ b # t => job'[b] = job[b]
                          /\ b \in Tasks => job'[b].now = job[b].now
    BY <1>2, <2>1, <2>2 DEF OptionInv, Layers, Typed
  <2>7. LedgerSound'
    <3>1. \A b \in Actors : pc'[b] = "exitquote" => pc[b] = "exitquote" /\ job'[b] = job[b]
      BY <1>1, <2>6
    <3> QED  BY <1>1, <3>1, IntrusionsStay
             DEF OptionInv, Layers, LedgerSound, Exposure, Deployed, HoldsEnough, SoleExit
  <2>8. DaySound'
    BY <1>1, <2>6, IntrusionsStay DEF OptionInv, Layers, DaySound, Actors
  <2>9. Calm' => Calm /\ WatchPass("exits", job[t])
    BY <1>1, <1>2, TaskFacts, IntrusionsStay
  <2>10. Calm' => WatchPass("exits", j)'
    <3> SUFFICES ASSUME Calm' PROVE WatchPass("exits", j)'
      OBVIOUS
    <3>1. \A v \in Underlyings : tracked'[v] = IF v = u THEN Untracked ELSE tracked[v]
      BY <1>1, <1>3
    <3>2. \A v \in ToExit(job[t]) : v \in Underlyings /\ tracked[v] = job[t].snapshot[v]
      BY <1>2, <2>9 DEF WatchPass, ExitPass, ToExit, JobType
    <3>3. \A v \in ToExit(j) : tracked'[v] = j.snapshot[v]
      BY <2>2, <2>3, <3>1, <3>2
    <3>4. ASSUME IsExitTime(j.now), NEW v \in TrackedUnderlyings', IsOpen(tracked'[v].contract)
          PROVE  v \in j.unpriced \cup ToExit(j)
      <4>1. v \in Underlyings /\ tracked'[v] # Untracked
        BY <3>4 DEF TrackedUnderlyings
      <4>2. v # u /\ v \in TrackedUnderlyings /\ tracked'[v] = tracked[v]
        BY <3>1, <4>1 DEF TrackedUnderlyings
      <4>3. v \in job[t].unpriced \cup ToExit(job[t])
        BY <2>2, <2>9, <3>4, <4>2 DEF WatchPass, ExitPass
      <4> QED  BY <2>2, <2>3, <4>2, <4>3
    <3> QED  BY <1>1, <3>3, <3>4 DEF WatchPass, Entering, IsOpen
  <2>11. Calm' => \A contract \in Contracts :
           lots'[contract] # <<>> => tracked'[UnderlyingOf[contract]].contract = contract
    <3> SUFFICES ASSUME Calm', NEW contract \in Contracts, lots'[contract] # <<>>
                 PROVE  tracked'[UnderlyingOf[contract]].contract = contract
      OBVIOUS
    <3>1. IsOpen(contract) /\ tracked[UnderlyingOf[contract]].contract = contract
      BY <1>1, <2>9 DEF OptionInv, Layers, WatchSound, IsOpen
    <3>2. tracked[u] = job[t].snapshot[u]
      BY <2>3, <2>9 DEF WatchPass, ExitPass
    <3>3. UnderlyingOf[contract] # u
      BY <1>1, <3>1, <3>2
    <3>4. UnderlyingOf[contract] \in Underlyings
      BY OptionTradingAssumption
    <3> QED  BY <1>1, <1>3, <3>1, <3>3, <3>4
  <2>12. WatchSound'
    BY <1>1, <1>2, <2>1, <2>2, <2>9, <2>10, <2>11, OwnWatch
  <2> QED  BY <2>5, <2>7, <2>8, <2>12 DEF Layers
<1> QED  BY <1>4, <1>5
\* The order of an entry completes.
EntryFills(a, px) ==
    LET quantity == job[a].lots * LotSize
    IN  /\ OrderAllowed(RollDay(risk, NowOf(a)), job[a].lots, quantity * px, Exposure)
        /\ Filled("BUY", quantity, px)

LEMMA EnterAtFacts ==
  ASSUME OptionInv, NEW a \in Actors, NEW px \in Premiums, EnterAt(a, px),
         NEW contract, contract = job[a].contract,
         NEW quantity, quantity = job[a].lots * LotSize
  PROVE  /\ pc[a] = "premium" /\ a \notin cancelled /\ Alive(a)
         /\ EntryOver(a)
         /\ contract \in Contracts /\ quantity \in Nat \ {0} /\ px \in Nat \ {0}
         /\ job[a].at \in Underlyings /\ UnderlyingOf[contract] = job[a].at
         /\ a \in Tasks => job[a].at \notin job[a].exited
         /\ risk' = RollDay(risk, NowOf(a))
         /\ intrusions \subseteq intrusions'
         /\ UNCHANGED <<cancelled, clock>>
         /\ EntryFills(a, px) =>
              /\ FillOrder(contract, "BUY", quantity, px)
              /\ realized' = realized + PnlOf(contract, "BUY", quantity, px)
              /\ Exposure + quantity * px <= MaxPremiumExposure
              /\ RollDay(risk, NowOf(a)).daily_realized_pnl > -MaxDailyLoss
              /\ a \in Clients => "entry_by_hand" \in intrusions'
              /\ a \in Tasks => tracked' = [tracked EXCEPT ![job[a].at] =
                                   [contract |-> contract, entry_premium |-> px]]
         /\ ~EntryFills(a, px) => UNCHANGED <<cash, lots, realized, tracked, intrusions>>
         /\ a \in Clients => UNCHANGED tracked
<1>1. /\ pc[a] = "premium" /\ a \notin cancelled /\ Alive(a)
      /\ EntryOver(a)
      /\ risk' = RollDay(risk, NowOf(a))
      /\ intrusions \subseteq intrusions'
      /\ UNCHANGED <<cancelled, clock>>
  BY DEF EnterAt, Resumes, Alive, requestVars
<1>2. a \notin Tasks <=> a \in Clients
  BY ActorFacts
<1>3. JobFits(a, "premium", job[a]) /\ job[a] \in JobType
  BY <1>1, ActorFacts
<1>4. /\ contract \in Contracts /\ px \in Nat \ {0}
      /\ job[a].at \in Underlyings /\ UnderlyingOf[contract] = job[a].at
      /\ a \in Tasks => job[a].at \notin job[a].exited
      /\ job[a].lots \in Nat \ {0}
  BY <1>3, OptionTradingAssumption DEF JobFits, Entering, JobType
<1>5. quantity \in Nat \ {0}
  <2> PICK m : m = job[a].lots
    OBVIOUS
  <2>1. m \in Nat \ {0} /\ LotSize \in Nat \ {0} /\ quantity = m * LotSize
    BY <1>4, OptionTradingAssumption
  <2> QED  BY ONLY <2>1
<1>6. ASSUME EntryFills(a, px)
      PROVE  /\ FillOrder(contract, "BUY", quantity, px)
             /\ realized' = realized + PnlOf(contract, "BUY", quantity, px)
             /\ a \in Clients => "entry_by_hand" \in intrusions'
             /\ a \in Tasks => tracked' = [tracked EXCEPT ![job[a].at] =
                                   [contract |-> contract, entry_premium |-> px]]
  BY <1>6 DEF EntryFills, EnterAt, Track
<1>7. EntryFills(a, px) =>
        /\ Exposure + quantity * px <= MaxPremiumExposure
        /\ RollDay(risk, NowOf(a)).daily_realized_pnl > -MaxDailyLoss
  BY DEF EntryFills, OrderAllowed
<1>8. ~EntryFills(a, px) => UNCHANGED <<cash, lots, realized, tracked, intrusions>>
  <2> SUFFICES ASSUME ~EntryFills(a, px)
               PROVE  UNCHANGED <<cash, lots, realized, tracked, intrusions>>
    OBVIOUS
  <2>1. UNCHANGED <<cash, lots, realized>> /\ UNCHANGED intrusions
    BY DEF EntryFills, EnterAt, accountVars
  <2>2. UNCHANGED tracked
    BY DEF EntryFills, EnterAt, Track
  <2> QED  BY <2>1, <2>2
<1>9. a \in Clients => UNCHANGED tracked
  BY <1>2 DEF EnterAt
<1> QED  BY <1>1, <1>4, <1>5, <1>6, <1>7, <1>8, <1>9

\* The clock an actor goes by shows the day.
LEMMA DayOfActor ==
  ASSUME OptionInv, NEW a \in Actors, OneDay, pc[a] \notin {"idle", "waiting"}
  PROVE  Day(NowOf(a)) = Day(clock)
BY TaskFacts DEF NowOf

LEMMA EnterAtKeepsLayers ==
  ASSUME OptionInv, NEW a \in Actors, NEW px \in Premiums, EnterAt(a, px)
  PROVE  Layers'
<1> PICK contract : contract = job[a].contract
  OBVIOUS
<1> PICK quantity : quantity = job[a].lots * LotSize
  OBVIOUS
<1> PICK u : u = job[a].at
  OBVIOUS
<1>1. /\ pc[a] = "premium" /\ a \notin cancelled /\ Alive(a)
      /\ EntryOver(a)
      /\ contract \in Contracts /\ quantity \in Nat \ {0} /\ px \in Nat \ {0}
      /\ u \in Underlyings /\ UnderlyingOf[contract] = u
      /\ a \in Tasks => u \notin job[a].exited
      /\ risk' = RollDay(risk, NowOf(a))
      /\ intrusions \subseteq intrusions'
      /\ UNCHANGED <<cancelled, clock>>
      /\ EntryFills(a, px) =>
           /\ FillOrder(contract, "BUY", quantity, px)
           /\ realized' = realized + PnlOf(contract, "BUY", quantity, px)
           /\ Exposure + quantity * px <= MaxPremiumExposure
           /\ a \in Clients => "entry_by_hand" \in intrusions'
           /\ a \in Tasks => tracked' = [tracked EXCEPT ![u] =
                                [contract |-> contract, entry_premium |-> px]]
      /\ ~EntryFills(a, px) => UNCHANGED <<cash, lots, realized, tracked, intrusions>>
      /\ a \in Clients => UNCHANGED tracked
  BY EnterAtFacts
<1>2. PICK place \in {"entries", "idle"}, j \in JobType :
        /\ pc' = [pc EXCEPT ![a] = place]
        /\ job' = [job EXCEPT ![a] = j]
        /\ JobFits(a, place, j)
        /\ a \in Tasks => place = "entries" /\ j.now = job[a].now
  <2>1. pc[a] \in Entering
    BY <1>1 DEF Entering
  <2> QED  BY <1>1, <2>1, EntryOverJob
<1>3. \A b \in Actors : /\ pc'[b] = IF b = a THEN place ELSE pc[b]
                        /\ job'[b] = IF b = a THEN j ELSE job[b]
  BY <1>2 DEF OptionInv, PInv, OptionTyped, Layers, Typed
<1>4. /\ AccountSound
      /\ tracked \in [Underlyings -> Watched \cup {Untracked}]
      /\ risk \in [day : Int, daily_realized_pnl : Int]
      /\ realized \in Int /\ clock \in Nat
      /\ px \in Nat
  BY <1>1 DEF OptionInv, Layers, Typed, StateTyped
<1>5. /\ AccountSound' /\ realized' \in Int
      /\ \A c \in Contracts \ {contract} : lots'[c] = lots[c]
      /\ NetOf(lots'[contract]) = NetOf(lots[contract]) \/
         NetOf(lots'[contract]) = NetOf(lots[contract]) + quantity
  <2>1. CASE EntryFills(a, px)
    <3>1. FillOrder(contract, "BUY", quantity, px) /\ "BUY" \in Trades
      BY <1>1, <2>1 DEF Trades
    <3>2. /\ AccountSound'
          /\ NetOf(lots'[contract]) = NetOf(lots[contract])
               + (IF "BUY" = "BUY" THEN quantity ELSE -quantity)
          /\ \A s \in Contracts \ {contract} : lots'[s] = lots[s]
      BY ONLY <1>1, <1>4, <3>1, OrderFills
    <3>3. PnlOf(contract, "BUY", quantity, px) \in Int
      BY <1>1, <1>4, PnlIsInt
    <3> QED  BY <1>1, <1>4, <2>1, <3>2, <3>3
  <2>2. CASE ~EntryFills(a, px)
    BY <1>1, <1>4, <2>2 DEF AccountSound
  <2> QED  BY <2>1, <2>2
<1>6. Typed'
  <2>1. risk' \in [day : Int, daily_realized_pnl : Int]
    <3>1. NowOf(a) \in Nat
      BY <1>4, ActorFacts DEF NowOf, JobType
    <3>2. Day(NowOf(a)) \in Int
      BY <3>1, OptionRiskAssumption DEF Day
    <3> QED  BY <1>1, <1>4, <3>2 DEF RollDay, FreshRisk
  <2>2. tracked' \in [Underlyings -> Watched \cup {Untracked}]
    <3>1. [contract |-> contract, entry_premium |-> px] \in Watched
      BY <1>1 DEF Watched
    <3> QED  BY <1>1, <1>4, <3>1, ActorFacts
  <2>3. StateTyped'
    BY <1>1, <1>4, <1>5, <2>1, <2>2 DEF StateTyped
  <2> QED  BY <1>2, <1>5, <2>3, MovesKeepTyped DEF OptionInv, Layers
<1>7. Gentle' => /\ Gentle /\ LedgerSound
                 /\ EntryFills(a, px) => /\ Exposure' = Exposure + quantity * px
                                         /\ PnlOf(contract, "BUY", quantity, px) = 0
                 /\ ~EntryFills(a, px) => Exposure' = Exposure
  <2> SUFFICES ASSUME Gentle'
               PROVE  /\ Gentle /\ LedgerSound
                      /\ EntryFills(a, px) => /\ Exposure' = Exposure + quantity * px
                                              /\ PnlOf(contract, "BUY", quantity, px) = 0
                      /\ ~EntryFills(a, px) => Exposure' = Exposure
    OBVIOUS
  <2>1. Gentle /\ LedgerSound
    BY <1>1, IntrusionsStay DEF OptionInv, Layers
  <2>2. NetOf(lots[contract]) >= 0
    BY <1>1, <2>1 DEF LedgerSound
  <2>3. EntryFills(a, px) => /\ Exposure' = Exposure + quantity * px
                             /\ PnlOf(contract, "BUY", quantity, px) = 0
    BY <1>1, <1>4, <2>2, BuyAdds
  <2>4. ~EntryFills(a, px) => Exposure' = Exposure
    BY <1>1 DEF Exposure, Deployed
  <2> QED  BY <2>1, <2>3, <2>4
<1>8. LedgerSound'
  <2> SUFFICES ASSUME Gentle'
               PROVE  /\ \A c \in Contracts : NetOf(lots'[c]) >= 0
                      /\ Exposure' <= MaxPremiumExposure
                      /\ \A b \in Actors : pc'[b] = "exitquote" =>
                           HoldsEnough(job[b])' /\ SoleExit(b, job[b])'
    BY DEF LedgerSound
  <2>1. /\ \A c \in Contracts : NetOf(lots[c]) >= 0
        /\ Exposure <= MaxPremiumExposure
        /\ \A b \in Actors : pc[b] = "exitquote" => HoldsEnough(job[b]) /\ SoleExit(b, job[b])
    BY <1>7 DEF LedgerSound
  <2>2. \A c \in Contracts : /\ NetOf(lots[c]) \in Int /\ NetOf(lots'[c]) \in Int
                             /\ NetOf(lots'[c]) >= NetOf(lots[c])
    <3>1. \A c \in Contracts : lots[c] \in Seq(Unit) /\ lots'[c] \in Seq(Unit)
      BY <1>4, <1>5 DEF AccountSound
    <3>2. \A c \in Contracts : NetOf(lots[c]) \in Int /\ NetOf(lots'[c]) \in Int
      BY <3>1, NetZero
    <3>3. \A c \in Contracts \ {contract} : NetOf(lots'[c]) = NetOf(lots[c])
      BY <1>5
    <3>4. NetOf(lots'[contract]) >= NetOf(lots[contract])
      BY <1>1, <1>5, <3>2
    <3> QED  BY <3>2, <3>3, <3>4
  <2>3. ASSUME NEW b \in Actors, pc'[b] = "exitquote"
        PROVE  HoldsEnough(job[b])' /\ SoleExit(b, job[b])'
    <3>1. b # a /\ pc[b] = "exitquote" /\ job'[b] = job[b]
      BY <1>3, <2>3
    <3>2. HoldsEnough(job[b]) /\ SoleExit(b, job[b]) /\ job[b].contract \in Contracts
      BY <2>1, <3>1, ActorFacts DEF JobFits
    <3> PICK c : c = job[b].contract
      OBVIOUS
    <3>3. job[b].quantity \in 1..NetOf(lots'[c])
      BY <2>2, <3>2 DEF HoldsEnough
    <3>4. SoleExit(b, job[b])'
      BY <1>3, <3>1, <3>2 DEF SoleExit
    <3> QED  BY <3>1, <3>3, <3>4 DEF HoldsEnough
  <2>4. Exposure' <= MaxPremiumExposure
    <3>1. CASE EntryFills(a, px)
      BY <1>1, <1>7, <3>1
    <3>2. CASE ~EntryFills(a, px)
      BY <1>7, <2>1, <3>2
    <3> QED  BY <3>1, <3>2
  <2>5. \A c \in Contracts : NetOf(lots'[c]) >= 0
    BY <2>1, <2>2
  <2> QED  BY <2>3, <2>4, <2>5
<1>9. DaySound'
  <2> SUFFICES ASSUME OneDay'
               PROVE  /\ risk'.day <= Day(clock)
                      /\ realized' = IF risk'.day = Day(clock) THEN risk'.daily_realized_pnl ELSE 0
                      /\ \A t \in Tasks : pc'[t] \notin {"idle", "waiting"} =>
                           Day(job'[t].now) = Day(clock)
    BY <1>1 DEF DaySound
  <2> PICK d : d = Day(clock)
    OBVIOUS
  <2>1. OneDay /\ Gentle'
    BY <1>1, IntrusionsStay DEF OneDay, Gentle, Undisturbed
  <2>2. /\ risk.day <= d
        /\ realized = IF risk.day = d THEN risk.daily_realized_pnl ELSE 0
        /\ \A t \in Tasks : pc[t] \notin {"idle", "waiting"} => Day(job[t].now) = d
    BY <2>1 DEF OptionInv, Layers, DaySound
  <2>3. d \in Nat /\ Day(NowOf(a)) = d
    BY <1>1, <1>4, <2>1, DayMoves, DayOfActor
  <2>4. risk' = IF risk.day = d THEN risk ELSE [day |-> d, daily_realized_pnl |-> 0]
    BY <1>1, <2>3 DEF RollDay, FreshRisk
  <2>5. realized' = realized
    BY <1>1, <1>4, <1>7, <2>1
  <2>6. \A t \in Tasks : pc'[t] \notin {"idle", "waiting"} => Day(job'[t].now) = d
    BY <1>1, <1>2, <1>3, <2>2 DEF Actors
  <2>7. risk'.day = d /\ realized' = risk'.daily_realized_pnl
    BY <2>2, <2>4, <2>5
  <2> QED  BY <2>3, <2>6, <2>7
<1>10. WatchSound'
  <2>1. Calm' => Calm
    BY <1>1, IntrusionsStay
  <2>2. CASE a \in Clients
    <3>1. Calm' => /\ WatchSound /\ Calm
                   /\ UNCHANGED <<lots, tracked>>
      <4>1. Calm' => ~EntryFills(a, px)
        BY <1>1, <2>2 DEF Calm, Undisturbed
      <4> QED  BY <1>1, <2>1, <4>1 DEF OptionInv, Layers
    <3>2. \A b \in Tasks : pc'[b] = pc[b] /\ job'[b] = job[b]
      BY <1>3, <2>2, OptionTradingAssumption DEF Actors
    <3> QED  BY <1>1, <3>1, <3>2 DEF WatchSound, WatchPass, TrackedUnderlyings, IsOpen
  <2>3. CASE a \in Tasks
    <3>1. WatchPass(place, j)'
      BY <1>2, <2>3, WatchIdle
    <3>2. Calm' => \A c \in Contracts :
            lots'[c] # <<>> => tracked'[UnderlyingOf[c]].contract = c
      <4> SUFFICES ASSUME Calm', NEW c \in Contracts, lots'[c] # <<>>
                   PROVE  tracked'[UnderlyingOf[c]].contract = c
        OBVIOUS
      <4>1. \A s \in Contracts : lots[s] # <<>> => tracked[UnderlyingOf[s]].contract = s
        BY <2>1 DEF OptionInv, Layers, WatchSound, IsOpen
      <4>2. CASE EntryFills(a, px)
        <5>1. tracked' = [tracked EXCEPT ![u] = [contract |-> contract, entry_premium |-> px]]
          BY <1>1, <2>3, <4>2
        <5>2. tracked'[u].contract = contract
          BY <1>1, <1>4, <5>1
        <5>3. CASE c = contract
          BY <1>1, <5>2, <5>3
        <5>4. CASE c # contract
          <6>1. tracked[UnderlyingOf[c]].contract = c
            BY <1>5, <4>1, <5>4
          <6>2. tracked[u].contract = Nothing
            <7>1. WatchPass(pc[a], job[a])
              BY <1>1, <2>1, <2>3, TaskFacts
            <7> QED  BY <1>1, <7>1 DEF WatchPass, Entering, Untracked
          <6>3. UnderlyingOf[c] # u /\ UnderlyingOf[c] \in Underlyings
            BY <6>1, <6>2, OptionTradingAssumption
          <6> QED  BY <1>4, <5>1, <6>1, <6>3
        <5> QED  BY <5>3, <5>4
      <4>3. CASE ~EntryFills(a, px)
        BY <1>1, <4>1, <4>3
      <4> QED  BY <4>2, <4>3
    <3> QED  BY <1>1, <1>2, <2>1, <2>3, <3>1, <3>2, OwnWatch
  <2> QED  BY <2>2, <2>3 DEF Actors
<1> QED  BY <1>6, <1>8, <1>9, <1>10 DEF Layers
\* What an exit does to the account: an order for the quantity read before its
\* quote, a sale of it where nothing has been written.
LEMMA ExitAtTrades ==
  ASSUME OptionInv, NEW a \in Actors, NEW px \in Premiums, ExitAt(a, px),
         NEW contract, contract = job[a].contract
  PROVE  /\ pc[a] = "exitquote" /\ a \notin cancelled /\ Alive(a)
         /\ contract \in Contracts
         /\ UNCHANGED <<cancelled, intrusions, clock>>
         /\ AccountSound'
         /\ \A s \in Contracts \ {contract} : lots'[s] = lots[s]
         /\ \E pnl \in Int : /\ risk' = RecordTradeClosed(risk, pnl, NowOf(a))
                             /\ realized' = realized + pnl
         /\ Gentle => /\ NetOf(lots'[contract]) = NetOf(lots[contract]) - job[a].quantity
                      /\ Exposure' \in Int /\ Exposure' <= Exposure
<1> DEFINE long == job[a].quantity > 0
           side == IF long THEN "SELL" ELSE "BUY"
           size == IF long THEN job[a].quantity ELSE -job[a].quantity
           pnl  == IF Filled(side, size, px) THEN PnlOf(contract, side, size, px) ELSE 0
<1>1. /\ pc[a] = "exitquote" /\ a \notin cancelled /\ Alive(a)
      /\ UNCHANGED <<cancelled, intrusions, clock>>
      /\ MarketOrder(contract, side, size, px)
      /\ risk' = RecordTradeClosed(risk, pnl, NowOf(a))
      /\ realized' = realized + pnl
  BY DEF ExitAt, Resumes, Alive, requestVars, worldVars
<1>2. contract \in Contracts /\ job[a].quantity \in Int /\ job[a].quantity # 0
  BY <1>1, ActorFacts DEF JobFits, JobType
<1>3. AccountSound /\ px \in Nat
  BY OptionTradingAssumption DEF OptionInv, Layers, Typed
<1>4. side \in Trades /\ size \in Nat \ {0}
  BY <1>2 DEF Trades
<1>5. Gentle => side = "SELL" /\ size = job[a].quantity /\ size <= NetOf(lots[contract])
  <2> SUFFICES ASSUME Gentle
               PROVE  side = "SELL" /\ size = job[a].quantity /\ size <= NetOf(lots[contract])
    OBVIOUS
  <2>1. job[a].quantity \in 1..NetOf(lots[contract])
    BY <1>1 DEF OptionInv, Layers, LedgerSound, HoldsEnough
  <2> QED  BY <1>2, <2>1
<1> HIDE DEF side, size
<1>6. pnl \in Int
  <2>1. PnlOf(contract, side, size, px) \in Int
    BY <1>2, <1>3, <1>4, PnlIsInt
  <2> QED  BY <2>1
<1> HIDE DEF pnl
<1>7. CASE Filled(side, size, px)
  <2>1. FillOrder(contract, side, size, px)
    BY <1>1, <1>7 DEF MarketOrder
  <2>2. /\ AccountSound'
        /\ NetOf(lots'[contract]) = NetOf(lots[contract]) + (IF side = "BUY" THEN size ELSE -size)
        /\ \A s \in Contracts \ {contract} : lots'[s] = lots[s]
    BY ONLY <1>2, <1>3, <1>4, <2>1, OrderFills
  <2>3. Gentle => /\ NetOf(lots'[contract]) = NetOf(lots[contract]) - job[a].quantity
                  /\ Exposure' \in Int /\ Exposure' <= Exposure
    <3> SUFFICES ASSUME Gentle
                 PROVE  /\ NetOf(lots'[contract]) = NetOf(lots[contract]) - job[a].quantity
                        /\ Exposure' \in Int /\ Exposure' <= Exposure
      OBVIOUS
    <3>1. FillOrder(contract, "SELL", size, px) /\ NetOf(lots[contract]) >= size
      <4> PICK net : net = NetOf(lots[contract])
        OBVIOUS
      <4>1. net \in Int /\ size \in Int
        BY <1>2, <1>3, <1>4, NetZero DEF AccountSound
      <4>2. net >= size
        BY ONLY <4>1, <1>5, Gentle, net = NetOf(lots[contract])
      <4> QED  BY <1>5, <2>1, <4>2
    <3>2. Exposure' \in Int /\ Exposure' <= Exposure
      BY ONLY <1>2, <1>3, <1>4, <3>1, SellTakes
    <3>3. NetOf(lots[contract]) \in Int
      BY <1>2, <1>3, NetZero DEF AccountSound
    <3> QED  BY <1>2, <1>5, <2>2, <3>2, <3>3
  <2> QED  BY <1>1, <1>2, <1>6, <2>2, <2>3
<1>8. CASE ~Filled(side, size, px)
  <2>1. UNCHANGED <<cash, lots>>
    BY <1>1, <1>8 DEF MarketOrder
  <2>2. ~Gentle
    BY <1>5, <1>8 DEF Filled
  <2> QED  BY <1>1, <1>2, <1>3, <1>6, <2>1, <2>2 DEF AccountSound
<1> QED  BY <1>7, <1>8

\* Where an exit leads.
LEMMA ExitAtJob ==
  ASSUME OptionInv, NEW a \in Actors, NEW px \in Premiums, ExitAt(a, px)
  PROVE  \E place \in {"exits", "idle", "waiting"}, j \in JobType :
           /\ pc' = [pc EXCEPT ![a] = place]
           /\ job' = [job EXCEPT ![a] = j]
           /\ JobFits(a, place, j)
           /\ a \in Clients => UNCHANGED tracked
           /\ a \in Tasks => /\ tracked' = [tracked EXCEPT ![job[a].at] = Untracked]
                             /\ place \in {"exits", "waiting"}
           /\ a \in Tasks /\ place = "exits" =>
                /\ j.now = job[a].now /\ j.todo = job[a].todo /\ j.at = Nothing
                /\ j.snapshot = job[a].snapshot
                /\ j.unpriced = job[a].unpriced
<1>1. pc[a] = "exitquote" /\ JobFits(a, "exitquote", job[a]) /\ job[a] \in JobType
  BY ActorFacts DEF ExitAt, Resumes
<1>2. CASE a \in Clients
  <2>1. pc' = [pc EXCEPT ![a] = "idle"] /\ job' = [job EXCEPT ![a] = NoJob] /\ UNCHANGED tracked
    BY <1>2 DEF ExitAt, Answered
  <2> QED  BY <1>2, <2>1, NoJobFits, ActorFacts
<1>3. CASE a \notin Clients
  <2>1. /\ a \in Tasks
        /\ tracked' = [tracked EXCEPT ![job[a].at] = Untracked]
        /\ GoesOn(a, "exits", {job[a].at}, {}) \/ CycleOver(a)
    BY <1>3, ActorFacts DEF ExitAt
  <2>2. CASE CycleOver(a)
    <3>1. pc' = [pc EXCEPT ![a] = "waiting"] /\ job' = [job EXCEPT ![a] = NoJob]
      BY <2>2 DEF CycleOver
    <3> QED  BY <1>3, <2>1, <3>1, NoJobFits
  <2>3. CASE GoesOn(a, "exits", {job[a].at}, {})
    <3> PICK x : x = {job[a].at}
      OBVIOUS
    <3> PICK j : j = job'[a]
      OBVIOUS
    <3>1. x \in SUBSET Underlyings /\ {} \in SUBSET Underlyings /\ GoesOn(a, "exits", x, {})
      BY <1>1, <2>1, <2>3 DEF JobFits
    <3>2. /\ pc' = [pc EXCEPT ![a] = "exits"]
          /\ job'[a] \in JobType
          /\ job' = [job EXCEPT ![a] = job'[a]]
          /\ job'[a].at = Nothing
          /\ job'[a].now = job[a].now
          /\ job'[a].todo = job[a].todo
          /\ job'[a].snapshot = job[a].snapshot
          /\ job'[a].exited = job[a].exited \cup x
          /\ job'[a].unpriced = job[a].unpriced \cup {}
      BY ONLY OptionInv, <2>1, <3>1, GoesOnMoves
    <3>3. /\ pc' = [pc EXCEPT ![a] = "exits"]
          /\ job' = [job EXCEPT ![a] = j] /\ j \in JobType
          /\ j.now = job[a].now /\ j.todo = job[a].todo /\ j.at = Nothing
          /\ j.snapshot = job[a].snapshot
          /\ j.unpriced = job[a].unpriced
      BY <3>2
    <3>4. ToExit(j) \subseteq ToExit(job[a])
      BY <3>3 DEF ToExit
    <3>5. JobFits(a, "exits", j)
      BY <1>1, <1>3, <2>1, <3>3, <3>4 DEF JobFits, ExitPass, Entering
    <3> QED  BY <1>3, <2>1, <3>3, <3>5
  <2> QED  BY <2>1, <2>2, <2>3
<1> QED  BY <1>2, <1>3
LEMMA ExitAtKeepsLayers ==
  ASSUME OptionInv, NEW a \in Actors, NEW px \in Premiums, ExitAt(a, px)
  PROVE  Layers'
<1> PICK contract : contract = job[a].contract
  OBVIOUS
<1> PICK quantity : quantity = job[a].quantity
  OBVIOUS
<1> PICK u : u = job[a].at
  OBVIOUS
<1>1. /\ pc[a] = "exitquote" /\ a \notin cancelled /\ Alive(a)
      /\ contract \in Contracts
      /\ UNCHANGED <<cancelled, intrusions, clock>>
      /\ AccountSound'
      /\ \A s \in Contracts \ {contract} : lots'[s] = lots[s]
      /\ \E pnl \in Int : /\ risk' = RecordTradeClosed(risk, pnl, NowOf(a))
                          /\ realized' = realized + pnl
      /\ Gentle => /\ NetOf(lots'[contract]) = NetOf(lots[contract]) - quantity
                   /\ Exposure' \in Int /\ Exposure' <= Exposure
  BY ExitAtTrades
<1>2. PICK place \in {"exits", "idle", "waiting"}, j \in JobType :
        /\ pc' = [pc EXCEPT ![a] = place]
        /\ job' = [job EXCEPT ![a] = j]
        /\ JobFits(a, place, j)
        /\ a \in Clients => UNCHANGED tracked
        /\ a \in Tasks => /\ tracked' = [tracked EXCEPT ![u] = Untracked]
                          /\ place \in {"exits", "waiting"}
        /\ a \in Tasks /\ place = "exits" =>
             /\ j.now = job[a].now /\ j.todo = job[a].todo /\ j.at = Nothing
             /\ j.snapshot = job[a].snapshot
             /\ j.unpriced = job[a].unpriced
  BY ExitAtJob
<1>3. \A b \in Actors : /\ pc'[b] = IF b = a THEN place ELSE pc[b]
                        /\ job'[b] = IF b = a THEN j ELSE job[b]
  BY <1>2 DEF OptionInv, PInv, OptionTyped, Layers, Typed
<1>4. /\ AccountSound
      /\ tracked \in [Underlyings -> Watched \cup {Untracked}]
      /\ risk \in [day : Int, daily_realized_pnl : Int]
      /\ realized \in Int /\ clock \in Nat
      /\ JobFits(a, "exitquote", job[a]) /\ job[a] \in JobType
      /\ a \in Tasks \/ a \in Clients
      /\ a \in Tasks => a \notin Clients
  BY <1>1, ActorFacts DEF OptionInv, Layers, Typed, StateTyped
<1>5. PICK pnl \in Int : /\ risk' = RecordTradeClosed(risk, pnl, NowOf(a))
                         /\ realized' = realized + pnl
  BY <1>1
<1>6. Typed'
  <2>1. risk' \in [day : Int, daily_realized_pnl : Int]
    <3>1. NowOf(a) \in Nat
      BY <1>4 DEF NowOf, JobType
    <3> PICK d : d = Day(NowOf(a))
      OBVIOUS
    <3>2. d \in Int
      BY <3>1, OptionRiskAssumption DEF Day
    <3> PICK rolled : rolled = RollDay(risk, NowOf(a))
      OBVIOUS
    <3>3. rolled \in [day : Int, daily_realized_pnl : Int]
      BY <1>4, <3>2 DEF RollDay, FreshRisk
    <3>4. risk' = IF pnl = 0 THEN risk ELSE [rolled EXCEPT !.daily_realized_pnl = @ + pnl]
      BY <1>5 DEF RecordTradeClosed
    <3> QED  BY ONLY <1>4, <3>3, <3>4, pnl \in Int
  <2>2. tracked' \in [Underlyings -> Watched \cup {Untracked}]
    BY <1>2, <1>4
  <2>3. StateTyped'
    BY <1>1, <1>4, <1>5, <2>1, <2>2 DEF StateTyped
  <2> QED  BY <1>1, <1>2, <2>3, MovesKeepTyped DEF OptionInv, Layers
<1>7. Gentle => /\ \A c \in Contracts : NetOf(lots[c]) >= 0
                /\ Exposure <= MaxPremiumExposure
                /\ \A b \in Actors : pc[b] = "exitquote" =>
                     HoldsEnough(job[b]) /\ SoleExit(b, job[b])
                /\ quantity \in 1..NetOf(lots[contract])
                /\ \A b \in Actors \ {a} : pc[b] = "exitquote" => job[b].contract # contract
  BY <1>1 DEF OptionInv, Layers, LedgerSound, HoldsEnough, SoleExit
<1>8. /\ NetOf(lots[contract]) \in Int /\ NetOf(lots'[contract]) \in Int
      /\ NetOf(lots'[contract]) = 0 <=> lots'[contract] = <<>>
      /\ NetOf(lots[contract]) = 0 <=> lots[contract] = <<>>
  <2>1. lots[contract] \in Seq(Unit) /\ lots'[contract] \in Seq(Unit)
    BY <1>1, <1>4 DEF AccountSound
  <2> QED  BY <2>1, NetZero
<1>9. LedgerSound'
  <2> SUFFICES ASSUME Gentle'
               PROVE  /\ \A c \in Contracts : NetOf(lots'[c]) >= 0
                      /\ Exposure' <= MaxPremiumExposure
                      /\ \A b \in Actors : pc'[b] = "exitquote" =>
                           HoldsEnough(job[b])' /\ SoleExit(b, job[b])'
    BY DEF LedgerSound
  <2>1. Gentle
    BY <1>1, IntrusionsStay
  <2>2. \A c \in Contracts : NetOf(lots'[c]) >= 0
    <3>1. NetOf(lots'[contract]) >= 0
      BY <1>1, <1>7, <1>8, <2>1
    <3> QED  BY <1>1, <1>7, <2>1, <3>1
  <2>3. Exposure' <= MaxPremiumExposure
    <3>1. Exposure \in Int
      BY <1>4, ExposureIsSum
    <3>2. MaxPremiumExposure \in Int
      BY OptionRiskAssumption
    <3> QED  BY <1>1, <1>7, <2>1, <3>1, <3>2
  <2>4. ASSUME NEW b \in Actors, pc'[b] = "exitquote"
        PROVE  HoldsEnough(job[b])' /\ SoleExit(b, job[b])'
    <3>1. b # a /\ pc[b] = "exitquote" /\ job'[b] = job[b]
      BY <1>3, <2>4
    <3>2. HoldsEnough(job[b]) /\ SoleExit(b, job[b]) /\ job[b].contract \in Contracts
      BY <1>7, <2>1, <3>1, ActorFacts DEF JobFits
    <3>3. job[b].contract # contract
      BY <1>7, <2>1, <3>1
    <3>4. lots'[job[b].contract] = lots[job[b].contract]
      BY <1>1, <3>2, <3>3
    <3>5. SoleExit(b, job[b])'
      BY <1>3, <3>1, <3>2 DEF SoleExit
    <3> QED  BY <3>1, <3>2, <3>4, <3>5 DEF HoldsEnough
  <2> QED  BY <2>2, <2>3, <2>4
<1>10. DaySound'
  <2> SUFFICES ASSUME OneDay'
               PROVE  /\ risk'.day <= Day(clock)
                      /\ realized' = IF risk'.day = Day(clock) THEN risk'.daily_realized_pnl ELSE 0
                      /\ \A t \in Tasks : pc'[t] \notin {"idle", "waiting"} =>
                           Day(job'[t].now) = Day(clock)
    BY <1>1 DEF DaySound
  <2> PICK d : d = Day(clock)
    OBVIOUS
  <2>1. OneDay
    BY <1>1, IntrusionsStay
  <2>2. /\ risk.day <= d
        /\ realized = IF risk.day = d THEN risk.daily_realized_pnl ELSE 0
        /\ \A t \in Tasks : pc[t] \notin {"idle", "waiting"} => Day(job[t].now) = d
    BY <2>1 DEF OptionInv, Layers, DaySound
  <2>3. d \in Nat /\ Day(NowOf(a)) = d
    BY <1>1, <1>4, <2>1, DayMoves, DayOfActor
  <2> PICK rolled : rolled = IF risk.day = d THEN risk ELSE [day |-> d, daily_realized_pnl |-> 0]
    OBVIOUS
  <2>4. /\ rolled.day = d /\ rolled.daily_realized_pnl = realized
        /\ rolled \in [day : Int, daily_realized_pnl : Int]
    BY <1>4, <2>2, <2>3
  <2>5. risk' = IF pnl = 0 THEN risk ELSE [rolled EXCEPT !.daily_realized_pnl = @ + pnl]
    BY <1>5, <2>3 DEF RecordTradeClosed, RollDay, FreshRisk
  <2>6. /\ risk'.day <= d
        /\ realized' = IF risk'.day = d THEN risk'.daily_realized_pnl ELSE 0
    <3>1. CASE pnl = 0
      BY <1>4, <1>5, <2>2, <2>5, <3>1
    <3>2. CASE pnl # 0
      <4>1. risk'.day = d /\ risk'.daily_realized_pnl = realized + pnl
        BY <2>4, <2>5, <3>2
      <4> QED  BY <1>5, <2>3, <4>1
    <3> QED  BY <3>1, <3>2
  <2>7. \A t \in Tasks : pc'[t] \notin {"idle", "waiting"} => Day(job'[t].now) = d
    BY <1>1, <1>2, <1>3, <2>2 DEF Actors
  <2> QED  BY <2>6, <2>7
<1>11. Calm' => /\ Calm /\ Gentle /\ WatchSound
                /\ \A c \in Contracts : lots'[c] # <<>> =>
                     lots[c] # <<>> /\ tracked[UnderlyingOf[c]].contract = c
  <2> SUFFICES ASSUME Calm'
               PROVE  /\ Calm /\ Gentle /\ WatchSound
                      /\ \A c \in Contracts : lots'[c] # <<>> =>
                           lots[c] # <<>> /\ tracked[UnderlyingOf[c]].contract = c
    OBVIOUS
  <2>1. Calm /\ Gentle /\ WatchSound
    BY <1>1, IntrusionsStay DEF Calm, Gentle, Undisturbed, OptionInv, Layers
  <2>2. lots[contract] # <<>>
    BY <1>7, <1>8, <2>1
  <2> QED  BY <1>1, <2>1, <2>2 DEF WatchSound, IsOpen
<1>12. WatchSound'
  <2>1. CASE a \in Clients
    <3>1. a \notin Tasks /\ UNCHANGED tracked
      BY <1>2, <1>4, <2>1
    <3> SUFFICES ASSUME Calm'
                 PROVE  /\ \A c \in Contracts :
                             IsOpen(c)' => tracked'[UnderlyingOf[c]].contract = c
                        /\ \A t \in Tasks \ cancelled' : WatchPass(pc[t], job[t])'
      BY DEF WatchSound
    <3>2. ASSUME NEW t \in Tasks \ cancelled'
          PROVE  WatchPass(pc[t], job[t])'
      <4>1. /\ pc'[t] = pc[t] /\ job'[t] = job[t] /\ t \in Actors \ {a}
            /\ WatchPass(pc[t], job[t])
        BY <1>1, <1>3, <1>11, <3>1 DEF Actors, WatchSound
      <4>2. pc[t] = "exitquote" => lots'[job[t].contract] = lots[job[t].contract]
        BY <1>1, <1>7, <1>11, <4>1, TaskFacts DEF JobFits
      <4>3. ASSUME pc[t] \in ExitPass, IsExitTime(job[t].now),
                   NEW v \in TrackedUnderlyings, lots'[tracked[v].contract] # <<>>
            PROVE  v \in job[t].unpriced \cup ToExit(job[t])
        <5>1. tracked[v].contract \in Contracts
          BY <1>4 DEF TrackedUnderlyings, Watched
        <5>2. IsOpen(tracked[v].contract)
          BY <1>11, <4>3, <5>1 DEF IsOpen
        <5> QED  BY <4>1, <4>3, <5>2 DEF WatchPass
      <4> QED  BY <3>1, <4>1, <4>2, <4>3 DEF WatchPass, TrackedUnderlyings, IsOpen
    <3> QED  BY <1>11, <3>1, <3>2 DEF IsOpen
  <2>2. CASE a \in Tasks
    <3>1. u \in Underlyings \ job[a].todo /\ job[a].snapshot[u].contract = contract
      BY <1>4, <2>2 DEF JobFits
    <3>2. \A v \in Underlyings : tracked'[v] = IF v = u THEN Untracked ELSE tracked[v]
      BY <1>2, <1>4, <2>2
    <3>3. Calm' => /\ WatchPass("exitquote", job[a])
                   /\ tracked[u].contract = contract
                   /\ lots'[contract] = <<>>
      <4> SUFFICES ASSUME Calm'
                   PROVE  /\ WatchPass("exitquote", job[a])
                          /\ tracked[u].contract = contract
                          /\ lots'[contract] = <<>>
        OBVIOUS
      <4>1. WatchPass("exitquote", job[a])
        BY <1>1, <1>11, <2>2, TaskFacts
      <4>2. u \in ToExit(job[a])
        BY <3>1, OptionTradingAssumption DEF ToExit
      <4>3. tracked[u].contract = contract /\ quantity = NetOf(lots[contract])
        BY <3>1, <4>1, <4>2 DEF WatchPass, ExitPass
      <4>4. NetOf(lots'[contract]) = 0
        BY <1>1, <1>8, <1>11, <4>3
      <4> QED  BY <1>8, <4>1, <4>3, <4>4
    <3>4. Calm' => \A c \in Contracts :
            lots'[c] # <<>> => tracked'[UnderlyingOf[c]].contract = c
      BY <1>11, <3>2, <3>3, OptionTradingAssumption
    <3>5. Calm' => WatchPass(place, j)'
      <4>1. CASE place = "waiting"
        BY <4>1, WatchIdle
      <4>2. CASE place = "exits"
        <5> SUFFICES ASSUME Calm' PROVE WatchPass("exits", j)'
          BY <4>2
        <5>1. /\ j.now = job[a].now /\ j.todo = job[a].todo /\ j.at = Nothing
              /\ j.snapshot = job[a].snapshot
              /\ j.unpriced = job[a].unpriced
          BY <1>2, <2>2, <4>2
        <5>2. ToExit(j) \subseteq ToExit(job[a]) \ {u} /\ ToExit(job[a]) \subseteq ToExit(j) \cup {u}
          BY <3>1, <5>1 DEF ToExit
        <5>3. \A v \in ToExit(j) : tracked'[v] = j.snapshot[v]
          <6>1. \A v \in ToExit(job[a]) : v \in Underlyings /\ tracked[v] = job[a].snapshot[v]
            BY <1>4, <3>1, <3>3 DEF WatchPass, ExitPass, ToExit, JobType
          <6> QED  BY <3>2, <5>1, <5>2, <6>1
        <5>4. ASSUME IsExitTime(j.now), NEW v \in TrackedUnderlyings',
                     lots'[tracked'[v].contract] # <<>>
              PROVE  v \in j.unpriced \cup ToExit(j)
          <6>1. v \in Underlyings /\ tracked'[v] # Untracked
            BY DEF TrackedUnderlyings
          <6>2. v # u /\ v \in TrackedUnderlyings /\ tracked'[v] = tracked[v]
            BY <3>2, <6>1 DEF TrackedUnderlyings
          <6>3. tracked[v].contract \in Contracts
            BY <1>4, <6>2 DEF TrackedUnderlyings, Watched
          <6>4. IsOpen(tracked[v].contract)
            BY <1>11, <5>4, <6>2, <6>3 DEF IsOpen
          <6>5. v \in job[a].unpriced \cup ToExit(job[a])
            BY <3>3, <5>1, <5>4, <6>2, <6>4 DEF WatchPass, ExitPass
          <6> QED  BY <5>1, <5>2, <6>2, <6>5
        <5> QED  BY <5>3, <5>4 DEF WatchPass, Entering, IsOpen
      <4> QED  BY <1>2, <2>2, <4>1, <4>2
    <3> QED  BY <1>1, <1>2, <1>11, <2>2, <3>4, <3>5, OwnWatch
  <2> QED  BY <1>4, <2>1, <2>2
<1> QED  BY <1>6, <1>9, <1>10, <1>12 DEF Layers
-----------------------------------------------------------------------------
(***************************************************************************)
(* The theorems about money and positions.                                 *)
(***************************************************************************)
LEMMA InitOptionInv == Init => OptionInv
<1> SUFFICES ASSUME Init PROVE OptionInv
  OBVIOUS
<1>1. /\ tracked = [u \in Underlyings |-> Untracked] /\ risk = FreshRisk
      /\ pc = [a \in Actors |-> "idle"] /\ job = [a \in Actors |-> NoJob]
      /\ cash = Capital /\ lots = [c \in Contracts |-> <<>>]
      /\ clock = 0 /\ realized = 0 /\ cancelled = {}
  BY DEF Init, AccountInit
<1>2. Typed
  <2>1. AccountSound
    BY <1>1, OptionTradingAssumption DEF AccountSound, SameSide
  <2>2. StateTyped
    BY <1>1 DEF StateTyped, FreshRisk, NoDay
  <2> QED  BY <1>1, <2>1, <2>2, NoJobFits DEF Typed
<1>3. \A a \in Actors : pc[a] = "idle"
  BY <1>1
<1>4. LedgerSound
  <2>1. \A c \in Contracts : lots[c] = <<>> /\ NetOf(lots[c]) = 0
    BY <1>1 DEF NetOf
  <2>2. Exposure = 0
    <3> DEFINE f == [c \in Contracts |-> Prices(lots[c])]
    <3>1. \A c \in Contracts : f[c] = 0
      <4>1. Prices(<<>>) = 0
        <5> DEFINE g == [i \in DOMAIN <<>> |-> <<>>[i].price]
        <5>1. DOMAIN g = {}
          OBVIOUS
        <5> HIDE DEF g
        <5> QED  BY <5>1, SumEmpty DEF Prices, SumFunction, g
      <4> QED  BY <2>1, <4>1
    <3>2. DOMAIN f = Contracts /\ IsFiniteSet(Contracts)
      BY OptionTradingAssumption
    <3>3. Exposure = SumFunction(f)
      BY <1>2, ExposureIsSum DEF Typed
    <3> HIDE DEF f
    <3>4. 0 \in Int /\ Cardinality(Contracts) \in Nat
      BY <3>2, FS_CardinalityType
    <3>5. SumFunctionOnSet(f, Contracts) = Cardinality(Contracts) * 0
      BY ONLY <3>1, <3>2, <3>4, SumConstant
    <3> QED  BY <3>2, <3>3, <3>4, <3>5 DEF SumFunction
  <2>3. MaxPremiumExposure \in Nat
    BY OptionRiskAssumption
  <2> QED  BY <1>3, <2>1, <2>2, <2>3 DEF LedgerSound
<1>5. DaySound
  <2>1. clock \in Nat
    BY <1>1
  <2>2. Day(clock) \in Nat
    BY <2>1, DayMoves
  <2> QED  BY <1>1, <1>3, <2>2 DEF DaySound, FreshRisk, NoDay, Actors
<1>6. WatchSound
  BY <1>1, <1>3 DEF WatchSound, WatchPass, ExitPass, Entering, IsOpen, Actors
<1> QED  BY <1>2, <1>4, <1>5, <1>6, InitPInv DEF OptionInv, Layers

LEMMA NextOptionInv == OptionInv /\ [Next]_optionVars => OptionInv'
<1> SUFFICES ASSUME OptionInv, [Next]_optionVars
             PROVE  OptionInv'
  OBVIOUS
<1>1. PInv'
  BY NextPInv DEF OptionInv
<1>2. ASSUME NEW a \in Actors, ActorNext(a)
      PROVE  Layers'
  <2>1. ASSUME NEW px \in Premiums, EnterAt(a, px)
        PROVE  Layers'
    BY <2>1, EnterAtKeepsLayers
  <2>2. ASSUME NEW px \in Premiums, ExitAt(a, px)
        PROVE  Layers'
    BY <2>2, ExitAtKeepsLayers
  <2>3. CASE PremiumFails(a) \/ NotAdvised(a)
    BY <2>3, FailedEntryKeepsLayers
  <2>4. CASE ExitQuoteFails(a)
    BY <2>4, ExitQuoteFailsKeepsLayers
  <2>5. ASSUME NEW contract \in Contracts, NEW worthwhile \in BOOLEAN,
               Advised(a, contract, worthwhile)
        PROVE  Layers'
    BY <2>5, AdvisedKeepsLayers
  <2> QED  BY <1>2, <2>1, <2>2, <2>3, <2>4, <2>5 DEF ActorNext
<1>3. ASSUME NEW t \in Tasks, TaskNext(t)
      PROVE  Layers'
  <2>1. CASE LoopEnds(t)
    BY <2>1, LoopEndsKeepsLayers
  <2>2. CASE BeginCycle(t)
    BY <2>2, BeginCycleKeepsLayers
  <2>3. CASE BeginEntries(t)
    BY <2>3, BeginEntriesKeepsLayers
  <2>4. CASE EndCycle(t)
    BY <2>4, EndCycleKeepsLayers
  <2>5. CASE CancelArrives(t)
    BY <2>5, CancelArrivesKeepsLayers
  <2>6. ASSUME NEW u \in Underlyings, ForgetClosed(t, u)
        PROVE  Layers'
    BY <2>6, ForgetClosedKeepsLayers
  <2>7. ASSUME NEW u \in Underlyings, AskQuote(t, u)
        PROVE  Layers'
    BY <2>7, AskQuoteKeepsLayers
  <2>8. ASSUME NEW u \in Underlyings, ConsiderEntry(t, u)
        PROVE  Layers'
    BY <2>8, ConsiderEntryKeepsLayers
  <2>9. CASE QuoteFails(t)
    BY <2>9, QuoteFailsKeepsLayers
  <2>10. ASSUME NEW px \in Premiums, QuoteArrives(t, px)
         PROVE  Layers'
    BY <2>10, QuoteArrivesKeepsLayers
  <2> QED  BY <1>3, <2>1, <2>2, <2>3, <2>4, <2>5, <2>6, <2>7, <2>8, <2>9, <2>10 DEF TaskNext
<1>4. ASSUME NEW c \in Clients, ClientNext(c)
      PROVE  Layers'
  <2>1. ASSUME NEW u \in Underlyings, NEW count \in ManualLots, RequestEntry(c, u, count)
        PROVE  Layers'
    BY <2>1, RequestEntryKeepsLayers
  <2>2. ASSUME NEW contract \in Contracts, NEW size \in 1..Len(lots[contract]),
               RequestExit(c, contract, size)
        PROVE  Layers'
    BY <2>2, RequestExitKeepsLayers
  <2> QED  BY <1>4, <2>1, <2>2 DEF ClientNext
<1>5. ASSUME Start PROVE Layers'
  BY <1>5, StartKeepsLayers
<1>6. ASSUME StopRequested \/ StopReturns \/ UNCHANGED optionVars PROVE Layers'
  BY <1>6, StopKeepsLayers
<1>7. ASSUME Tick PROVE Layers'
  BY <1>7, TickKeepsLayers
<1>8. Layers'
  BY <1>2, <1>3, <1>4, <1>5, <1>6, <1>7 DEF Next
<1> QED  BY <1>1, <1>8 DEF OptionInv

\* What the account holds, the day's record and what the loop watches stay
\* consistent through every interleaving of the loop, the routes and the clock.
THEOREM OptionsLoopStaysSound == Spec => []OptionInv
BY InitOptionInv, NextOptionInv, PTL DEF Spec

\* enter_option_position reads the exposure after its last await, so entries
\* that wait side by side never deploy more than the limit together.
THEOREM ExposureStaysWithinLimit == Spec => []ExposureWithinLimit
<1>1. OptionInv => ExposureWithinLimit
  BY DEF OptionInv, Layers, LedgerSound, Gentle, ExposureWithinLimit
<1> QED  BY <1>1, OptionsLoopStaysSound, PTL

\* An exit of exit_option_position sells no more than is held, though it read
\* the quantity before the quote it waited for.
THEOREM OptionsAreNeverWritten == Spec => []NoOptionIsWritten
<1>1. OptionInv => NoOptionIsWritten
  <2> SUFFICES ASSUME OptionInv, Gentle, NEW contract \in Contracts
               PROVE  NetQuantity(contract) >= 0
    BY DEF NoOptionIsWritten, Gentle
  <2>1. AccountSound /\ NetOf(lots[contract]) >= 0
    BY DEF OptionInv, Layers, Typed, LedgerSound
  <2> QED  BY <2>1, NetIsQuantity
<1> QED  BY <1>1, OptionsLoopStaysSound, PTL

\* The loop of app/options/auto_trading.py watches what it has bought until it
\* is sold, and after the exit time sells all there is a quote for.
THEOREM BoughtStaysLookedAfter == Spec => []BoughtIsLookedAfter
<1>1. OptionInv => BoughtIsWatched
  BY DEF OptionInv, Layers, WatchSound, Calm, BoughtIsWatched
<1>2. OptionInv => ExitPassSquaresOff
  <2> SUFFICES ASSUME OptionInv, NEW t \in Tasks, Calm,
                      running = t, pc[t] = "exits", job[t].todo = {},
                      IsExitTime(job[t].now),
                      NEW u \in TrackedUnderlyings, IsOpen(tracked[u].contract)
               PROVE  u \in job[t].unpriced
    BY DEF ExitPassSquaresOff, Calm, Undisturbed
  <2>1. t \notin cancelled
    BY RunningGoesOn
  <2>2. WatchPass("exits", job[t]) /\ JobFits(t, "exits", job[t])
    BY <2>1, TaskFacts
  <2>3. ToExit(job[t]) = {}
    BY <2>2 DEF JobFits, ToExit
  <2> QED  BY <2>2, <2>3 DEF WatchPass, ExitPass
<1>3. OptionInv => BoughtIsLookedAfter
  BY <1>1, <1>2 DEF BoughtIsLookedAfter
<1> QED  BY <1>3, OptionsLoopStaysSound, PTL

\* Only the arrival of a premium enters.
LEMMA EntersByPremium ==
  ASSUME OptionInv, [Next]_optionVars, NEW a \in Actors, Enters(a)
  PROVE  \E px \in Premiums : EnterAt(a, px) /\ EntryFills(a, px)
<1>1. pc[a] = "premium" /\ pc'[a] # "premium" /\ cash' < cash
  BY DEF Enters
<1>2. cash' # cash
  BY <1>1 DEF OptionInv, Layers, Typed, AccountSound
<1>3. ~UNCHANGED cash
  BY <1>2
<1>4. PICK b \in Actors : ActorNext(b)
  <2>1. \A t \in Tasks : ~TaskNext(t)
    BY <1>3 DEF TaskNext, LoopEnds, BeginCycle, BeginEntries, EndCycle, CancelArrives,
                ForgetClosed, AskQuote, ConsiderEntry, QuoteFails, QuoteArrives,
                tradeVars, accountVars
  <2>2. \A c \in Clients : ~ClientNext(c)
    BY <1>3 DEF ClientNext, RequestEntry, RequestExit, tradeVars, accountVars
  <2>3. ~Start /\ ~StopRequested /\ ~StopReturns /\ ~Tick /\ ~UNCHANGED optionVars
    BY <1>3 DEF Start, StopRequested, StopReturns, Tick, optionVars, tradeVars, accountVars
  <2> QED  BY <2>1, <2>2, <2>3 DEF Next
<1>5. PICK px \in Premiums : EnterAt(b, px) \/ ExitAt(b, px)
  BY <1>3, <1>4 DEF ActorNext, PremiumFails, ExitQuoteFails, Advised, NotAdvised,
                    tradeVars, accountVars
<1>6. b = a
  <2>1. CASE EnterAt(b, px)
    <3>1. pc[b] \in Entering /\ EntryOver(b)
      BY <2>1 DEF EnterAt, Resumes, Entering
    <3>2. \E place : pc' = [pc EXCEPT ![b] = place]
      BY <3>1, EntryOverJob
    <3> QED  BY <1>1, <3>2 DEF OptionInv, PInv, OptionTyped
  <2>2. CASE ExitAt(b, px)
    <3>1. \E place : pc' = [pc EXCEPT ![b] = place]
      BY <2>2, ExitAtJob
    <3> QED  BY <1>1, <3>1 DEF OptionInv, PInv, OptionTyped
  <2> QED  BY <1>5, <2>1, <2>2
<1>7. EnterAt(a, px)
  BY <1>1, <1>5, <1>6 DEF ExitAt, Resumes
<1>8. EntryFills(a, px)
  BY <1>3, <1>7, EnterAtFacts
<1> QED  BY <1>7, <1>8

\* The gate of app/options/risk.py and the exits of the cycle hold for every
\* entry: none after the day's loss limit, none of what the cycle has exited.
THEOREM EntriesStayAllowed == Spec => EntriesAreAllowed
<1> DEFINE LossLock == Undisturbed({"cycle_over_midnight", "overlapping_exits"}) =>
                         \A a \in Actors : Enters(a) => realized > -MaxDailyLoss
           NoReentry == \A t \in Tasks : Enters(t) => job[t].at \notin job[t].exited
<1>1. OptionInv /\ [Next]_optionVars => LossLock
  <2> SUFFICES ASSUME OptionInv, [Next]_optionVars, OneDay, NEW a \in Actors, Enters(a)
               PROVE  realized > -MaxDailyLoss
    BY DEF OneDay
  <2>1. PICK px \in Premiums : EnterAt(a, px) /\ EntryFills(a, px)
    BY EntersByPremium
  <2>2. pc[a] = "premium" /\ RollDay(risk, NowOf(a)).daily_realized_pnl > -MaxDailyLoss
    BY <2>1, EnterAtFacts
  <2>3. Day(NowOf(a)) = Day(clock)
    BY <2>2, DayOfActor
  <2>4. realized = IF risk.day = Day(clock) THEN risk.daily_realized_pnl ELSE 0
    BY DEF OptionInv, Layers, DaySound
  <2> QED  BY <2>2, <2>3, <2>4 DEF RollDay, FreshRisk
<1>2. OptionInv /\ [Next]_optionVars => NoReentry
  <2> SUFFICES ASSUME OptionInv, [Next]_optionVars, NEW t \in Tasks, Enters(t)
               PROVE  job[t].at \notin job[t].exited
    OBVIOUS
  <2>1. t \in Actors
    BY DEF Actors
  <2>2. PICK px \in Premiums : EnterAt(t, px) /\ EntryFills(t, px)
    BY <2>1, EntersByPremium
  <2> QED  BY <2>1, <2>2, EnterAtFacts
<1>3. OptionInv /\ [Next]_optionVars => [LossLock]_optionVars /\ [NoReentry]_optionVars
  BY <1>1, <1>2
<1>4. Spec => [][LossLock]_optionVars /\ [][NoReentry]_optionVars
  <2> HIDE DEF LossLock, NoReentry
  <2>1. Spec => [][Next]_optionVars
    BY DEF Spec
  <2> QED  BY <1>1, <1>2, <2>1, OptionsLoopStaysSound, PTL
<1> QED  BY <1>4 DEF EntriesAreAllowed, LossLockHolds, NoReentryInTheSameCycle

=============================================================================
