---------------------------- MODULE OptionChains ----------------------------
(***************************************************************************)
(* The caches on top of the instrument master: OptionChainService of       *)
(* app/options/option_chain_service.py, whose one lock is held across the  *)
(* fetch, the cache of AngelOneUnderlyingResolver, which has no lock, and  *)
(* the index of resolve.  Each caller makes one call at a time, again and  *)
(* again; calls may fail, be cancelled, or be lost in a restart.           *)
(***************************************************************************)
EXTENDS InstrumentMaster

CONSTANTS
    Underlyings,    \* the configured underlyings
    RefreshSeconds  \* refresh_seconds

VARIABLES
    calls,      \* each caller's call: what it asks for
    chains,     \* _cache of the chain service: [edition, at] of each underlying
    chainLock,  \* _lock of the chain service
    spots       \* _cache of the resolver: the edition each spot symbol is from

cacheVars == <<calls, chains, chainLock, spots>>
allVars == <<masterVars, cacheVars>>

NoChain == [edition |-> 0, at |-> 0]
NoCall == [op |-> "none", underlying |-> "none"]

ChainOps == {"get_option_chain", "refresh"}
Asks == [op : ChainOps \cup {"spot", "resolve"}, underlying : Underlyings]

Idle(c) == calls[c] = NoCall

\* What is answered without waiting for any rows.
AnsweredAtOnce(ask) ==
    \/ ask.op = "resolve" /\ index # 0
    \/ ask.op = "spot" /\ (spots[ask.underlying] # 0 \/ rows # 0)

\* What each edition lists.
ChainOf ==
    [edition \in 0..Len(Editions) |->
       [u \in Underlyings |-> OptionInstruments(RowsOf(edition), u)]]
SpotOf ==
    [edition \in 0..Len(Editions) |->
       [u \in Underlyings |-> SpotSymbols(RowsOf(edition), u)]]
IndexOf == [edition \in 0..Len(Editions) |-> BuildIndex(RowsOf(edition))]

\* What the rows of an edition make of a call: the index, the underlying's spot
\* symbol or its chain.  A chain or a symbol that is not listed is an error.
Caches(ask, edition) ==
    LET u == ask.underlying
    IN  /\ index' = IF ask.op = "resolve" THEN edition ELSE index
        /\ spots' = IF ask.op = "spot" /\ spots[u] = 0 /\ SpotOf[edition][u] # {}
                    THEN [spots EXCEPT ![u] = edition] ELSE spots
        /\ chains' = IF ask.op \in ChainOps /\ ChainOf[edition][u] # {}
                     THEN [chains EXCEPT ![u] = [edition |-> edition, at |-> now]] ELSE chains

UnlocksChain(c) == chainLock' = Without(chainLock, c)

\* A call begins: answered from memory, or it waits for one of the locks.
Calls(c, ask) ==
    /\ Idle(c)
    /\ IF AnsweredAtOnce(ask)
       THEN /\ Caches(ask, IF ask.op = "resolve" THEN index ELSE rows)
            /\ UNCHANGED <<calls, chainLock, loads, loadLock>>
       ELSE /\ calls' = [calls EXCEPT ![c] = ask]
            /\ IF ask.op \in ChainOps
               THEN chainLock' = Append(chainLock, c) /\ UNCHANGED <<loads, loadLock>>
               ELSE WaitsForRows(c) /\ UNCHANGED chainLock
            /\ UNCHANGED <<index, chains, spots>>
    /\ UNCHANGED <<diskVars, rows, downloads>>

\* The cached chain will do, unless it is to be refreshed.
IsFresh(ask) ==
    LET chain == chains[ask.underlying]
    IN  ask.op = "get_option_chain" /\ chain.edition # 0 /\ now - chain.at < RefreshSeconds

\* The holder of the chain lock returns the cached chain, makes one of the rows
\* in memory, or waits for the rows.
ChainLockGranted(c) ==
    /\ ~Idle(c) /\ calls[c].op \in ChainOps
    /\ Head(chainLock) = c /\ loads[c] = "idle"
    /\ IF IsFresh(calls[c]) \/ rows # 0
       THEN /\ IF IsFresh(calls[c]) THEN UNCHANGED <<index, spots, chains>>
               ELSE Caches(calls[c], rows)
            /\ calls' = [calls EXCEPT ![c] = NoCall]
            /\ UnlocksChain(c)
            /\ UNCHANGED <<loads, loadLock>>
       ELSE /\ WaitsForRows(c)
            /\ UNCHANGED <<calls, chains, chainLock, index, spots>>
    /\ UNCHANGED <<diskVars, rows, downloads>>

\* The rows are found or arrive: what is made of them is cached, and the locks
\* are passed on.
RowsArrive(c) ==
    /\ FindsRows(c) \/ Downloaded(c)
    /\ Caches(calls[c], rows')
    /\ UnlocksChain(c)
    /\ calls' = [calls EXCEPT ![c] = NoCall]

\* The download fails, or the waiting task is cancelled: nothing is cached.
GivesUp(c) ==
    /\ LoadOver(c)
    /\ UnlocksChain(c)
    /\ calls' = [calls EXCEPT ![c] = NoCall]
    /\ UNCHANGED <<diskVars, rows, index, downloads, chains, spots>>

DownloadFails(c) == loads[c] = "downloading" /\ GivesUp(c)
Cancelled(c) == ~Idle(c) /\ GivesUp(c)

Restarts ==
    /\ MasterRestarts
    /\ calls' = [c \in Callers |-> NoCall]
    /\ chains' = [u \in Underlyings |-> NoChain]
    /\ chainLock' = <<>>
    /\ spots' = [u \in Underlyings |-> 0]

-----------------------------------------------------------------------------
Init ==
    /\ MasterInit
    /\ calls = [c \in Callers |-> NoCall]
    /\ chains = [u \in Underlyings |-> NoChain]
    /\ chainLock = <<>>
    /\ spots = [u \in Underlyings |-> 0]

\* What the event loop and the download's timeout bring about.
Proceeds(c) ==
    \/ BeginsDownload(c) /\ UNCHANGED cacheVars
    \/ DownloadFails(c) \/ ChainLockGranted(c) \/ RowsArrive(c)

Next ==
    \/ \E c \in Callers : Proceeds(c) \/ Cancelled(c) \/ \E ask \in Asks : Calls(c, ask)
    \/ TimePasses /\ UNCHANGED cacheVars
    \/ Restarts

\* Locks are granted in turn, and a download ends within its timeout.
Fairness == \A c \in Callers : WF_allVars(Proceeds(c))

Spec == Init /\ [][Next]_allVars /\ Fairness

-----------------------------------------------------------------------------
(***************************************************************************)
(* Properties.                                                             *)
(***************************************************************************)
\* A contract of a cached chain that has a token is found under this token by
\* the resolve that its quote and its candles need: the caches never mix
\* editions, whatever was loaded first, failed, or was published meanwhile.
ContractsResolve ==
    index # 0 =>
      \A u \in Underlyings :
        \A contract \in ChainOf[chains[u].edition][u] :
          contract.token # {} =>
            ResolveIn(IndexOf[index], "NFO", contract.symbol) = contract.token

\* A call ends, though the chain lock is held while the rows are waited for and
\* downloads fail.
CallsEnd == \A c \in Callers : ~Idle(c) ~> Idle(c)
=============================================================================
