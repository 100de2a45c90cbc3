------------------------------ MODULE Backtests ------------------------------
(***************************************************************************)
(* The backtest requests of app/api/v1/routers/backtest.py: a session is   *)
(* fetched (app/backtest/dataset_manager.py), replayed (Replay) and its    *)
(* result saved (app/backtest/session.py, storage.py).  Requests share     *)
(* nothing but the files of candles and of results, each written without   *)
(* an await, so they are taken one after another.  A file of candles found *)
(* damaged reads like a missing one.                                       *)
(***************************************************************************)
EXTENDS Replay

CONSTANTS
    Sessions,       \* symbol and date of a session
    Future,         \* the sessions that have not closed yet
    HasOptions,     \* the broker is Angel One: contracts can be resolved
    MaxRequests     \* bound: requests

ASSUME BacktestAssumption ==
    Future \subseteq Sessions /\ HasOptions \in BOOLEAN /\ MaxRequests \in Nat

VARIABLES
    request,   \* what is asked for: "single", "options", "batch" or "none"
    todo,      \* the sessions of the request still to be run
    step,      \* "idle", "fetch", "replay" or "summary"
    cached,    \* how many candles the file of each session holds, 0: no file
    stored,    \* results on disk: of single sessions, of whole batches
    summary,   \* of the session last run
    aggregate, \* totals over the sessions of the batch so far
    requests   \* requests so far

requestVars == <<request, todo, requests>>
fileVars == <<cached, stored>>
summaryVars == <<summary, aggregate>>
backtestVars == <<requestVars, step, fileVars, summaryVars, replayVars>>

NoSummary == [trades |-> 0, pnl |-> 0]

Init ==
    /\ ReplayInit
    /\ request = "none" /\ todo = <<>> /\ step = "idle" /\ requests = 0
    /\ cached = [session \in Sessions |-> 0]
    /\ stored = [runs |-> 0, aggregates |-> 0]
    /\ summary = NoSummary /\ aggregate = NoSummary

\* The request is answered with an error; what a batch has saved stays.
Fails ==
    /\ step' = "idle"
    /\ request' = "none"
    /\ todo' = <<>>
    /\ aggregate' = NoSummary
    /\ UNCHANGED <<requests, fileVars, summary, replayVars>>

\* run_backtest, run_options_backtest, run_backtest_batch.
Requests ==
    /\ step = "idle" /\ requests < MaxRequests
    /\ requests' = requests + 1
    /\ \E session \in Sessions :
         \/ request' = "single" /\ todo' = <<session>>
         \/ request' = "options" /\ todo' = <<session>>
         \/ \E other \in Sessions : request' = "batch" /\ todo' = <<session, other>>
    /\ step' = "fetch"
    /\ UNCHANGED <<fileVars, summaryVars, replayVars>>

\* check_not_future_dated; no option chain service; the underlying unknown.
IsRefused ==
    \/ Head(todo) \in Future
    \/ request = "options" /\ ~HasOptions

Refuses ==
    /\ step = "fetch" /\ IsRefused
    /\ Fails

\* get_candles: the file, or the broker's answer, which is then filed.
FindsCandles ==
    /\ step = "fetch" /\ ~IsRefused
    /\ \E n \in IF cached[Head(todo)] > 0 THEN {cached[Head(todo)]} ELSE 1..MaxCandles :
         /\ cached' = [cached EXCEPT ![Head(todo)] = n]
         /\ StartsReplay(IF request = "options" THEN "options" ELSE "equity", n)
    /\ step' = "replay"
    /\ UNCHANGED <<requestVars, stored, summaryVars>>

\* The broker fails, has no candles, or sends one that is none.
FindsNone ==
    /\ step = "fetch" /\ ~IsRefused
    /\ cached[Head(todo)] = 0
    /\ Fails

Replays ==
    /\ step = "replay" /\ at # "over"
    /\ ReplayNext
    /\ UNCHANGED <<requestVars, step, fileVars, summaryVars>>

\* An error of the broker while the contract is resolved is not caught.
ReplayFails ==
    /\ step = "replay" /\ at = "resolve"
    /\ Fails

\* summarize, and the result of the session saved.
SavesResult ==
    /\ step = "replay" /\ at = "over"
    /\ summary' = [trades |-> trades.count, pnl |-> equity - Capital]
    /\ aggregate' = IF request = "batch"
                    THEN [trades |-> aggregate.trades + summary'.trades,
                          pnl |-> aggregate.pnl + summary'.pnl]
                    ELSE NoSummary
    /\ stored' = [stored EXCEPT !.runs = @ + 1]
    /\ todo' = Tail(todo)
    /\ step' = IF todo' # <<>> THEN "fetch" ELSE "summary"
    /\ UNCHANGED <<request, requests, cached, replayVars>>

\* The result is returned; that of a batch is saved first.
Answers ==
    /\ step = "summary"
    /\ stored' = IF request = "batch" THEN [stored EXCEPT !.aggregates = @ + 1] ELSE stored
    /\ step' = "idle"
    /\ request' = "none"
    /\ aggregate' = NoSummary
    /\ UNCHANGED <<todo, requests, cached, summary, replayVars>>

Next ==
    \/ Requests
    \/ Refuses
    \/ FindsCandles
    \/ FindsNone
    \/ Replays
    \/ ReplayFails
    \/ SavesResult
    \/ Answers

Spec == Init /\ [][Next]_backtestVars

-----------------------------------------------------------------------------
(***************************************************************************)
(* Properties                                                              *)
(***************************************************************************)

\* A replay that is over has closed what it opened and its trades explain the
\* whole change of its equity, unless the engine rejected one of its closes:
\* the exits of run_replay and run_options_replay, the square-off at the final
\* candle, _close_position's gross_pnl and summarize's final capital agree.
TradesExplainCapital ==
    step = "replay" /\ at = "over" /\ ~rejected =>
      /\ lots[Instrument] = <<>>
      /\ equity = Capital + trades.gross

\* What a record reports of a trade is the trade: its gross_pnl, which the
\* engine works out over the lots the close consumed, is that of the recorded
\* quantity between the recorded entry and exit.  The engine thus held the
\* units of that one entry and no others, however long the replay was.
RecordsAreRoundTrips ==
    last_trade # NoTrade /\ ~rejected =>
      last_trade.gross = Sign(last_trade.side) * last_trade.quantity
                           * (last_trade.exit - last_trade.entry)
=============================================================================
