----------------------------- MODULE BrokerHttp -----------------------------
(***************************************************************************)
(* The request pipeline every broker adapter shares: _request, _send_once  *)
(* and _refresh_token_coalesced of app/brokers/base.py with the retry      *)
(* policy of app/utils/retry.py, and the adapters' hooks: what a response  *)
(* means and whether a token can be refreshed (Adapters).                  *)
(*                                                                         *)
(* The broker's side is external: which access token it accepts, which     *)
(* refresh token can still be spent (each once), and how it answers.       *)
(* Tokens are numbered in the order they are issued, access and refresh    *)
(* token together; 0 is no token.  A request is sent, answered or lost at  *)
(* any time after that, and its answer is handled later still.             *)
(***************************************************************************)
EXTENDS Adapters, FiniteSets

CONSTANTS
    Requests,     \* calls of the adapter's methods; each is made once
    MaxAttempts,  \* max_retries + 1
    MaxExpiries   \* bound: how often the broker lets the access token expire

ASSUME BrokerHttpAssumption ==
    /\ IsFiniteSet(Requests)
    /\ MaxAttempts \in Nat \ {0}
    /\ MaxExpiries \in Nat

VARIABLES
    vendor,      \* which adapter this is
    calls,       \* the coroutine of each request
    access,      \* _access_token
    refresh,     \* _refresh_token_value
    generation,  \* _token_generation
    lock,        \* _refresh_lock: its holder, then those waiting for it
    accepted,    \* the broker: the access token it accepts, or 0
    spendable,   \* the broker: the refresh token it exchanges
    expiries,    \* the broker: access tokens expired so far
    executed,    \* the broker: how often it has carried each request out
    unanswered,  \* history: executions whose answer was lost
    mishaps      \* history: what went wrong with refreshes

adapterVars == <<vendor, access, refresh, generation>>
brokerVars == <<accepted, spendable, expiries, executed, unanswered>>
httpVars == <<calls, adapterVars, lock, brokerVars, mishaps>>

\* pc: "new", "flying" (sent, with `token`), "landed" (its answer waits to be
\* handled), "backoff", "queued" for the lock or "done".  refreshing: the call
\* on its way is the refresh made for the request.  last: the call is the one
\* made after the refresh, which is not retried.
NewCall == [pc |-> "new", token |-> 0, answer |-> "none", attempt |-> 0,
            refreshing |-> FALSE, last |-> FALSE, generation |-> 0, outcome |-> "none"]

Flying(r) == calls[r].pc = "flying"
Landed(r) == calls[r].pc = "landed"
Refreshing(r) == calls[r].refreshing /\ calls[r].pc # "done"

-----------------------------------------------------------------------------
(***************************************************************************)
(* The adapter.                                                            *)
(***************************************************************************)
\* _send_once up to the await: the token is the one of that moment.
Sends(r, call) ==
    [call EXCEPT !.pc = "flying",
                 !.answer = "none",
                 !.token = IF call.refreshing THEN refresh ELSE access,
                 !.attempt = @ + 1]

Done(call, outcome) == [call EXCEPT !.pc = "done", !.outcome = outcome]

\* _request begins; without a token there is nothing to send.
Call(r) ==
    /\ calls[r].pc = "new"
    /\ calls' = [calls EXCEPT ![r] = IF access = 0 THEN Done(@, "not_authenticated")
                                     ELSE Sends(r, @)]
    /\ UNCHANGED <<adapterVars, lock, brokerVars, mishaps>>

\* Mutant of Retryable: an answer that cannot be read counts as none.
RetryableUnread(answer) == answer \in {"lost", "garbled"}

\* _RETRYABLE_EXCEPTIONS: a network failure or a 5xx.
Retryable(answer) == answer = "lost"

\* tenacity waits and sends again while attempts are left.
Retries(r) ==
    /\ Landed(r)
    /\ Retryable(calls[r].answer)
    /\ ~calls[r].last
    /\ calls[r].attempt < MaxAttempts
    /\ calls' = [calls EXCEPT ![r].pc = "backoff"]
    /\ UNCHANGED <<adapterVars, lock, brokerVars, mishaps>>

BackoffEnds(r) ==
    /\ calls[r].pc = "backoff"
    /\ calls' = [calls EXCEPT ![r] = Sends(r, @)]
    /\ UNCHANGED <<adapterVars, lock, brokerVars, mishaps>>

\* The answer, not an expired token on the first pass, ends the request: it
\* is returned, or raised as BrokerConnectionError, BrokerAPIError or
\* TokenExpiredError.
Returns(r) ==
    LET call == calls[r]
    IN  /\ Landed(r)
        /\ ~call.refreshing
        /\ Retryable(call.answer) => call.last \/ call.attempt = MaxAttempts
        /\ call.answer = "expired" => call.last
        /\ calls' = [calls EXCEPT ![r] = Done(@, call.answer)]
        /\ UNCHANGED <<adapterVars, lock, brokerVars, mishaps>>

\* refresh_token: Angel One's sends a request of its own, with attempts of its
\* own; the others' raises.
BeginRefresh(r, call) ==
    IF CanRefresh(vendor) THEN Sends(r, [call EXCEPT !.refreshing = TRUE, !.attempt = 0])
    ELSE Done(call, "not_authenticated")

ExpiredOnce(r) ==
    Landed(r) /\ calls[r].answer = "expired" /\ ~calls[r].last /\ ~calls[r].refreshing

\* Mutant of TokenExpired: the lock is not taken.
TokenExpiredUnlocked(r) ==
    /\ ExpiredOnce(r)
    /\ calls' = [calls EXCEPT ![r] =
                   BeginRefresh(r, [@ EXCEPT !.generation = generation])]
    /\ UNCHANGED <<adapterVars, lock, brokerVars, mishaps>>

\* _refresh_token_coalesced up to its first await.  The generation is read
\* here, not when the request was sent; a free lock is taken at once, and
\* released again if the refresh raises at once.
TokenExpired(r) ==
    LET call == [calls[r] EXCEPT !.generation = generation]
    IN  /\ ExpiredOnce(r)
        /\ lock' = IF CanRefresh(vendor) THEN Append(lock, r) ELSE lock
        /\ calls' = [calls EXCEPT ![r] = IF lock = <<>> THEN BeginRefresh(r, call)
                                         ELSE [call EXCEPT !.pc = "queued"]]
        /\ mishaps' = mishaps \cup
             (IF call.token # access THEN {"late_answer"} ELSE {})
        /\ UNCHANGED <<adapterVars, brokerVars>>

\* The lock is released, if it is held, and the request sent once more.
Unlocked(r) == IF lock # <<>> /\ Head(lock) = r THEN Tail(lock) ELSE lock

SendsAgain(r, call) ==
    Sends(r, [call EXCEPT !.refreshing = FALSE, !.last = TRUE])

\* Mutant of SomeoneRefreshed: the generation is not compared.
SomeoneRefreshedNever(r) == FALSE

\* Another request refreshed the token while this one waited for the lock.
SomeoneRefreshed(r) == generation # calls[r].generation

LockGranted(r) ==
    /\ calls[r].pc = "queued"
    /\ lock # <<>> /\ Head(lock) = r
    /\ IF SomeoneRefreshed(r)
       THEN /\ calls' = [calls EXCEPT ![r] = SendsAgain(r, @)]
            /\ lock' = Unlocked(r)
       ELSE /\ calls' = [calls EXCEPT ![r] = BeginRefresh(r, @)]
            /\ UNCHANGED lock
    /\ UNCHANGED <<adapterVars, brokerVars, mishaps>>

\* _store_tokens, the generation, the lock, and the request again.
Refreshed(r) ==
    LET issued == calls[r].token
    IN  /\ Landed(r) /\ calls[r].refreshing
        /\ calls[r].answer = "ok"
        /\ access' = issued /\ refresh' = issued
        /\ generation' = generation + 1
        /\ lock' = Unlocked(r)
        /\ calls' = [calls EXCEPT ![r] = [SendsAgain(r, @) EXCEPT !.token = issued]]
        /\ UNCHANGED <<vendor, brokerVars, mishaps>>

\* Mutant of ReleaseLock: a failing refresh keeps the lock.
KeepLock(r) == lock' = lock

ReleaseLock(r) == lock' = Unlocked(r)

\* The refresh fails for good: the request raises, the next waiter tries.  A
\* body that says no is BrokerAuthenticationError.
RefreshFails(r) ==
    LET answer == calls[r].answer
    IN  /\ Landed(r) /\ calls[r].refreshing
        /\ answer # "ok"
        /\ Retryable(answer) => calls[r].attempt = MaxAttempts
        /\ calls' = [calls EXCEPT ![r] =
                       [Done(@, A!RefreshFailure(answer)) EXCEPT !.refreshing = FALSE]]
        /\ ReleaseLock(r)
        /\ UNCHANGED <<adapterVars, brokerVars, mishaps>>

-----------------------------------------------------------------------------
(***************************************************************************)
(* The broker.                                                             *)
(***************************************************************************)
Lands(r, answer) == calls' = [calls EXCEPT ![r].pc = "landed", ![r].answer = answer]

\* The access token expires.
Expire ==
    /\ accepted # 0 /\ expiries < MaxExpiries
    /\ accepted' = 0
    /\ expiries' = expiries + 1
    /\ UNCHANGED <<calls, adapterVars, lock, spendable, executed, unanswered, mishaps>>

\* An accepted call is carried out; its answer arrives, cannot be read, or is
\* lost on the way.
Execute(r, answer) ==
    /\ Flying(r) /\ ~calls[r].refreshing
    /\ calls[r].token = accepted
    /\ answer \in {"ok", "garbled", "lost"}
    /\ executed' = [executed EXCEPT ![r] = @ + 1]
    /\ unanswered' = [unanswered EXCEPT ![r] = @ + (IF answer = "lost" THEN 1 ELSE 0)]
    /\ Lands(r, answer)
    /\ UNCHANGED <<adapterVars, lock, accepted, spendable, expiries, mishaps>>

\* A call that is not carried out: refused because of its token or on its
\* merits, or never received.
RefusedAnswers(token) ==
    {"lost"} \cup
    {Classify(vendor, response) :
       response \in IF token = accepted THEN RefusedResponses(vendor) ELSE ExpiredResponses(vendor)}

Refuse(r, answer) ==
    /\ Flying(r) /\ ~calls[r].refreshing
    /\ answer \in RefusedAnswers(calls[r].token)
    /\ Lands(r, answer)
    /\ UNCHANGED <<adapterVars, lock, brokerVars, mishaps>>

\* A spendable refresh token is exchanged for new tokens; the old access
\* token is no longer accepted.  The answer carries the new tokens.
Exchange(r, answer) ==
    /\ Flying(r) /\ calls[r].refreshing
    /\ calls[r].token = spendable
    /\ answer \in {"ok", "garbled", "lost"}
    /\ accepted' = spendable + 1 /\ spendable' = spendable + 1
    /\ calls' = [calls EXCEPT ![r].pc = "landed", ![r].answer = answer,
                              ![r].token = IF answer = "ok" THEN spendable + 1 ELSE @]
    /\ mishaps' = mishaps \cup (IF answer = "ok" THEN {} ELSE {"lost_tokens"})
    /\ UNCHANGED <<adapterVars, lock, expiries, executed, unanswered>>

\* A refresh token that has been spent is refused; any refresh may be lost.
RefuseExchange(r, answer) ==
    /\ Flying(r) /\ calls[r].refreshing
    /\ \/ answer = "lost"
       \/ /\ calls[r].token # spendable
          /\ answer \in {Classify(vendor, response) :
                           response \in RefusedResponses(vendor) \cup ExpiredResponses(vendor)}
    /\ Lands(r, answer)
    /\ mishaps' = mishaps \cup (IF answer = "lost" THEN {} ELSE {"refused"})
    /\ UNCHANGED <<adapterVars, lock, brokerVars>>

\* login has succeeded before the first request, or it has not.
HttpInit ==
    /\ vendor \in Vendors
    /\ calls = [r \in Requests |-> NewCall]
    /\ access \in {0, 1} /\ refresh = access
    /\ generation = 0
    /\ lock = <<>>
    /\ accepted = access /\ spendable = access
    /\ expiries = 0
    /\ executed = [r \in Requests |-> 0]
    /\ unanswered = [r \in Requests |-> 0]
    /\ mishaps = {}

BrokerAnswers(r) ==
    \E answer \in {"ok", "garbled", "lost", "refusal", "rejected", "expired"} :
      Execute(r, answer) \/ Refuse(r, answer) \/ Exchange(r, answer) \/ RefuseExchange(r, answer)

Proceeds(r) ==
    \/ Retries(r) \/ BackoffEnds(r) \/ Returns(r)
    \/ TokenExpired(r) \/ LockGranted(r) \/ Refreshed(r) \/ RefreshFails(r)

-----------------------------------------------------------------------------
(***************************************************************************)
(* Properties.                                                             *)
(***************************************************************************)
\* The broker never refuses a refresh token as spent, unless the answer that
\* carried its successor was lost: requests that find the token expired at
\* once do not each spend it.
RefreshIsNotRefused == "refused" \in mishaps => "lost_tokens" \in mishaps

\* One expiry of the token never shows through: a request is told that its
\* token has expired only if the new one expired too, the tokens were lost, or
\* the late answer of another request made for a second refresh meanwhile.
ExpiryIsRecovered ==
    \A r \in Requests : calls[r].outcome = "expired" =>
      expiries > 1 \/ mishaps # {}

\* Every request ends, whatever the broker does: attempts are bounded and a
\* failing refresh passes the lock on.
RequestsEnd == \A r \in Requests : calls[r].pc = "flying" ~> calls[r].pc = "done"
=============================================================================
