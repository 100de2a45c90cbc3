---------------------------- MODULE BrokerProofs ----------------------------
(***************************************************************************)
(* Proofs about BrokerOrders, for every set of requests, every number of   *)
(* attempts and expiries, and whatever the callers ask for, in three       *)
(* parts.                                                                  *)
(*                                                                         *)
(*   1. BInv: who refreshes is first in the queue for the lock, the token  *)
(*      that can be spent is the adapter's or on its way to it, and all    *)
(*      executions of a request but one have lost their answer.            *)
(*   2. ExpirySound: while the access token expires once and no mishap     *)
(*      happens, there is one refresh.  Before it every call carries the   *)
(*      token of the login; after it nobody refreshes, and only that token *)
(*      is said to have expired.                                           *)
(*   3. What an adapter sends it reads: the tables from and to the         *)
(*      vendor's words, and AskSound, that a request on its way had a      *)
(*      payload.                                                           *)
(***************************************************************************)
EXTENDS BrokerOrders, SequenceTheorems, TLAPS

Answers == {"none", "ok", "garbled", "lost", "refusal", "rejected", "expired"}

Outcomes == Answers \cup {"not_authenticated", "BrokerAPIError", "KeyError"}

CallType ==
    [pc : {"new", "flying", "landed", "backoff", "queued", "done"},
     token : Nat, answer : Answers, attempt : Nat,
     refreshing : BOOLEAN, last : BOOLEAN, generation : Nat, outcome : Outcomes]

BrokerTyped ==
    /\ vendor \in Vendors
    /\ calls \in [Requests -> CallType]
    /\ access \in Nat /\ refresh \in Nat /\ generation \in Nat
    /\ accepted \in Nat /\ spendable \in Nat
    /\ lock \in Seq(Requests)
    /\ executed \in [Requests -> Nat]
    /\ unanswered \in [Requests -> Nat]

\* Who refreshes the token is first in the queue for the lock.
RefreshingCall(c) == c.refreshing /\ c.pc # "done"

LockSound ==
    \A r \in Requests :
      /\ RefreshingCall(calls[r]) => lock # <<>> /\ Head(lock) = r
      /\ calls[r].pc \in {"new", "queued"} => ~calls[r].refreshing

\* The new tokens are on their way from the answer to the adapter.
BringsTokens(c) == c.refreshing /\ c.pc = "landed" /\ c.answer = "ok"

\* Unless new tokens were lost, the refresh token that can be spent is the
\* adapter's, or on its way to the adapter, and no other is sent.
TokensSound ==
    "lost_tokens" \notin mishaps =>
      /\ "refused" \notin mishaps
      /\ refresh = spendable \/ \E r \in Requests : BringsTokens(calls[r])
      /\ \A r \in Requests :
           \/ BringsTokens(calls[r])
           \/ calls[r].refreshing /\ calls[r].pc = "flying"
           => calls[r].token = spendable

\* The request has an answer that says it was carried out.
Reported(c) ==
    \/ c.pc = "landed" /\ ~c.refreshing /\ c.answer \in {"ok", "garbled"}
    \/ c.pc = "done" /\ c.outcome \in {"ok", "garbled"}

\* Of the executions of a request all but the last have lost their answer, and
\* what is said to be done was done.
CallSound(c, done, lost) ==
    /\ c.pc # "done" => c.outcome = "none"
    /\ done <= lost + (IF Reported(c) THEN 1 ELSE 0)
    /\ c.pc = "landed" /\ ~c.refreshing /\ c.answer = "ok" => done > 0
    /\ c.pc = "done" /\ c.outcome = "ok" => done > 0

ReportsSound == \A r \in Requests : CallSound(calls[r], executed[r], unanswered[r])

\* The inductive invariant.
BInv == BrokerTyped /\ LockSound /\ TokensSound /\ ReportsSound

-----------------------------------------------------------------------------
(***************************************************************************)
(* The adapters.                                                           *)
(***************************************************************************)
\* No vendor refuses a call with an answer that reads as a success.
LEMMA RefusalsAreNotOk ==
  ASSUME vendor \in Vendors
  PROVE  /\ \A response \in RefusedResponses(vendor) \cup ExpiredResponses(vendor) :
              Classify(vendor, response) \notin {"ok", "garbled"}
         /\ \A token : \A answer \in RefusedAnswers(token) : answer \notin {"ok", "garbled"}
<1>1. \A response \in RefusedResponses(vendor) \cup ExpiredResponses(vendor) :
        Classify(vendor, response) \notin {"ok", "garbled"}
  <2>1. CASE vendor = "angel_one"
    <3>1. /\ RefusedResponses(vendor) = A!RefusedResponses
          /\ ExpiredResponses(vendor) = A!ExpiredResponses
          /\ \A response : IsTokenExpired(vendor, response) = A!IsTokenExpired(response)
      BY <2>1 DEF RefusedResponses, ExpiredResponses, IsTokenExpired, Adapter
    <3>2. \A response \in A!RefusedResponses :
            response.status = 400 \/ (response.status = 200 /\ response.body = "refusal")
      BY DEF A!RefusedResponses
    <3>3. \A response \in A!ExpiredResponses :
            response.status = 401 \/ (response.status = 200 /\ response.body = "auth_refusal")
      BY DEF A!ExpiredResponses
    <3>4. \A response \in A!RefusedResponses : Classify(vendor, response) \notin {"ok", "garbled"}
      BY <3>2 DEF Classify
    <3>5. \A response \in A!ExpiredResponses : Classify(vendor, response) \notin {"ok", "garbled"}
      BY <3>1, <3>3 DEF Classify, A!IsTokenExpired
    <3> QED  BY <3>1, <3>4, <3>5
  <2>2. CASE vendor = "upstox"
    <3>1. /\ RefusedResponses(vendor) = U!RefusedResponses
          /\ ExpiredResponses(vendor) = U!ExpiredResponses
          /\ \A response : IsTokenExpired(vendor, response) = U!IsTokenExpired(response)
      BY <2>2 DEF RefusedResponses, ExpiredResponses, IsTokenExpired, Adapter
    <3>2. \A response \in U!RefusedResponses : response.status = 400
      BY DEF U!RefusedResponses
    <3>3. \A response \in U!ExpiredResponses : response.status = 401
      BY DEF U!ExpiredResponses
    <3>4. \A response \in U!RefusedResponses : Classify(vendor, response) \notin {"ok", "garbled"}
      BY <3>2 DEF Classify
    <3>5. \A response \in U!ExpiredResponses : Classify(vendor, response) \notin {"ok", "garbled"}
      BY <3>1, <3>3 DEF Classify, U!IsTokenExpired
    <3> QED  BY <3>1, <3>4, <3>5
  <2>3. CASE vendor = "zerodha"
    <3>1. /\ RefusedResponses(vendor) = Z!RefusedResponses
          /\ ExpiredResponses(vendor) = Z!ExpiredResponses
          /\ \A response : IsTokenExpired(vendor, response) = Z!IsTokenExpired(response)
      BY <2>3 DEF RefusedResponses, ExpiredResponses, IsTokenExpired, Adapter
    <3>2. \A response \in Z!RefusedResponses : response.status = 400 \/ response.status = 403
      BY DEF Z!RefusedResponses
    <3>3. \A response \in Z!ExpiredResponses : response.status = 403
      BY DEF Z!ExpiredResponses
    <3>4. \A response \in Z!RefusedResponses : Classify(vendor, response) \notin {"ok", "garbled"}
      BY <3>2 DEF Classify
    <3>5. \A response \in Z!ExpiredResponses : Classify(vendor, response) \notin {"ok", "garbled"}
      BY <3>1, <3>3 DEF Classify, Z!IsTokenExpired
    <3> QED  BY <3>1, <3>4, <3>5
  <2> QED  BY <2>1, <2>2, <2>3 DEF Vendors
<1> QED  BY <1>1 DEF RefusedAnswers

\* What a method raises before its request is an error.
LEMMA EarlyErrorsAreErrors ==
  ASSUME NEW r \in Requests, NEW error \in EarlyErrors(r)
  PROVE  error \in {"BrokerAPIError", "KeyError"}
BY DEF EarlyErrors, BuildError, Adapter,
       A!PlaceError, U!PlaceError, Z!PlaceError,
       A!ModifyError, U!ModifyError, Z!ModifyError

-----------------------------------------------------------------------------
(***************************************************************************)
(* Calls.                                                                  *)
(***************************************************************************)
\* Replacing the call of one request.
LEMMA OneCall ==
  ASSUME BrokerTyped, NEW r \in Requests, NEW c \in CallType,
         calls' = [calls EXCEPT ![r] = c]
  PROVE  /\ calls' \in [Requests -> CallType]
         /\ calls'[r] = c
         /\ \A q \in Requests : q # r => calls'[q] = calls[q]
BY DEF BrokerTyped

\* A call that is sent.
LEMMA SendsType ==
  ASSUME BrokerTyped, NEW r, NEW c \in CallType
  PROVE  LET d == Sends(r, c)
         IN  /\ d \in CallType
             /\ d.pc = "flying"
             /\ d.refreshing = c.refreshing
             /\ d.outcome = c.outcome
             /\ d.token = IF c.refreshing THEN refresh ELSE access
<1> DEFINE t == IF c.refreshing THEN refresh ELSE access
           n == c.attempt + 1
<1>1. t \in Nat
  BY DEF BrokerTyped
<1>2. n \in Nat
  BY DEF CallType
<1>3. Sends(r, c) = [c EXCEPT !.pc = "flying", !.answer = "none", !.token = t, !.attempt = n]
  BY DEF Sends
<1> HIDE DEF t, n
<1>4. LET d == [c EXCEPT !.pc = "flying", !.answer = "none", !.token = t, !.attempt = n]
      IN  /\ d \in CallType
          /\ d.pc = "flying"
          /\ d.refreshing = c.refreshing
          /\ d.outcome = c.outcome
          /\ d.token = t
  BY <1>1, <1>2 DEF CallType, Answers
<1> QED  BY <1>3, <1>4 DEF t

LEMMA SendsAgainType ==
  ASSUME BrokerTyped, NEW r, NEW c \in CallType
  PROVE  LET d == SendsAgain(r, c)
         IN  /\ d \in CallType
             /\ d.pc = "flying"
             /\ ~d.refreshing
             /\ d.outcome = c.outcome
<1> DEFINE e == [c EXCEPT !.refreshing = FALSE, !.last = TRUE]
<1>1. e \in CallType /\ ~e.refreshing /\ e.outcome = c.outcome
  BY DEF CallType
<1> HIDE DEF e
<1>2. SendsAgain(r, c) = Sends(r, e)
  BY DEF SendsAgain, e
<1> QED  BY <1>1, <1>2, SendsType

\* A refresh begins, or cannot.
LEMMA BeginRefreshType ==
  ASSUME BrokerTyped, NEW r, NEW c \in CallType
  PROVE  LET d == BeginRefresh(r, c)
         IN  /\ d \in CallType
             /\ \/ /\ CanRefresh(vendor)
                   /\ d.pc = "flying" /\ d.refreshing
                   /\ d.outcome = c.outcome /\ d.token = refresh
                \/ /\ ~CanRefresh(vendor)
                   /\ d.pc = "done" /\ d.outcome = "not_authenticated"
                   /\ d.refreshing = c.refreshing
<1> DEFINE e == [c EXCEPT !.refreshing = TRUE, !.attempt = 0]
<1>1. e \in CallType /\ e.refreshing /\ e.outcome = c.outcome
  BY DEF CallType
<1>2. LET d == Done(c, "not_authenticated")
      IN  /\ d \in CallType /\ d.pc = "done"
          /\ d.outcome = "not_authenticated" /\ d.refreshing = c.refreshing
  BY DEF Done, CallType, Outcomes
<1> HIDE DEF e
<1>3. BeginRefresh(r, c) = IF CanRefresh(vendor) THEN Sends(r, e)
                           ELSE Done(c, "not_authenticated")
  BY DEF BeginRefresh, e
<1> QED  BY <1>1, <1>2, <1>3, SendsType

\* The counters of other requests stay as they are.
LEMMA ReportsStep ==
  ASSUME BInv, NEW r \in Requests, NEW c \in CallType,
         calls' = [calls EXCEPT ![r] = c],
         \A q \in Requests : q # r => executed'[q] = executed[q] /\ unanswered'[q] = unanswered[q],
         CallSound(c, executed'[r], unanswered'[r])
  PROVE  ReportsSound'
<1>1. /\ calls'[r] = c
      /\ \A q \in Requests : q # r => calls'[q] = calls[q]
  BY OneCall DEF BInv
<1> SUFFICES ASSUME NEW q \in Requests
             PROVE  CallSound(calls'[q], executed'[q], unanswered'[q])
  BY DEF ReportsSound
<1>2. CASE q = r
  BY <1>1, <1>2
<1>3. CASE q # r
  BY <1>1, <1>3 DEF BInv, ReportsSound
<1> QED  BY <1>2, <1>3

\* A step of one request that leaves lock, tokens and mishaps alone, starts no
\* refresh, and does not drop new tokens.
LEMMA QuietStep ==
  ASSUME BInv, NEW r \in Requests, NEW c \in CallType,
         calls' = [calls EXCEPT ![r] = c],
         UNCHANGED <<vendor, access, refresh, generation, lock, accepted, spendable, mishaps>>,
         RefreshingCall(c) => RefreshingCall(calls[r]),
         c.pc \notin {"new", "queued"},
         ~BringsTokens(calls[r]), ~BringsTokens(c),
         "lost_tokens" \notin mishaps /\ c.refreshing /\ c.pc = "flying" => c.token = spendable,
         executed' \in [Requests -> Nat], unanswered' \in [Requests -> Nat],
         \A q \in Requests : q # r => executed'[q] = executed[q] /\ unanswered'[q] = unanswered[q],
         CallSound(c, executed'[r], unanswered'[r])
  PROVE  BInv'
<1>1. /\ calls' \in [Requests -> CallType]
      /\ calls'[r] = c
      /\ \A q \in Requests : q # r => calls'[q] = calls[q]
  BY OneCall DEF BInv
<1>2. BrokerTyped'
  BY <1>1 DEF BInv, BrokerTyped
<1>3. LockSound'
  BY <1>1 DEF BInv, LockSound
<1>4. TokensSound'
  <2> SUFFICES ASSUME "lost_tokens" \notin mishaps
               PROVE  /\ "refused" \notin mishaps
                      /\ refresh = spendable \/ \E q \in Requests : BringsTokens(calls'[q])
                      /\ \A q \in Requests :
                           \/ BringsTokens(calls'[q])
                           \/ calls'[q].refreshing /\ calls'[q].pc = "flying"
                           => calls'[q].token = spendable
    BY DEF TokensSound
  <2>1. /\ "refused" \notin mishaps
        /\ refresh = spendable \/ \E q \in Requests : BringsTokens(calls[q])
        /\ \A q \in Requests :
             \/ BringsTokens(calls[q])
             \/ calls[q].refreshing /\ calls[q].pc = "flying"
             => calls[q].token = spendable
    BY DEF BInv, TokensSound
  <2>2. \A q \in Requests : BringsTokens(calls[q]) => BringsTokens(calls'[q])
    BY <1>1
  <2> QED  BY <1>1, <2>1, <2>2
<1>5. ReportsSound'
  BY ReportsStep
<1> QED  BY <1>2, <1>3, <1>4, <1>5 DEF BInv

-----------------------------------------------------------------------------
(***************************************************************************)
(* Steps.                                                                  *)
(***************************************************************************)
\* What a call is sent with keeps its account.
LEMMA SentIsSound ==
  ASSUME BInv, NEW r \in Requests, calls[r].pc # "landed", calls[r].pc # "done",
         NEW c \in CallType, c.pc \notin {"landed", "done"}, c.outcome = calls[r].outcome
  PROVE  CallSound(c, executed[r], unanswered[r])
BY DEF BInv, ReportsSound, CallSound, Reported

LEMMA SubmitKeepsBInv ==
  ASSUME BInv, NEW r \in Requests, Submit(r)
  PROVE  BInv'
<1> DEFINE c == IF access = 0 THEN Done(calls[r], "not_authenticated") ELSE Sends(r, calls[r])
<1>1. calls[r] \in CallType /\ calls[r].pc = "new" /\ ~calls[r].refreshing
  BY DEF BInv, BrokerTyped, LockSound, Submit, Call
<1>2. /\ c \in CallType
      /\ ~c.refreshing
      /\ \/ c.pc = "flying" /\ c.outcome = calls[r].outcome
         \/ c.pc = "done" /\ c.outcome = "not_authenticated"
  <2>1. CASE access = 0
    BY <1>1, <2>1 DEF Done, CallType, Outcomes
  <2>2. CASE access # 0
    BY <1>1, <2>2, SendsType DEF BInv
  <2> QED  BY <2>1, <2>2
<1>3. calls' = [calls EXCEPT ![r] = c]
  BY DEF Submit, Call
<1>4. /\ UNCHANGED <<vendor, access, refresh, generation, lock, accepted, spendable, mishaps>>
      /\ UNCHANGED <<executed, unanswered>>
  BY DEF Submit, Call, adapterVars, brokerVars
<1> HIDE DEF c
<1>5. CallSound(c, executed'[r], unanswered'[r])
  BY <1>1, <1>2, <1>4 DEF BInv, ReportsSound, CallSound, Reported
<1> QED
  BY <1>1, <1>2, <1>3, <1>4, <1>5, QuietStep DEF BInv, BrokerTyped, RefreshingCall, BringsTokens

LEMMA SubmitRaisesKeepsBInv ==
  ASSUME BInv, NEW r \in Requests, SubmitRaises(r)
  PROVE  BInv'
<1>1. calls[r] \in CallType /\ calls[r].pc = "new" /\ ~calls[r].refreshing
  BY DEF BInv, BrokerTyped, LockSound, SubmitRaises
<1>2. PICK error \in EarlyErrors(r) : calls' = [calls EXCEPT ![r] = Done(@, error)]
  BY DEF SubmitRaises
<1>3. error \in {"BrokerAPIError", "KeyError"}
  BY EarlyErrorsAreErrors
<1> DEFINE c == Done(calls[r], error)
<1>4. c \in CallType /\ c.pc = "done" /\ ~c.refreshing /\ c.outcome \in {"BrokerAPIError", "KeyError"}
  BY <1>1, <1>3 DEF Done, CallType, Outcomes
<1>5. calls' = [calls EXCEPT ![r] = c]
  BY <1>2
<1>6. /\ UNCHANGED <<vendor, access, refresh, generation, lock, accepted, spendable, mishaps>>
      /\ UNCHANGED <<executed, unanswered>>
  BY DEF SubmitRaises, adapterVars, brokerVars
<1> HIDE DEF c
<1>7. CallSound(c, executed'[r], unanswered'[r])
  BY <1>1, <1>4, <1>6 DEF BInv, ReportsSound, CallSound, Reported
<1> QED
  BY <1>1, <1>4, <1>5, <1>6, <1>7, QuietStep DEF BInv, BrokerTyped, RefreshingCall, BringsTokens

LEMMA RetriesKeepsBInv ==
  ASSUME BInv, NEW r \in Requests, Retries(r)
  PROVE  BInv'
<1> DEFINE c == [calls[r] EXCEPT !.pc = "backoff"]
<1>1. calls[r] \in CallType /\ calls[r].pc = "landed" /\ calls[r].answer = "lost"
  BY DEF BInv, BrokerTyped, Retries, Landed, Retryable
<1>2. /\ c \in CallType /\ c.pc = "backoff" /\ c.refreshing = calls[r].refreshing
      /\ c.outcome = calls[r].outcome
  BY <1>1 DEF CallType
<1>3. calls' = [calls EXCEPT ![r] = c]
  BY DEF Retries
<1>4. /\ UNCHANGED <<vendor, access, refresh, generation, lock, accepted, spendable, mishaps>>
      /\ UNCHANGED <<executed, unanswered>>
  BY DEF Retries, adapterVars, brokerVars
<1> HIDE DEF c
<1>5. CallSound(c, executed'[r], unanswered'[r])
  BY <1>1, <1>2, <1>4 DEF BInv, ReportsSound, CallSound, Reported
<1> QED
  BY <1>1, <1>2, <1>3, <1>4, <1>5, QuietStep DEF BInv, BrokerTyped, RefreshingCall, BringsTokens

\* Whoever refreshes the token sends the one that can be spent: another call
\* that brings tokens would have to be first in the queue, too.
LEMMA BackoffEndsKeepsBInv ==
  ASSUME BInv, NEW r \in Requests, BackoffEnds(r)
  PROVE  BInv'
<1> DEFINE c == Sends(r, calls[r])
<1>1. calls[r] \in CallType /\ calls[r].pc = "backoff"
  BY DEF BInv, BrokerTyped, BackoffEnds
<1>2. /\ c \in CallType /\ c.pc = "flying" /\ c.refreshing = calls[r].refreshing
      /\ c.outcome = calls[r].outcome
      /\ c.refreshing => c.token = refresh
  BY <1>1, SendsType DEF BInv
<1>3. calls' = [calls EXCEPT ![r] = c]
  BY DEF BackoffEnds
<1>4. /\ UNCHANGED <<vendor, access, refresh, generation, lock, accepted, spendable, mishaps>>
      /\ UNCHANGED <<executed, unanswered>>
  BY DEF BackoffEnds, adapterVars, brokerVars
<1> HIDE DEF c
<1>5. CallSound(c, executed'[r], unanswered'[r])
  BY <1>1, <1>2, <1>4, SentIsSound
<1>6. ASSUME "lost_tokens" \notin mishaps, c.refreshing
      PROVE  c.token = spendable
  <2>1. lock # <<>> /\ Head(lock) = r
    BY <1>1, <1>2, <1>6 DEF BInv, LockSound, RefreshingCall
  <2>2. \A q \in Requests : ~BringsTokens(calls[q])
    BY <1>1, <2>1 DEF BInv, LockSound, RefreshingCall, BringsTokens
  <2> QED  BY <1>2, <1>6, <2>2 DEF BInv, TokensSound
<1> QED
  BY <1>1, <1>2, <1>3, <1>4, <1>5, <1>6, QuietStep
     DEF BInv, BrokerTyped, RefreshingCall, BringsTokens

LEMMA ReturnsKeepsBInv ==
  ASSUME BInv, NEW r \in Requests, Returns(r)
  PROVE  BInv'
<1> DEFINE c == Done(calls[r], calls[r].answer)
<1>1. calls[r] \in CallType /\ calls[r].pc = "landed" /\ ~calls[r].refreshing
  BY DEF BInv, BrokerTyped, Returns, Landed
<1>2. c \in CallType /\ c.pc = "done" /\ ~c.refreshing /\ c.outcome = calls[r].answer
  BY <1>1 DEF Done, CallType, Outcomes
<1>3. calls' = [calls EXCEPT ![r] = c]
  BY DEF Returns
<1>4. /\ UNCHANGED <<vendor, access, refresh, generation, lock, accepted, spendable, mishaps>>
      /\ UNCHANGED <<executed, unanswered>>
  BY DEF Returns, adapterVars, brokerVars
<1> HIDE DEF c
<1>5. CallSound(c, executed'[r], unanswered'[r])
  BY <1>1, <1>2, <1>4 DEF BInv, ReportsSound, CallSound, Reported
<1> QED
  BY <1>1, <1>2, <1>3, <1>4, <1>5, QuietStep DEF BInv, BrokerTyped, RefreshingCall, BringsTokens

LEMMA RefuseKeepsBInv ==
  ASSUME BInv, NEW r \in Requests, NEW answer \in Answers, Refuse(r, answer)
  PROVE  BInv'
<1> DEFINE c == [calls[r] EXCEPT !.pc = "landed", !.answer = answer]
<1>1. calls[r] \in CallType /\ calls[r].pc = "flying" /\ ~calls[r].refreshing
  BY DEF BInv, BrokerTyped, Refuse, Flying
<1>2. answer \notin {"ok", "garbled"}
  BY RefusalsAreNotOk DEF BInv, BrokerTyped, Refuse
<1>3. /\ c \in CallType /\ c.pc = "landed" /\ ~c.refreshing /\ c.answer = answer
      /\ c.outcome = calls[r].outcome
  BY <1>1 DEF CallType
<1>4. calls' = [calls EXCEPT ![r] = c]
  <2>1. calls' = [calls EXCEPT ![r].pc = "landed", ![r].answer = answer]
    BY DEF Refuse, Lands
  <2> QED  BY <1>1, <2>1 DEF BInv, BrokerTyped
<1>5. /\ UNCHANGED <<vendor, access, refresh, generation, lock, accepted, spendable, mishaps>>
      /\ UNCHANGED <<executed, unanswered>>
  BY DEF Refuse, adapterVars, brokerVars
<1> HIDE DEF c
<1>6. CallSound(c, executed'[r], unanswered'[r])
  BY <1>1, <1>2, <1>3, <1>5 DEF BInv, ReportsSound, CallSound, Reported
<1> QED
  BY <1>1, <1>3, <1>4, <1>5, <1>6, QuietStep DEF BInv, BrokerTyped, RefreshingCall, BringsTokens

LEMMA ExecuteKeepsBInv ==
  ASSUME BInv, NEW r \in Requests, NEW answer \in Answers, Execute(r, answer)
  PROVE  BInv'
<1> DEFINE c == [calls[r] EXCEPT !.pc = "landed", !.answer = answer]
<1>1. calls[r] \in CallType /\ calls[r].pc = "flying" /\ ~calls[r].refreshing
  BY DEF BInv, BrokerTyped, Execute, Flying
<1>2. answer \in {"ok", "garbled", "lost"}
  BY DEF Execute
<1>3. /\ c \in CallType /\ c.pc = "landed" /\ ~c.refreshing /\ c.answer = answer
      /\ c.outcome = calls[r].outcome
  BY <1>1 DEF CallType
<1>4. calls' = [calls EXCEPT ![r] = c]
  <2>1. calls' = [calls EXCEPT ![r].pc = "landed", ![r].answer = answer]
    BY DEF Execute, Lands
  <2> QED  BY <1>1, <2>1 DEF BInv, BrokerTyped
<1>5. UNCHANGED <<vendor, access, refresh, generation, lock, accepted, spendable, mishaps>>
  BY DEF Execute, adapterVars
<1>6. /\ executed' \in [Requests -> Nat] /\ unanswered' \in [Requests -> Nat]
      /\ \A q \in Requests : q # r => executed'[q] = executed[q] /\ unanswered'[q] = unanswered[q]
      /\ executed'[r] = executed[r] + 1
      /\ unanswered'[r] = unanswered[r] + (IF answer = "lost" THEN 1 ELSE 0)
  BY DEF Execute, BInv, BrokerTyped
<1>7. executed[r] \in Nat /\ unanswered[r] \in Nat
  BY DEF BInv, BrokerTyped
<1> HIDE DEF c
<1>8. CallSound(c, executed'[r], unanswered'[r])
  <2>1. executed[r] <= unanswered[r] /\ calls[r].outcome = "none"
    BY <1>1, <1>7 DEF BInv, ReportsSound, CallSound, Reported
  <2>2. Reported(c) <=> answer # "lost"
    BY <1>2, <1>3 DEF Reported
  <2>3. executed'[r] <= unanswered'[r] + (IF Reported(c) THEN 1 ELSE 0)
    BY <1>6, <1>7, <2>1, <2>2
  <2>4. executed'[r] > 0
    BY <1>6, <1>7
  <2> QED  BY <1>3, <2>1, <2>3, <2>4 DEF CallSound
<1> QED
  BY <1>1, <1>3, <1>4, <1>5, <1>6, <1>8, QuietStep DEF RefreshingCall, BringsTokens

LEMMA ExpireKeepsBInv ==
  ASSUME BInv, Expire
  PROVE  BInv'
<1>1. /\ UNCHANGED <<vendor, calls, access, refresh, generation, lock, spendable>>
      /\ UNCHANGED <<executed, unanswered, mishaps>>
      /\ accepted' = 0
  BY DEF Expire, adapterVars
<1>2. BrokerTyped'
  BY <1>1 DEF BInv, BrokerTyped
<1>3. LockSound' /\ TokensSound' /\ ReportsSound'
  BY <1>1 DEF BInv, LockSound, TokensSound, ReportsSound
<1> QED  BY <1>2, <1>3 DEF BInv

\* The exchange of a refresh token: the tokens are on their way, or lost.
LEMMA ExchangeKeepsBInv ==
  ASSUME BInv, NEW r \in Requests, NEW answer \in Answers, Exchange(r, answer)
  PROVE  BInv'
<1> DEFINE t == IF answer = "ok" THEN spendable + 1 ELSE calls[r].token
           c == [calls[r] EXCEPT !.pc = "landed", !.answer = answer, !.token = t]
<1>1. calls[r] \in CallType /\ calls[r].pc = "flying" /\ calls[r].refreshing
  BY DEF BInv, BrokerTyped, Exchange, Flying
<1>2. t \in Nat /\ spendable + 1 \in Nat
  BY <1>1 DEF BInv, BrokerTyped, CallType
<1>3. /\ c \in CallType /\ c.pc = "landed" /\ c.refreshing /\ c.answer = answer
      /\ c.outcome = calls[r].outcome /\ c.token = t
  <2> HIDE DEF t
  <2> QED  BY <1>1, <1>2 DEF CallType
<1>4. calls' = [calls EXCEPT ![r] = c]
  <2>1. calls' = [calls EXCEPT ![r].pc = "landed", ![r].answer = answer,
                               ![r].token = IF answer = "ok" THEN spendable + 1 ELSE @]
    BY DEF Exchange
  <2> QED  BY <1>1, <2>1 DEF BInv, BrokerTyped
<1>5. /\ UNCHANGED <<vendor, access, refresh, generation, lock, executed, unanswered>>
      /\ accepted' = spendable + 1 /\ spendable' = spendable + 1
      /\ mishaps' = mishaps \cup (IF answer = "ok" THEN {} ELSE {"lost_tokens"})
  BY DEF Exchange, adapterVars
<1>6. answer = "ok" => t = spendable'
  BY <1>5
<1> HIDE DEF t, c
<1>7. /\ calls' \in [Requests -> CallType]
      /\ calls'[r] = c
      /\ \A q \in Requests : q # r => calls'[q] = calls[q]
  BY <1>3, <1>4, OneCall DEF BInv
<1>8. \A q \in Requests : q # r => ~RefreshingCall(calls[q])
  BY <1>1 DEF BInv, LockSound, RefreshingCall
<1>9. BrokerTyped'
  BY <1>2, <1>5, <1>7 DEF BInv, BrokerTyped
<1>10. LockSound'
  BY <1>1, <1>3, <1>5, <1>7 DEF BInv, LockSound, RefreshingCall
<1>11. TokensSound'
  <2>1. CASE answer = "ok"
    <3>1. BringsTokens(calls'[r]) /\ calls'[r].token = spendable'
      BY <1>3, <1>6, <1>7, <2>1 DEF BringsTokens
    <3>2. mishaps' = mishaps
      BY <1>5, <2>1
    <3>3. "lost_tokens" \notin mishaps => "refused" \notin mishaps
      BY DEF BInv, TokensSound
    <3>4. \A q \in Requests : q # r =>
            ~BringsTokens(calls'[q]) /\ ~(calls'[q].refreshing /\ calls'[q].pc = "flying")
      BY <1>7, <1>8 DEF RefreshingCall, BringsTokens
    <3> QED  BY <3>1, <3>2, <3>3, <3>4 DEF TokensSound
  <2>2. CASE answer # "ok"
    BY <1>5, <2>2 DEF TokensSound
  <2> QED  BY <2>1, <2>2
<1>12. ReportsSound'
  <2>1. CallSound(c, executed'[r], unanswered'[r])
    BY <1>1, <1>3, <1>5 DEF BInv, ReportsSound, CallSound, Reported
  <2> QED  BY <1>3, <1>4, <1>5, <2>1, ReportsStep
<1> QED  BY <1>9, <1>10, <1>11, <1>12 DEF BInv

\* A refresh is refused only when its token is not the one that can be spent,
\* that is, after new tokens were lost.
LEMMA RefuseExchangeKeepsBInv ==
  ASSUME BInv, NEW r \in Requests, NEW answer \in Answers, RefuseExchange(r, answer)
  PROVE  BInv'
<1> DEFINE c == [calls[r] EXCEPT !.pc = "landed", !.answer = answer]
<1>1. calls[r] \in CallType /\ calls[r].pc = "flying" /\ calls[r].refreshing
  BY DEF BInv, BrokerTyped, RefuseExchange, Flying
<1>2. answer \notin {"ok", "garbled"}
  BY RefusalsAreNotOk DEF BInv, BrokerTyped, RefuseExchange
<1>3. /\ c \in CallType /\ c.pc = "landed" /\ c.refreshing /\ c.answer = answer
      /\ c.outcome = calls[r].outcome
  BY <1>1 DEF CallType
<1>4. calls' = [calls EXCEPT ![r] = c]
  <2>1. calls' = [calls EXCEPT ![r].pc = "landed", ![r].answer = answer]
    BY DEF RefuseExchange, Lands
  <2> QED  BY <1>1, <2>1 DEF BInv, BrokerTyped
<1>5. /\ UNCHANGED <<vendor, access, refresh, generation, lock, accepted, spendable>>
      /\ UNCHANGED <<executed, unanswered>>
      /\ mishaps' = mishaps \cup (IF answer = "lost" THEN {} ELSE {"refused"})
      /\ answer = "lost" \/ calls[r].token # spendable
  BY DEF RefuseExchange, adapterVars, brokerVars
<1> HIDE DEF c
<1>6. /\ calls' \in [Requests -> CallType]
      /\ calls'[r] = c
      /\ \A q \in Requests : q # r => calls'[q] = calls[q]
  BY <1>3, <1>4, OneCall DEF BInv
<1>7. BrokerTyped'
  BY <1>5, <1>6 DEF BInv, BrokerTyped
<1>8. LockSound'
  BY <1>1, <1>3, <1>5, <1>6 DEF BInv, LockSound, RefreshingCall
<1>9. TokensSound'
  <2> SUFFICES ASSUME "lost_tokens" \notin mishaps'
               PROVE  /\ "refused" \notin mishaps'
                      /\ refresh' = spendable' \/ \E q \in Requests : BringsTokens(calls'[q])
                      /\ \A q \in Requests :
                           \/ BringsTokens(calls'[q])
                           \/ calls'[q].refreshing /\ calls'[q].pc = "flying"
                           => calls'[q].token = spendable'
    BY DEF TokensSound
  <2>1. "lost_tokens" \notin mishaps
    BY <1>5
  <2>2. /\ "refused" \notin mishaps
        /\ refresh = spendable \/ \E q \in Requests : BringsTokens(calls[q])
        /\ \A q \in Requests :
             \/ BringsTokens(calls[q])
             \/ calls[q].refreshing /\ calls[q].pc = "flying"
             => calls[q].token = spendable
    BY <2>1 DEF BInv, TokensSound
  <2>3. answer = "lost"
    BY <1>1, <1>5, <2>2
  <2>4. \A q \in Requests : BringsTokens(calls[q]) => BringsTokens(calls'[q])
    BY <1>1, <1>6 DEF BringsTokens
  <2>5. ~BringsTokens(calls'[r]) /\ ~(calls'[r].refreshing /\ calls'[r].pc = "flying")
    BY <1>2, <1>3, <1>6 DEF BringsTokens
  <2> QED  BY <1>5, <1>6, <2>2, <2>3, <2>4, <2>5
<1>10. ReportsSound'
  <2>1. CallSound(c, executed'[r], unanswered'[r])
    BY <1>1, <1>3, <1>5 DEF BInv, ReportsSound, CallSound, Reported
  <2> QED  BY <1>3, <1>4, <1>5, <2>1, ReportsStep
<1> QED  BY <1>7, <1>8, <1>9, <1>10 DEF BInv

\* A step of a request that alone may refresh: nobody else is refreshing, and
\* the lock is its own or it does not refresh afterwards.
LEMMA LoneStep ==
  ASSUME BInv, BrokerTyped', NEW r \in Requests, NEW c \in CallType,
         calls' = [calls EXCEPT ![r] = c],
         UNCHANGED <<executed, unanswered, spendable>>,
         "lost_tokens" \in mishaps => "lost_tokens" \in mishaps',
         "refused" \in mishaps' => "refused" \in mishaps,
         \A q \in Requests : q # r => ~RefreshingCall(calls[q]),
         RefreshingCall(c) => lock' # <<>> /\ Head(lock') = r,
         c.pc \in {"new", "queued"} => ~c.refreshing,
         "lost_tokens" \notin mishaps => refresh' = spendable,
         ~BringsTokens(c),
         "lost_tokens" \notin mishaps /\ c.refreshing /\ c.pc = "flying" => c.token = spendable,
         CallSound(c, executed[r], unanswered[r])
  PROVE  BInv'
<1>1. /\ calls'[r] = c
      /\ \A q \in Requests : q # r => calls'[q] = calls[q]
  BY OneCall DEF BInv
<1>2. LockSound'
  BY <1>1 DEF BInv, LockSound
<1>3. TokensSound'
  BY <1>1 DEF BInv, TokensSound, RefreshingCall, BringsTokens
<1>4. ReportsSound'
  BY ReportsStep
<1> QED  BY <1>2, <1>3, <1>4 DEF BInv

\* When nobody refreshes, the adapter has the token that can be spent.
LEMMA NobodyRefreshes ==
  ASSUME BInv, "lost_tokens" \notin mishaps,
         \A q \in Requests : ~BringsTokens(calls[q])
  PROVE  refresh = spendable
BY DEF BInv, TokensSound

\* The queue for the lock.
LEMMA QueueFacts ==
  ASSUME lock \in Seq(Requests), NEW r \in Requests
  PROVE  /\ Append(lock, r) \in Seq(Requests) /\ Append(lock, r) # <<>>
         /\ lock # <<>> => Head(Append(lock, r)) = Head(lock)
         /\ lock = <<>> => Head(Append(lock, r)) = r
         /\ Unlocked(r) \in Seq(Requests)
<1>1. Append(lock, r) \in Seq(Requests) /\ Append(lock, r) # <<>>
  BY AppendProperties
<1>2. lock # <<>> => Head(Append(lock, r)) = Head(lock)
  BY AppendProperties, EmptySeq, LenProperties
<1>3. lock = <<>> => Head(Append(lock, r)) = r
  BY AppendProperties
<1>4. Unlocked(r) \in Seq(Requests)
  BY HeadTailProperties DEF Unlocked
<1> QED  BY <1>1, <1>2, <1>3, <1>4

LEMMA TokenExpiredKeepsBInv ==
  ASSUME BInv, NEW r \in Requests, TokenExpired(r)
  PROVE  BInv'
<1> DEFINE e == [calls[r] EXCEPT !.generation = generation]
<1>1. /\ calls[r] \in CallType /\ calls[r].pc = "landed" /\ ~calls[r].refreshing
      /\ calls[r].answer = "expired"
  BY DEF BInv, BrokerTyped, TokenExpired, ExpiredOnce, Landed
<1>2. /\ e \in CallType /\ ~e.refreshing /\ e.answer = "expired"
      /\ e.outcome = calls[r].outcome
  BY <1>1 DEF BInv, BrokerTyped, CallType
<1>3. /\ UNCHANGED <<vendor, access, refresh, generation, accepted, spendable>>
      /\ UNCHANGED <<executed, unanswered>>
      /\ lock' = IF CanRefresh(vendor) THEN Append(lock, r) ELSE lock
      /\ calls' = [calls EXCEPT ![r] = IF lock = <<>> THEN BeginRefresh(r, e)
                                       ELSE [e EXCEPT !.pc = "queued"]]
  BY DEF TokenExpired, adapterVars, brokerVars
<1>4. /\ "lost_tokens" \in mishaps' <=> "lost_tokens" \in mishaps
      /\ "refused" \in mishaps' <=> "refused" \in mishaps
  BY DEF TokenExpired
<1>5. lock' \in Seq(Requests)
  BY <1>3, QueueFacts DEF BInv, BrokerTyped
<1>6. /\ executed[r] <= unanswered[r]
      /\ calls[r].outcome = "none"
      /\ executed[r] \in Nat /\ unanswered[r] \in Nat
  <2>1. executed[r] \in Nat /\ unanswered[r] \in Nat
    BY DEF BInv, BrokerTyped
  <2>2. CallSound(calls[r], executed[r], unanswered[r])
    BY DEF BInv, ReportsSound
  <2>3. ~Reported(calls[r]) /\ calls[r].pc # "done"
    BY <1>1 DEF Reported
  <2> QED  BY <2>1, <2>2, <2>3 DEF CallSound
<1>7. CASE lock = <<>>
  <2> DEFINE c == BeginRefresh(r, e)
  <2>1. /\ c \in CallType
        /\ \/ /\ CanRefresh(vendor)
              /\ c.pc = "flying" /\ c.refreshing
              /\ c.outcome = e.outcome /\ c.token = refresh
           \/ /\ ~CanRefresh(vendor)
              /\ c.pc = "done" /\ c.outcome = "not_authenticated"
              /\ c.refreshing = e.refreshing
    BY <1>2, BeginRefreshType DEF BInv
  <2>2. calls' = [calls EXCEPT ![r] = c]
    BY <1>3, <1>7
  <2> HIDE DEF c, e
  <2>3. \A q \in Requests : ~RefreshingCall(calls[q])
    BY <1>7 DEF BInv, LockSound
  <2>4. "lost_tokens" \notin mishaps => refresh = spendable
    BY <2>3, NobodyRefreshes DEF RefreshingCall, BringsTokens
  <2>5. calls' \in [Requests -> CallType]
    BY <2>1, <2>2, OneCall DEF BInv
  <2>6. BrokerTyped'
    BY <1>3, <1>5, <2>5 DEF BInv, BrokerTyped
  <2>7. RefreshingCall(c) => lock' # <<>> /\ Head(lock') = r
    BY <1>2, <1>3, <1>7, <2>1, QueueFacts DEF BInv, BrokerTyped, RefreshingCall
  <2>8. CallSound(c, executed[r], unanswered[r])
    BY <1>2, <1>6, <2>1 DEF CallSound, Reported
  <2> QED
    BY <1>3, <1>4, <2>1, <2>2, <2>3, <2>4, <2>6, <2>7, <2>8, LoneStep DEF BringsTokens
<1>8. CASE lock # <<>>
  <2> DEFINE c == [e EXCEPT !.pc = "queued"]
  <2>1. /\ c \in CallType /\ c.pc = "queued" /\ ~c.refreshing /\ c.outcome = e.outcome
    <3> HIDE DEF e
    <3> QED  BY <1>2 DEF CallType
  <2>2. calls' = [calls EXCEPT ![r] = c]
    BY <1>3, <1>8
  <2> HIDE DEF c, e
  <2>3. /\ calls' \in [Requests -> CallType]
        /\ calls'[r] = c
        /\ \A q \in Requests : q # r => calls'[q] = calls[q]
    BY <2>1, <2>2, OneCall DEF BInv
  <2>4. BrokerTyped'
    BY <1>3, <1>5, <2>3 DEF BInv, BrokerTyped
  <2>5. lock' # <<>> /\ Head(lock') = Head(lock)
    BY <1>3, <1>8, QueueFacts DEF BInv, BrokerTyped
  <2>6. LockSound'
    BY <2>1, <2>3, <2>5 DEF BInv, LockSound, RefreshingCall
  <2>7. \A q \in Requests : /\ BringsTokens(calls'[q]) <=> BringsTokens(calls[q])
                            /\ calls'[q].refreshing /\ calls'[q].pc = "flying" =>
                                 calls'[q] = calls[q]
                            /\ BringsTokens(calls'[q]) => calls'[q] = calls[q]
    BY <1>1, <2>1, <2>3 DEF BringsTokens
  <2>8. TokensSound'
    BY <1>3, <1>4, <2>7 DEF BInv, TokensSound
  <2>9. CallSound(c, executed'[r], unanswered'[r])
    BY <1>2, <1>3, <1>6, <2>1 DEF CallSound, Reported
  <2>10. ReportsSound'
    BY <1>3, <2>1, <2>2, <2>9, ReportsStep
  <2> QED  BY <2>4, <2>6, <2>8, <2>10 DEF BInv
<1> QED  BY <1>7, <1>8

\* Whoever is given the lock is alone with it.
LEMMA LockGrantedKeepsBInv ==
  ASSUME BInv, NEW r \in Requests, LockGranted(r)
  PROVE  BInv'
<1>1. calls[r] \in CallType /\ calls[r].pc = "queued" /\ ~calls[r].refreshing
  BY DEF BInv, BrokerTyped, LockGranted, LockSound
<1>2. lock # <<>> /\ Head(lock) = r
  BY DEF LockGranted
<1>3. /\ UNCHANGED <<vendor, access, refresh, generation, accepted, spendable>>
      /\ UNCHANGED <<executed, unanswered, mishaps>>
  BY DEF LockGranted, adapterVars, brokerVars
<1>4. \A q \in Requests : ~RefreshingCall(calls[q])
  BY <1>1, <1>2 DEF BInv, LockSound, RefreshingCall
<1>5. "lost_tokens" \notin mishaps => refresh = spendable
  BY <1>4, NobodyRefreshes DEF RefreshingCall, BringsTokens
<1>6. CASE SomeoneRefreshed(r)
  <2> DEFINE c == SendsAgain(r, calls[r])
  <2>1. c \in CallType /\ c.pc = "flying" /\ ~c.refreshing /\ c.outcome = calls[r].outcome
    BY <1>1, SendsAgainType DEF BInv
  <2>2. calls' = [calls EXCEPT ![r] = c] /\ lock' = Unlocked(r)
    BY <1>6 DEF LockGranted
  <2> HIDE DEF c
  <2>3. calls' \in [Requests -> CallType]
    BY <2>1, <2>2, OneCall DEF BInv
  <2>4. BrokerTyped'
    BY <1>3, <2>2, <2>3, QueueFacts DEF BInv, BrokerTyped
  <2>5. CallSound(c, executed[r], unanswered[r])
    BY <1>1, <2>1, SentIsSound
  <2> QED
    BY <1>3, <1>4, <1>5, <2>1, <2>2, <2>4, <2>5, LoneStep DEF RefreshingCall, BringsTokens
<1>7. CASE ~SomeoneRefreshed(r)
  <2> DEFINE c == BeginRefresh(r, calls[r])
  <2>1. /\ c \in CallType
        /\ \/ /\ c.pc = "flying" /\ c.refreshing
              /\ c.outcome = calls[r].outcome /\ c.token = refresh
           \/ /\ c.pc = "done" /\ c.outcome = "not_authenticated"
              /\ c.refreshing = calls[r].refreshing
    BY <1>1, BeginRefreshType DEF BInv
  <2>2. calls' = [calls EXCEPT ![r] = c] /\ lock' = lock
    BY <1>7 DEF LockGranted
  <2> HIDE DEF c
  <2>3. calls' \in [Requests -> CallType]
    BY <2>1, <2>2, OneCall DEF BInv
  <2>4. BrokerTyped'
    BY <1>3, <2>2, <2>3 DEF BInv, BrokerTyped
  <2>5. CallSound(c, executed[r], unanswered[r])
    BY <1>1, <2>1 DEF BInv, ReportsSound, CallSound, Reported
  <2> QED
    BY <1>1, <1>2, <1>3, <1>4, <1>5, <2>1, <2>2, <2>4, <2>5, LoneStep
       DEF RefreshingCall, BringsTokens
<1> QED  BY <1>6, <1>7

\* The new tokens arrive: they are the ones that can be spent.
LEMMA RefreshedKeepsBInv ==
  ASSUME BInv, NEW r \in Requests, Refreshed(r)
  PROVE  BInv'
<1> DEFINE issued == calls[r].token
           d == SendsAgain(r, calls[r])
           c == [d EXCEPT !.token = issued]
<1>1. /\ calls[r] \in CallType /\ calls[r].pc = "landed" /\ calls[r].refreshing
      /\ calls[r].answer = "ok"
  BY DEF BInv, BrokerTyped, Refreshed, Landed
<1>2. issued \in Nat
  BY <1>1 DEF CallType
<1>3. /\ d \in CallType /\ d.pc = "flying" /\ ~d.refreshing /\ d.outcome = calls[r].outcome
  BY <1>1, SendsAgainType DEF BInv
<1>4. /\ c \in CallType /\ c.pc = "flying" /\ ~c.refreshing /\ c.outcome = calls[r].outcome
  <2> HIDE DEF d, issued
  <2> QED  BY <1>2, <1>3 DEF CallType
<1>5. /\ calls' = [calls EXCEPT ![r] = c]
      /\ access' = issued /\ refresh' = issued
      /\ generation' = generation + 1
      /\ lock' = Unlocked(r)
      /\ UNCHANGED <<vendor, accepted, spendable, executed, unanswered, mishaps>>
  BY DEF Refreshed, brokerVars
<1>6. BringsTokens(calls[r])
  BY <1>1 DEF BringsTokens
<1>7. "lost_tokens" \notin mishaps => issued = spendable
  BY <1>6 DEF BInv, TokensSound
<1> HIDE DEF c, d, issued
<1>8. \A q \in Requests : q # r => ~RefreshingCall(calls[q])
  BY <1>1 DEF BInv, LockSound, RefreshingCall
<1>9. calls' \in [Requests -> CallType]
  BY <1>4, <1>5, OneCall DEF BInv
<1>10. BrokerTyped'
  BY <1>2, <1>5, <1>9, QueueFacts DEF BInv, BrokerTyped
<1>11. CallSound(c, executed[r], unanswered[r])
  BY <1>1, <1>4 DEF BInv, ReportsSound, CallSound, Reported
<1> QED
  BY <1>4, <1>5, <1>7, <1>8, <1>10, <1>11, LoneStep DEF RefreshingCall, BringsTokens

LEMMA RefreshFailsKeepsBInv ==
  ASSUME BInv, NEW r \in Requests, RefreshFails(r)
  PROVE  BInv'
<1> DEFINE failure == A!RefreshFailure(calls[r].answer)
           d == Done(calls[r], failure)
           c == [d EXCEPT !.refreshing = FALSE]
<1>1. /\ calls[r] \in CallType /\ calls[r].pc = "landed" /\ calls[r].refreshing
      /\ calls[r].answer # "ok"
  BY DEF BInv, BrokerTyped, RefreshFails, Landed
<1>2. failure \in Outcomes /\ failure # "ok"
  BY <1>1 DEF A!RefreshFailure, CallType, Outcomes
<1>3. d \in CallType /\ d.pc = "done" /\ d.outcome = failure
  <2> HIDE DEF failure
  <2> QED  BY <1>1, <1>2 DEF Done, CallType
<1>4. c \in CallType /\ c.pc = "done" /\ ~c.refreshing /\ c.outcome = failure
  <2> HIDE DEF d, failure
  <2> QED  BY <1>3 DEF CallType
<1>5. /\ calls' = [calls EXCEPT ![r] = c]
      /\ lock' = Unlocked(r)
      /\ UNCHANGED <<vendor, access, refresh, generation, accepted, spendable>>
      /\ UNCHANGED <<executed, unanswered, mishaps>>
  BY DEF RefreshFails, ReleaseLock, adapterVars, brokerVars
<1> HIDE DEF c, d, failure
<1>6. \A q \in Requests : q # r => ~RefreshingCall(calls[q])
  BY <1>1 DEF BInv, LockSound, RefreshingCall
<1>7. "lost_tokens" \notin mishaps => refresh = spendable
  BY <1>1, <1>6, NobodyRefreshes DEF RefreshingCall, BringsTokens
<1>8. calls' \in [Requests -> CallType]
  BY <1>4, <1>5, OneCall DEF BInv
<1>9. BrokerTyped'
  BY <1>5, <1>8, QueueFacts DEF BInv, BrokerTyped
<1>10. CallSound(c, executed[r], unanswered[r])
  <2>1. executed[r] \in Nat /\ unanswered[r] \in Nat
    BY DEF BInv, BrokerTyped
  <2>2. ~Reported(calls[r])
    BY <1>1 DEF Reported
  <2>3. executed[r] <= unanswered[r]
    BY <2>1, <2>2 DEF BInv, ReportsSound, CallSound
  <2> QED  BY <1>2, <1>4, <2>1, <2>3 DEF CallSound
<1> QED
  BY <1>4, <1>5, <1>6, <1>7, <1>9, <1>10, LoneStep DEF RefreshingCall, BringsTokens

-----------------------------------------------------------------------------
(***************************************************************************)
(* The invariant.                                                          *)
(***************************************************************************)
LEMMA InitBInv == Init => BInv
<1> SUFFICES ASSUME Init
             PROVE  BInv
  OBVIOUS
<1> USE DEF Init, HttpInit
<1>1. NewCall \in CallType /\ NewCall.pc = "new" /\ ~NewCall.refreshing
      /\ NewCall.outcome = "none"
  BY DEF NewCall, CallType, Answers, Outcomes
<1>2. BrokerTyped
  <2>1. access \in Nat /\ refresh \in Nat /\ accepted \in Nat /\ spendable \in Nat
    OBVIOUS
  <2>2. lock \in Seq(Requests)
    OBVIOUS
  <2> QED  BY <1>1, <2>1, <2>2 DEF BrokerTyped
<1>3. \A r \in Requests : calls[r] = NewCall
  OBVIOUS
<1>4. LockSound
  BY <1>1, <1>3 DEF LockSound, RefreshingCall
<1>5. TokensSound
  BY <1>1, <1>3 DEF TokensSound, BringsTokens
<1>6. ReportsSound
  <2> SUFFICES ASSUME NEW r \in Requests
               PROVE  CallSound(calls[r], executed[r], unanswered[r])
    BY DEF ReportsSound
  <2>1. executed[r] = 0 /\ unanswered[r] = 0
    OBVIOUS
  <2> QED  BY <1>1, <1>3, <2>1 DEF CallSound, Reported
<1> QED  BY <1>2, <1>4, <1>5, <1>6 DEF BInv

LEMMA NextBInv == BInv /\ [Next]_ordersVars => BInv'
<1> SUFFICES ASSUME BInv, [Next]_ordersVars
             PROVE  BInv'
  OBVIOUS
<1>1. ASSUME NEW r \in Requests, Submit(r) \/ SubmitRaises(r)
      PROVE  BInv'
  BY <1>1, SubmitKeepsBInv, SubmitRaisesKeepsBInv
<1>2. ASSUME NEW r \in Requests, Proceeds(r)
      PROVE  BInv'
  BY <1>2, RetriesKeepsBInv, BackoffEndsKeepsBInv, ReturnsKeepsBInv, TokenExpiredKeepsBInv,
     LockGrantedKeepsBInv, RefreshedKeepsBInv, RefreshFailsKeepsBInv DEF Proceeds
<1>3. ASSUME NEW r \in Requests, BrokerAnswers(r)
      PROVE  BInv'
  <2>1. PICK answer \in {"ok", "garbled", "lost", "refusal", "rejected", "expired"} :
          \/ Execute(r, answer) \/ Refuse(r, answer)
          \/ Exchange(r, answer) \/ RefuseExchange(r, answer)
    BY <1>3 DEF BrokerAnswers
  <2>2. answer \in Answers
    BY <2>1 DEF Answers
  <2> QED
    BY <2>1, <2>2, ExecuteKeepsBInv, RefuseKeepsBInv, ExchangeKeepsBInv, RefuseExchangeKeepsBInv
<1>4. CASE Expire
  BY <1>4, ExpireKeepsBInv
<1>5. CASE UNCHANGED ordersVars
  <2>1. /\ UNCHANGED <<vendor, calls, access, refresh, generation, lock, spendable, accepted>>
        /\ UNCHANGED <<executed, unanswered, mishaps>>
    BY <1>5 DEF ordersVars, httpVars, adapterVars, brokerVars
  <2>2. BrokerTyped' /\ LockSound' /\ TokensSound' /\ ReportsSound'
    BY <2>1 DEF BInv, BrokerTyped, LockSound, TokensSound, ReportsSound
  <2> QED  BY <2>2 DEF BInv
<1> QED  BY <1>1, <1>2, <1>3, <1>4, <1>5 DEF Next

\* The inductive invariant holds of every execution.
THEOREM BrokerInvariant == Spec => []BInv
BY InitBInv, NextBInv, PTL DEF Spec

\* Requests that find the token expired at once share one refresh: no refresh
\* token is spent twice, unless the answer that carried its successor was lost.
THEOREM RefreshIsShared == Spec => []RefreshIsNotRefused
<1>1. BInv => RefreshIsNotRefused
  BY DEF BInv, TokensSound, RefreshIsNotRefused
<1> QED  BY <1>1, BrokerInvariant, PTL

\* No method returns as if it had succeeded unless its request did, or was
\* refused by a body that reads as an empty list.
LEMMA SuccessIsAnswered ==
  ASSUME NEW v, NEW op, NEW outcome, Outcome(v, op, outcome) = "ok"
  PROVE  outcome \in {"ok", "refusal"}
<1>1. /\ A!PlaceOutcome(outcome) = "ok" => outcome = "ok"
      /\ A!HistoricalOutcome(outcome) = "ok" => outcome = "ok"
      /\ A!ListOutcome(outcome) = "ok" => outcome \in {"ok", "refusal"}
      /\ A!QuoteOutcome(outcome) = "ok" => outcome = "ok"
  BY DEF A!PlaceOutcome, A!HistoricalOutcome, A!ListOutcome, A!QuoteOutcome
<1>2. /\ U!PlaceOutcome(outcome) = "ok" => outcome = "ok"
      /\ U!HistoricalOutcome(outcome) = "ok" => outcome = "ok"
  BY DEF U!PlaceOutcome, U!HistoricalOutcome
<1>3. /\ Z!PlaceOutcome(outcome) = "ok" => outcome = "ok"
      /\ Z!HistoricalOutcome(outcome) = "ok" => outcome = "ok"
  BY DEF Z!PlaceOutcome, Z!HistoricalOutcome
<1>4. CASE op = "get_orders"
  BY <1>1, <1>2, <1>3, <1>4 DEF Outcome, Adapter, U!ListOutcome, Z!ListOutcome
<1>5. CASE op \in {"place", "modify", "cancel"}
  BY <1>1, <1>2, <1>3, <1>5 DEF Outcome, Adapter, A!ModifyOutcome, A!CancelOutcome,
     U!ModifyOutcome, U!CancelOutcome, Z!ModifyOutcome, Z!CancelOutcome
<1>6. CASE op = "historical_data"
  BY <1>1, <1>2, <1>3, <1>6 DEF Outcome, Adapter
<1>7. CASE op \notin {"place", "modify", "cancel", "historical_data", "get_orders"}
  BY <1>1, <1>2, <1>3, <1>7 DEF Outcome, Adapter, U!QuoteOutcome, Z!QuoteOutcome
<1> QED  BY <1>4, <1>5, <1>6, <1>7

\* Retries do not repeat what was done, and what a method reports as done was
\* done, whatever the broker answers and however the calls interleave.
THEOREM ReportsStayTrue == Spec => []ReportsAreTrue
<1>1. ASSUME BInv
      PROVE  ReportsAreTrue
  <2> SUFFICES ASSUME NEW r \in Requests
               PROVE  /\ executed[r] <= unanswered[r]
                           + (IF calls[r].outcome \in {"none", "ok", "garbled"} THEN 1 ELSE 0)
                      /\ Result(r) = "ok" => executed[r] > 0 \/ calls[r].outcome = "refusal"
    BY DEF ReportsAreTrue
  <2>1. executed[r] \in Nat /\ unanswered[r] \in Nat
    BY <1>1 DEF BInv, BrokerTyped
  <2>2. CallSound(calls[r], executed[r], unanswered[r])
    BY <1>1 DEF BInv, ReportsSound
  <2>3. Reported(calls[r]) => calls[r].outcome \in {"none", "ok", "garbled"}
    BY <2>2 DEF CallSound, Reported
  <2>4. executed[r] <= unanswered[r]
          + (IF calls[r].outcome \in {"none", "ok", "garbled"} THEN 1 ELSE 0)
    BY <2>1, <2>2, <2>3 DEF CallSound
  <2>5. ASSUME Result(r) = "ok", calls[r].outcome # "refusal"
        PROVE  executed[r] > 0
    <3>1. calls[r].pc = "done" /\ Outcome(vendor, ask[r].op, calls[r].outcome) = "ok"
      BY <2>5 DEF Result
    <3>2. calls[r].outcome = "ok"
      BY <2>5, <3>1, SuccessIsAnswered
    <3> QED  BY <2>2, <3>1, <3>2 DEF CallSound
  <2> QED  BY <2>4, <2>5
<1> QED  BY <1>1, BrokerInvariant, PTL

-----------------------------------------------------------------------------
(***************************************************************************)
(* One expiry of the access token never shows through.                     *)
(***************************************************************************)
OnItsWay(c) == c.pc \in {"flying", "landed"} /\ ~c.refreshing

SaysExpired(c) == c.pc = "landed" /\ c.answer = "expired" /\ ~c.refreshing

\* Before the first refresh every call carries the token of the login, and no
\* call is the one made after a refresh.
EarlyCall(c) ==
    /\ ~c.last
    /\ OnItsWay(c) => c.token = access
    /\ BringsTokens(c) => c.token = accepted /\ accepted > access
    /\ expiries = 0 => c.pc # "queued" /\ ~RefreshingCall(c) /\ ~SaysExpired(c)

\* After it nobody refreshes any more, the calls made after it carry the new
\* token, and only an old one has expired.
LateCall(c) ==
    /\ ~RefreshingCall(c)
    /\ c.last => c.pc \in {"flying", "landed", "done"}
    /\ c.last /\ OnItsWay(c) => c.token = access
    /\ SaysExpired(c) => c.token # access

ExpiryCall(c) ==
    /\ c.outcome # "expired"
    /\ c.generation = 0
    /\ c.refreshing /\ c.pc = "landed" => c.answer \in {"ok", "lost"}
    /\ IF generation = 0 THEN EarlyCall(c) ELSE LateCall(c)

ExpiryTokens ==
    IF generation = 0 THEN refresh = access /\ (expiries = 0 => accepted = access)
    ELSE accepted = access /\ expiries # 0

OneExpiry == mishaps = {} /\ expiries <= 1

ExpirySound ==
    /\ expiries \in Nat
    /\ OneExpiry => ExpiryTokens /\ \A r \in Requests : ExpiryCall(calls[r])

\* A call with the token the broker accepts is not told that it has expired.
LEMMA AcceptedIsNotExpired ==
  ASSUME vendor \in Vendors
  PROVE  "expired" \notin RefusedAnswers(accepted)
<1>1. \A response \in RefusedResponses(vendor) : Classify(vendor, response) # "expired"
  <2>1. CASE vendor = "angel_one"
    <3>1. /\ RefusedResponses(vendor) = A!RefusedResponses
          /\ \A response : IsTokenExpired(vendor, response) = A!IsTokenExpired(response)
      BY <2>1 DEF RefusedResponses, IsTokenExpired, Adapter
    <3>2. \A response \in A!RefusedResponses :
            \/ response.status = 400
            \/ response.status = 200 /\ response.body = "refusal"
      BY DEF A!RefusedResponses
    <3>3. \A response \in A!RefusedResponses : Classify(vendor, response) # "expired"
      BY <3>1, <3>2 DEF Classify, A!IsTokenExpired
    <3> QED  BY <3>1, <3>3
  <2>2. CASE vendor = "upstox"
    <3>1. /\ RefusedResponses(vendor) = U!RefusedResponses
          /\ \A response : IsTokenExpired(vendor, response) = U!IsTokenExpired(response)
      BY <2>2 DEF RefusedResponses, IsTokenExpired, Adapter
    <3>2. \A response \in U!RefusedResponses : response.status = 400
      BY DEF U!RefusedResponses
    <3>3. \A response \in U!RefusedResponses : Classify(vendor, response) # "expired"
      BY <3>1, <3>2 DEF Classify, U!IsTokenExpired
    <3> QED  BY <3>1, <3>3
  <2>3. CASE vendor = "zerodha"
    <3>1. /\ RefusedResponses(vendor) = Z!RefusedResponses
          /\ \A response : IsTokenExpired(vendor, response) = Z!IsTokenExpired(response)
      BY <2>3 DEF RefusedResponses, IsTokenExpired, Adapter
    <3>2. \A response \in Z!RefusedResponses : response.body = "refusal"
      BY DEF Z!RefusedResponses
    <3>3. \A response \in Z!RefusedResponses : Classify(vendor, response) # "expired"
      BY <3>1, <3>2 DEF Classify, Z!IsTokenExpired
    <3> QED  BY <3>1, <3>3
  <2> QED  BY <2>1, <2>2, <2>3 DEF Vendors
<1> QED  BY <1>1 DEF RefusedAnswers

\* What sending leaves of a call.
LEMMA SendsKeeps ==
  ASSUME NEW r, NEW c \in CallType
  PROVE  Sends(r, c).last = c.last /\ Sends(r, c).generation = c.generation
BY DEF Sends, CallType

LEMMA BeginRefreshKeeps ==
  ASSUME NEW r, NEW c \in CallType
  PROVE  BeginRefresh(r, c).last = c.last /\ BeginRefresh(r, c).generation = c.generation
<1> PICK e : e = [c EXCEPT !.refreshing = TRUE, !.attempt = 0]
  OBVIOUS
<1>1. e \in CallType /\ e.last = c.last /\ e.generation = c.generation
  BY DEF CallType
<1>2. Sends(r, e).last = c.last /\ Sends(r, e).generation = c.generation
  BY <1>1, SendsKeeps
<1>3. LET d == Done(c, "not_authenticated") IN d.last = c.last /\ d.generation = c.generation
  BY DEF Done, CallType
<1> QED  BY <1>2, <1>3 DEF BeginRefresh

LEMMA SendsAgainKeeps ==
  ASSUME BrokerTyped, NEW r, NEW c \in CallType
  PROVE  LET d == SendsAgain(r, c)
         IN  d.last /\ d.generation = c.generation /\ d.token = access
<1> PICK e : e = [c EXCEPT !.refreshing = FALSE, !.last = TRUE]
  OBVIOUS
<1>1. e \in CallType /\ e.last /\ e.generation = c.generation /\ ~e.refreshing
  BY DEF CallType
<1>2. /\ Sends(r, e).last = e.last /\ Sends(r, e).generation = e.generation
      /\ Sends(r, e).token = access
  BY <1>1, SendsKeeps, SendsType
<1> QED  BY <1>1, <1>2 DEF SendsAgain

\* A step of one request that leaves the tokens alone.
LEMMA ExpiryStep ==
  ASSUME BInv, ExpirySound, NEW r \in Requests, NEW c \in CallType,
         calls' = [calls EXCEPT ![r] = c],
         UNCHANGED <<access, refresh, generation, accepted, expiries>>,
         mishaps \subseteq mishaps',
         OneExpiry' => ExpiryCall(c)
  PROVE  ExpirySound'
<1>1. /\ calls'[r] = c
      /\ \A q \in Requests : q # r => calls'[q] = calls[q]
  BY OneCall DEF BInv
<1>2. OneExpiry' => OneExpiry
  BY DEF OneExpiry
<1>3. OneExpiry' => ExpiryTokens'
  BY <1>2 DEF ExpirySound, ExpiryTokens
<1>4. ASSUME OneExpiry', NEW q \in Requests
      PROVE  ExpiryCall(calls'[q])
  BY <1>1, <1>2, <1>4 DEF ExpirySound
<1>5. \A q \in Requests : ExpiryCall(calls'[q]) => ExpiryCall(calls[q])'
  BY DEF ExpiryCall, EarlyCall, LateCall
<1> QED  BY <1>3, <1>4, <1>5 DEF ExpirySound

\* What is known of a call while nothing has gone wrong.
LEMMA ExpiryFacts ==
  ASSUME BInv, ExpirySound, OneExpiry, NEW r \in Requests
  PROVE  /\ calls[r] \in CallType /\ ExpiryCall(calls[r]) /\ ExpiryTokens
         /\ access \in Nat /\ accepted \in Nat /\ spendable \in Nat /\ generation \in Nat
BY DEF BInv, BrokerTyped, ExpirySound

LEMMA SubmitKeepsExpiry ==
  ASSUME BInv, ExpirySound, NEW r \in Requests, Submit(r) \/ SubmitRaises(r)
  PROVE  ExpirySound'
<1>1. /\ calls[r] \in CallType /\ calls[r].pc = "new" /\ ~calls[r].refreshing
      /\ UNCHANGED <<access, refresh, generation, accepted, expiries, mishaps>>
  BY DEF BInv, BrokerTyped, LockSound, Submit, SubmitRaises, Call, adapterVars, brokerVars
<1>2. OneExpiry => ExpiryCall(calls[r]) /\ ~calls[r].last
  BY <1>1, ExpiryFacts DEF ExpiryCall, EarlyCall, LateCall
<1>3. ASSUME NEW outcome \in Outcomes \ {"expired"},
             calls' = [calls EXCEPT ![r] = Done(calls[r], outcome)]
      PROVE  ExpirySound'
  <2> PICK c : c = Done(calls[r], outcome)
    OBVIOUS
  <2>1. /\ c \in CallType /\ c.pc = "done" /\ c.outcome = outcome /\ ~c.refreshing
        /\ c.last = calls[r].last /\ c.generation = calls[r].generation
    BY <1>1 DEF Done, CallType
  <2>2. OneExpiry' => ExpiryCall(c)
    BY <1>1, <1>2, <2>1
       DEF OneExpiry, ExpiryCall, EarlyCall, LateCall, OnItsWay, BringsTokens, SaysExpired,
           RefreshingCall
  <2> QED  BY <1>1, <1>3, <2>1, <2>2, ExpiryStep
<1>4. ASSUME calls' = [calls EXCEPT ![r] = Sends(r, calls[r])]
      PROVE  ExpirySound'
  <2> PICK c : c = Sends(r, calls[r])
    OBVIOUS
  <2>1. /\ c \in CallType /\ c.pc = "flying" /\ ~c.refreshing
        /\ c.outcome = calls[r].outcome /\ c.token = access
        /\ c.last = calls[r].last /\ c.generation = calls[r].generation
    BY <1>1, SendsType, SendsKeeps DEF BInv
  <2>2. OneExpiry' => ExpiryCall(c)
    BY <1>1, <1>2, <2>1
       DEF OneExpiry, ExpiryCall, EarlyCall, LateCall, OnItsWay, BringsTokens, SaysExpired,
           RefreshingCall
  <2> QED  BY <1>1, <1>4, <2>1, <2>2, ExpiryStep
<1>5. CASE Submit(r)
  <2>1. "not_authenticated" \in Outcomes \ {"expired"}
    BY DEF Outcomes
  <2>2. \/ calls' = [calls EXCEPT ![r] = Done(calls[r], "not_authenticated")]
        \/ calls' = [calls EXCEPT ![r] = Sends(r, calls[r])]
    BY <1>5 DEF Submit, Call
  <2> QED  BY <1>3, <1>4, <2>1, <2>2
<1>6. CASE SubmitRaises(r)
  <2>1. PICK error \in EarlyErrors(r) : calls' = [calls EXCEPT ![r] = Done(@, error)]
    BY <1>6 DEF SubmitRaises
  <2>2. error \in Outcomes \ {"expired"}
    BY EarlyErrorsAreErrors DEF Outcomes
  <2> QED  BY <1>3, <2>1, <2>2
<1> QED  BY <1>5, <1>6

LEMMA RetriesKeepExpiry ==
  ASSUME BInv, ExpirySound, NEW r \in Requests, Retries(r)
  PROVE  ExpirySound'
<1> PICK c : c = [calls[r] EXCEPT !.pc = "backoff"]
  OBVIOUS
<1>1. /\ calls[r] \in CallType /\ calls[r].pc = "landed" /\ ~calls[r].last
      /\ UNCHANGED <<access, refresh, generation, accepted, expiries, mishaps>>
      /\ calls' = [calls EXCEPT ![r] = c]
  BY DEF BInv, BrokerTyped, Retries, Landed, adapterVars, brokerVars
<1>2. /\ c \in CallType /\ c.pc = "backoff" /\ c.refreshing = calls[r].refreshing
      /\ c.outcome = calls[r].outcome
      /\ c.last = calls[r].last /\ c.generation = calls[r].generation
  BY <1>1 DEF CallType
<1>3. OneExpiry' => ExpiryCall(c)
  BY <1>1, <1>2, ExpiryFacts
     DEF OneExpiry, ExpiryCall, EarlyCall, LateCall, OnItsWay, BringsTokens, SaysExpired,
         RefreshingCall
<1> QED  BY <1>1, <1>2, <1>3, ExpiryStep

LEMMA BackoffEndsKeepsExpiry ==
  ASSUME BInv, ExpirySound, NEW r \in Requests, BackoffEnds(r)
  PROVE  ExpirySound'
<1> PICK c : c = Sends(r, calls[r])
  OBVIOUS
<1>1. /\ calls[r] \in CallType /\ calls[r].pc = "backoff"
      /\ UNCHANGED <<access, refresh, generation, accepted, expiries, mishaps>>
      /\ calls' = [calls EXCEPT ![r] = c]
  BY DEF BInv, BrokerTyped, BackoffEnds, adapterVars, brokerVars
<1>2. /\ c \in CallType /\ c.pc = "flying" /\ c.refreshing = calls[r].refreshing
      /\ c.outcome = calls[r].outcome /\ (~c.refreshing => c.token = access)
      /\ c.last = calls[r].last /\ c.generation = calls[r].generation
  BY <1>1, SendsType, SendsKeeps DEF BInv
<1>3. OneExpiry' => ExpiryCall(c)
  BY <1>1, <1>2, ExpiryFacts
     DEF OneExpiry, ExpiryCall, EarlyCall, LateCall, OnItsWay, BringsTokens, SaysExpired,
         RefreshingCall
<1> QED  BY <1>1, <1>2, <1>3, ExpiryStep

\* Only the call made after a refresh could report an expired token, and it
\* carries the token the broker accepts.
LEMMA ReturnsKeepsExpiry ==
  ASSUME BInv, ExpirySound, NEW r \in Requests, Returns(r)
  PROVE  ExpirySound'
<1> PICK c : c = Done(calls[r], calls[r].answer)
  OBVIOUS
<1>1. /\ calls[r] \in CallType /\ calls[r].pc = "landed" /\ ~calls[r].refreshing
      /\ calls[r].answer = "expired" => calls[r].last
      /\ UNCHANGED <<access, refresh, generation, accepted, expiries, mishaps>>
      /\ calls' = [calls EXCEPT ![r] = c]
  BY DEF BInv, BrokerTyped, Returns, Landed, adapterVars, brokerVars
<1>2. /\ c \in CallType /\ c.pc = "done" /\ ~c.refreshing
      /\ c.outcome = calls[r].answer
      /\ c.last = calls[r].last /\ c.generation = calls[r].generation
  BY <1>1 DEF Done, CallType, Outcomes
<1>3. OneExpiry => calls[r].answer # "expired"
  BY <1>1, ExpiryFacts DEF ExpiryCall, EarlyCall, LateCall, OnItsWay, SaysExpired
<1>4. OneExpiry' => ExpiryCall(c)
  BY <1>1, <1>2, <1>3, ExpiryFacts
     DEF OneExpiry, ExpiryCall, EarlyCall, LateCall, OnItsWay, BringsTokens, SaysExpired,
         RefreshingCall
<1> QED  BY <1>1, <1>2, <1>4, ExpiryStep

\* A late answer to an old token is a mishap; the others wait for one refresh.
LEMMA TokenExpiredKeepsExpiry ==
  ASSUME BInv, ExpirySound, NEW r \in Requests, TokenExpired(r)
  PROVE  ExpirySound'
<1> PICK e : e = [calls[r] EXCEPT !.generation = generation]
  OBVIOUS
<1>1. /\ calls[r] \in CallType /\ SaysExpired(calls[r]) /\ ~calls[r].last
      /\ UNCHANGED <<access, refresh, generation, accepted, expiries>>
      /\ mishaps \subseteq mishaps'
      /\ calls[r].token # access => mishaps' # {}
  <2>1. e.token = calls[r].token
    BY DEF BInv, BrokerTyped, CallType
  <2> QED  BY <2>1 DEF BInv, BrokerTyped, TokenExpired, ExpiredOnce, Landed, SaysExpired,
                       adapterVars, brokerVars
<1>2. calls' = [calls EXCEPT ![r] = IF lock = <<>> THEN BeginRefresh(r, e)
                                    ELSE [e EXCEPT !.pc = "queued"]]
  BY DEF TokenExpired
<1>3. /\ e \in CallType /\ ~e.refreshing /\ e.outcome = calls[r].outcome
      /\ e.last = calls[r].last /\ e.generation = generation
  BY <1>1 DEF BInv, BrokerTyped, CallType, SaysExpired
<1>4. OneExpiry' => /\ generation = 0 /\ expiries # 0 /\ calls[r].outcome # "expired"
                    /\ OneExpiry
  <2> SUFFICES ASSUME OneExpiry'
               PROVE  /\ generation = 0 /\ expiries # 0 /\ calls[r].outcome # "expired"
                      /\ OneExpiry
    OBVIOUS
  <2>1. OneExpiry /\ calls[r].token = access
    BY <1>1 DEF OneExpiry
  <2> QED  BY <1>1, <2>1, ExpiryFacts DEF ExpiryCall, EarlyCall, LateCall
<1>5. CASE lock = <<>>
  <2> PICK c : c = BeginRefresh(r, e)
    OBVIOUS
  <2>1. /\ c \in CallType /\ c.last = e.last /\ c.generation = e.generation
        /\ \/ c.pc = "flying" /\ c.refreshing /\ c.outcome = e.outcome
           \/ c.pc = "done" /\ c.outcome = "not_authenticated" /\ c.refreshing = e.refreshing
    BY <1>3, BeginRefreshType, BeginRefreshKeeps DEF BInv
  <2>2. OneExpiry' => ExpiryCall(c)
    BY <1>1, <1>3, <1>4, <2>1
       DEF ExpiryCall, EarlyCall, OnItsWay, BringsTokens, SaysExpired, RefreshingCall
  <2>3. calls' = [calls EXCEPT ![r] = c]
    BY <1>2, <1>5
  <2> QED  BY <1>1, <2>1, <2>2, <2>3, ExpiryStep
<1>6. CASE lock # <<>>
  <2> PICK c : c = [e EXCEPT !.pc = "queued"]
    OBVIOUS
  <2>1. /\ c \in CallType /\ c.pc = "queued" /\ ~c.refreshing /\ c.outcome = e.outcome
        /\ c.last = e.last /\ c.generation = e.generation
    BY ONLY <1>3, c = [e EXCEPT !.pc = "queued"] DEF CallType
  <2>2. OneExpiry' => ExpiryCall(c)
    BY <1>1, <1>3, <1>4, <2>1
       DEF ExpiryCall, EarlyCall, OnItsWay, BringsTokens, SaysExpired, RefreshingCall
  <2>3. calls' = [calls EXCEPT ![r] = c]
    BY <1>2, <1>6
  <2> QED  BY <1>1, <2>1, <2>2, <2>3, ExpiryStep
<1> QED  BY <1>5, <1>6

LEMMA LockGrantedKeepsExpiry ==
  ASSUME BInv, ExpirySound, NEW r \in Requests, LockGranted(r)
  PROVE  ExpirySound'
<1>1. /\ calls[r] \in CallType /\ calls[r].pc = "queued" /\ ~calls[r].refreshing
      /\ UNCHANGED <<access, refresh, generation, accepted, expiries, mishaps>>
  BY DEF BInv, BrokerTyped, LockGranted, LockSound, adapterVars, brokerVars
<1>2. OneExpiry => /\ ExpiryCall(calls[r]) /\ expiries # 0
                   /\ SomeoneRefreshed(r) <=> generation # 0
  BY <1>1, ExpiryFacts DEF ExpiryCall, EarlyCall, ExpiryTokens, SomeoneRefreshed
<1>3. CASE SomeoneRefreshed(r)
  <2> PICK c : c = SendsAgain(r, calls[r])
    OBVIOUS
  <2>1. /\ c \in CallType /\ c.pc = "flying" /\ ~c.refreshing /\ c.outcome = calls[r].outcome
        /\ c.last /\ c.generation = calls[r].generation /\ c.token = access
    BY <1>1, SendsAgainType, SendsAgainKeeps DEF BInv
  <2>2. OneExpiry' => ExpiryCall(c)
    BY <1>1, <1>2, <1>3, <2>1
       DEF OneExpiry, ExpiryCall, LateCall, OnItsWay, SaysExpired, RefreshingCall
  <2>3. calls' = [calls EXCEPT ![r] = c]
    BY <1>3 DEF LockGranted
  <2> QED  BY <1>1, <2>1, <2>2, <2>3, ExpiryStep
<1>4. CASE ~SomeoneRefreshed(r)
  <2> PICK c : c = BeginRefresh(r, calls[r])
    OBVIOUS
  <2>1. /\ c \in CallType /\ c.last = calls[r].last /\ c.generation = calls[r].generation
        /\ \/ c.pc = "flying" /\ c.refreshing /\ c.outcome = calls[r].outcome
           \/ /\ c.pc = "done" /\ c.outcome = "not_authenticated"
              /\ c.refreshing = calls[r].refreshing
    BY <1>1, BeginRefreshType, BeginRefreshKeeps DEF BInv
  <2>2. OneExpiry' => ExpiryCall(c)
    BY <1>1, <1>2, <1>4, <2>1
       DEF OneExpiry, ExpiryCall, EarlyCall, OnItsWay, BringsTokens, SaysExpired, RefreshingCall
  <2>3. calls' = [calls EXCEPT ![r] = c]
    BY <1>4 DEF LockGranted
  <2> QED  BY <1>1, <2>1, <2>2, <2>3, ExpiryStep
<1> QED  BY <1>3, <1>4

LEMMA RefreshFailsKeepsExpiry ==
  ASSUME BInv, ExpirySound, NEW r \in Requests, RefreshFails(r)
  PROVE  ExpirySound'
<1> PICK failure : failure = A!RefreshFailure(calls[r].answer)
  OBVIOUS
<1> PICK d : d = Done(calls[r], failure)
  OBVIOUS
<1> PICK c : c = [d EXCEPT !.refreshing = FALSE]
  OBVIOUS
<1>1. /\ calls[r] \in CallType /\ calls[r].pc = "landed" /\ calls[r].refreshing
      /\ calls[r].answer # "ok"
      /\ UNCHANGED <<access, refresh, generation, accepted, expiries, mishaps>>
      /\ calls' = [calls EXCEPT ![r] = c]
  BY DEF BInv, BrokerTyped, RefreshFails, Landed, adapterVars, brokerVars
<1>2. /\ failure \in Outcomes
      /\ OneExpiry => failure = "lost"
  BY <1>1, ExpiryFacts DEF A!RefreshFailure, CallType, Outcomes, ExpiryCall
<1>3. /\ d \in CallType /\ d.pc = "done" /\ d.outcome = failure
      /\ d.last = calls[r].last /\ d.generation = calls[r].generation
  BY <1>1, <1>2 DEF Done, CallType
<1>4. /\ c \in CallType /\ c.pc = "done" /\ ~c.refreshing /\ c.outcome = failure
      /\ c.last = d.last /\ c.generation = d.generation
  BY ONLY <1>3, c = [d EXCEPT !.refreshing = FALSE] DEF CallType
<1>5. OneExpiry' => ExpiryCall(c)
  BY <1>1, <1>2, <1>3, <1>4, ExpiryFacts
     DEF OneExpiry, ExpiryCall, EarlyCall, LateCall, OnItsWay, BringsTokens, SaysExpired,
         RefreshingCall
<1> QED  BY <1>1, <1>4, <1>5, ExpiryStep
\* A call with the token the broker accepts is refused on its merits.
LEMMA RefuseKeepsExpiry ==
  ASSUME BInv, ExpirySound, NEW r \in Requests, NEW answer \in Answers, Refuse(r, answer)
  PROVE  ExpirySound'
<1> PICK c : c = [calls[r] EXCEPT !.pc = "landed", !.answer = answer]
  OBVIOUS
<1>1. /\ calls[r] \in CallType /\ calls[r].pc = "flying" /\ ~calls[r].refreshing
      /\ answer \in RefusedAnswers(calls[r].token)
      /\ UNCHANGED <<access, refresh, generation, accepted, expiries, mishaps>>
  BY DEF BInv, BrokerTyped, Refuse, Flying, adapterVars, brokerVars
<1>2. /\ c \in CallType /\ c.pc = "landed" /\ ~c.refreshing /\ c.answer = answer
      /\ c.outcome = calls[r].outcome /\ c.token = calls[r].token
      /\ c.last = calls[r].last /\ c.generation = calls[r].generation
  BY <1>1 DEF CallType
<1>3. calls' = [calls EXCEPT ![r] = c]
  <2>1. calls' = [calls EXCEPT ![r].pc = "landed", ![r].answer = answer]
    BY DEF Refuse, Lands
  <2> QED  BY <1>1, <2>1 DEF BInv, BrokerTyped
<1>4. answer = "expired" => calls[r].token # accepted
  BY <1>1, AcceptedIsNotExpired DEF BInv, BrokerTyped
<1>5. OneExpiry' => ExpiryCall(c)
  <2> SUFFICES ASSUME OneExpiry'
               PROVE  ExpiryCall(c)
    OBVIOUS
  <2>1. OneExpiry
    BY <1>1 DEF OneExpiry
  <2>2. ExpiryCall(calls[r]) /\ ExpiryTokens
    BY <2>1, ExpiryFacts
  <2>3. CASE generation = 0
    BY <1>1, <1>2, <1>4, <2>2, <2>3
       DEF ExpiryCall, ExpiryTokens, EarlyCall, OnItsWay, BringsTokens, SaysExpired,
           RefreshingCall
  <2>4. CASE generation # 0
    BY <1>1, <1>2, <1>4, <2>2, <2>4
       DEF ExpiryCall, ExpiryTokens, LateCall, OnItsWay, SaysExpired, RefreshingCall
  <2> QED  BY <2>3, <2>4
<1> QED  BY <1>1, <1>2, <1>3, <1>5, ExpiryStep

LEMMA ExecuteKeepsExpiry ==
  ASSUME BInv, ExpirySound, NEW r \in Requests, NEW answer \in Answers, Execute(r, answer)
  PROVE  ExpirySound'
<1> PICK c : c = [calls[r] EXCEPT !.pc = "landed", !.answer = answer]
  OBVIOUS
<1>1. /\ calls[r] \in CallType /\ calls[r].pc = "flying" /\ ~calls[r].refreshing
      /\ answer # "expired"
      /\ UNCHANGED <<access, refresh, generation, accepted, expiries, mishaps>>
  BY DEF BInv, BrokerTyped, Execute, Flying, adapterVars
<1>2. /\ c \in CallType /\ c.pc = "landed" /\ ~c.refreshing /\ c.answer = answer
      /\ c.outcome = calls[r].outcome /\ c.token = calls[r].token
      /\ c.last = calls[r].last /\ c.generation = calls[r].generation
  BY <1>1 DEF CallType
<1>3. calls' = [calls EXCEPT ![r] = c]
  <2>1. calls' = [calls EXCEPT ![r].pc = "landed", ![r].answer = answer]
    BY DEF Execute, Lands
  <2> QED  BY <1>1, <2>1 DEF BInv, BrokerTyped
<1>4. OneExpiry' => ExpiryCall(c)
  BY <1>1, <1>2, ExpiryFacts
     DEF OneExpiry, ExpiryCall, EarlyCall, LateCall, OnItsWay, BringsTokens, SaysExpired,
         RefreshingCall
<1> QED  BY <1>1, <1>2, <1>3, <1>4, ExpiryStep

LEMMA RefuseExchangeKeepsExpiry ==
  ASSUME BInv, ExpirySound, NEW r \in Requests, NEW answer \in Answers,
         RefuseExchange(r, answer)
  PROVE  ExpirySound'
<1> PICK c : c = [calls[r] EXCEPT !.pc = "landed", !.answer = answer]
  OBVIOUS
<1>1. /\ calls[r] \in CallType /\ calls[r].pc = "flying" /\ calls[r].refreshing
      /\ UNCHANGED <<access, refresh, generation, accepted, expiries>>
      /\ mishaps' = mishaps \cup (IF answer = "lost" THEN {} ELSE {"refused"})
  BY DEF BInv, BrokerTyped, RefuseExchange, Flying, adapterVars, brokerVars
<1>2. /\ c \in CallType /\ c.pc = "landed" /\ c.refreshing /\ c.answer = answer
      /\ c.outcome = calls[r].outcome /\ c.token = calls[r].token
      /\ c.last = calls[r].last /\ c.generation = calls[r].generation
  BY <1>1 DEF CallType
<1>3. calls' = [calls EXCEPT ![r] = c]
  <2>1. calls' = [calls EXCEPT ![r].pc = "landed", ![r].answer = answer]
    BY DEF RefuseExchange, Lands
  <2> QED  BY <1>1, <2>1 DEF BInv, BrokerTyped
<1>4. OneExpiry' => ExpiryCall(c)
  <2> SUFFICES ASSUME OneExpiry'
               PROVE  ExpiryCall(c)
    OBVIOUS
  <2>1. answer = "lost" /\ OneExpiry
    BY <1>1 DEF OneExpiry
  <2> QED
    BY <1>1, <1>2, <2>1, ExpiryFacts
       DEF ExpiryCall, EarlyCall, LateCall, OnItsWay, BringsTokens, SaysExpired, RefreshingCall
<1>5. mishaps \subseteq mishaps'
  BY <1>1
<1> QED  BY <1>1, <1>2, <1>3, <1>4, <1>5, ExpiryStep

\* The one refresh gets its tokens: nobody else is refreshing.
LEMMA ExchangeKeepsExpiry ==
  ASSUME BInv, ExpirySound, NEW r \in Requests, NEW answer \in Answers, Exchange(r, answer)
  PROVE  ExpirySound'
<1> PICK t : t = IF answer = "ok" THEN spendable + 1 ELSE calls[r].token
  OBVIOUS
<1> PICK c : c = [calls[r] EXCEPT !.pc = "landed", !.answer = answer, !.token = t]
  OBVIOUS
<1>1. /\ calls[r] \in CallType /\ calls[r].pc = "flying" /\ calls[r].refreshing
      /\ UNCHANGED <<access, refresh, generation, expiries>>
      /\ accepted' = spendable + 1
      /\ mishaps' = mishaps \cup (IF answer = "ok" THEN {} ELSE {"lost_tokens"})
  BY DEF BInv, BrokerTyped, Exchange, Flying, adapterVars
<1>2. t \in Nat
  BY <1>1 DEF BInv, BrokerTyped, CallType
<1>3. /\ c \in CallType /\ c.pc = "landed" /\ c.refreshing /\ c.answer = answer
      /\ c.outcome = calls[r].outcome /\ c.token = t
      /\ c.last = calls[r].last /\ c.generation = calls[r].generation
  BY ONLY <1>1, <1>2, answer \in Answers,
     c = [calls[r] EXCEPT !.pc = "landed", !.answer = answer, !.token = t] DEF CallType
<1>4. calls' = [calls EXCEPT ![r] = c]
  <2>1. calls' = [calls EXCEPT ![r].pc = "landed", ![r].answer = answer,
                               ![r].token = IF answer = "ok" THEN spendable + 1 ELSE @]
    BY DEF Exchange
  <2> QED  BY <1>1, <2>1 DEF BInv, BrokerTyped
<1>5. /\ calls'[r] = c
      /\ \A q \in Requests : q # r => calls'[q] = calls[q]
  BY <1>3, <1>4, OneCall DEF BInv
<1>6. \A q \in Requests : q # r => ~RefreshingCall(calls[q])
  BY <1>1 DEF BInv, LockSound, RefreshingCall
<1>7. \A q \in Requests : ~BringsTokens(calls[q])
  BY <1>1, <1>6 DEF RefreshingCall, BringsTokens
<1> SUFFICES ASSUME OneExpiry'
             PROVE  ExpiryTokens' /\ \A q \in Requests : ExpiryCall(calls[q])'
  BY <1>1 DEF ExpirySound
<1>8. answer = "ok" /\ OneExpiry
  BY <1>1 DEF OneExpiry
<1>9. /\ ExpiryCall(calls[r]) /\ ExpiryTokens
      /\ access \in Nat /\ spendable \in Nat /\ accepted \in Nat
  BY <1>8, ExpiryFacts
<1>10. generation = 0 /\ expiries # 0 /\ ~calls[r].last
  BY <1>1, <1>9 DEF ExpiryCall, EarlyCall, LateCall, RefreshingCall
<1>11. spendable = access
  <2>1. "lost_tokens" \notin mishaps
    BY <1>8 DEF OneExpiry
  <2> QED  BY <1>7, <1>9, <1>10, <2>1, NobodyRefreshes DEF ExpiryTokens
<1>12. ExpiryTokens'
  BY <1>1, <1>9, <1>10 DEF ExpiryTokens
<1>13. ExpiryCall(calls[r])'
  <2>1. c.token = accepted' /\ accepted' > access
    BY <1>1, <1>2, <1>3, <1>8, <1>9, <1>11
  <2> QED
    BY <1>1, <1>3, <1>5, <1>8, <1>9, <1>10, <2>1
       DEF ExpiryCall, EarlyCall, OnItsWay, BringsTokens, SaysExpired, RefreshingCall
<1>14. ASSUME NEW q \in Requests, q # r
       PROVE  ExpiryCall(calls[q])'
  <2>1. ExpiryCall(calls[q]) /\ calls'[q] = calls[q] /\ ~BringsTokens(calls[q])
    BY <1>5, <1>7, <1>8, <1>14, ExpiryFacts
  <2> QED
    BY <1>1, <1>10, <2>1
       DEF ExpiryCall, EarlyCall, OnItsWay, BringsTokens, SaysExpired, RefreshingCall
<1> QED  BY <1>12, <1>13, <1>14
\* The first refresh is the last: from here on the tokens of the login are old.
LEMMA RefreshedKeepsExpiry ==
  ASSUME BInv, ExpirySound, NEW r \in Requests, Refreshed(r)
  PROVE  ExpirySound'
<1> PICK issued : issued = calls[r].token
  OBVIOUS
<1> PICK d : d = SendsAgain(r, calls[r])
  OBVIOUS
<1> PICK c : c = [d EXCEPT !.token = issued]
  OBVIOUS
<1>1. /\ calls[r] \in CallType /\ BringsTokens(calls[r]) /\ calls[r].refreshing
      /\ calls[r].pc = "landed"
      /\ calls' = [calls EXCEPT ![r] = c]
      /\ access' = issued /\ refresh' = issued /\ generation' = generation + 1
      /\ UNCHANGED <<accepted, expiries, mishaps>>
  BY DEF BInv, BrokerTyped, Refreshed, Landed, BringsTokens, brokerVars
<1>2. issued \in Nat
  BY <1>1 DEF CallType
<1>3. /\ d \in CallType /\ d.pc = "flying" /\ ~d.refreshing /\ d.outcome = calls[r].outcome
      /\ d.last /\ d.generation = calls[r].generation
  BY <1>1, SendsAgainType, SendsAgainKeeps DEF BInv
<1>4. /\ c \in CallType /\ c.pc = "flying" /\ ~c.refreshing /\ c.outcome = calls[r].outcome
      /\ c.last /\ c.generation = calls[r].generation /\ c.token = issued
  BY ONLY <1>2, <1>3, c = [d EXCEPT !.token = issued] DEF CallType
<1>5. /\ calls'[r] = c
      /\ \A q \in Requests : q # r => calls'[q] = calls[q]
  BY <1>1, <1>4, OneCall DEF BInv
<1>6. \A q \in Requests : q # r => ~RefreshingCall(calls[q])
  BY <1>1 DEF BInv, LockSound, RefreshingCall
<1> SUFFICES ASSUME OneExpiry'
             PROVE  ExpiryTokens' /\ \A q \in Requests : ExpiryCall(calls[q])'
  BY <1>1 DEF ExpirySound
<1>7. OneExpiry
  BY <1>1 DEF OneExpiry
<1>8. /\ ExpiryCall(calls[r]) /\ ExpiryTokens
      /\ access \in Nat /\ accepted \in Nat
  BY <1>7, ExpiryFacts
<1>9. generation = 0 /\ expiries # 0 /\ issued = accepted /\ accepted > access
  BY <1>1, <1>8 DEF ExpiryCall, EarlyCall, LateCall, RefreshingCall
<1>10. generation' # 0 /\ access' # access
  BY <1>1, <1>8, <1>9
<1>11. ExpiryTokens'
  BY <1>1, <1>9, <1>10 DEF ExpiryTokens
<1>12. ExpiryCall(calls[r])'
  BY <1>1, <1>4, <1>5, <1>8, <1>10
     DEF ExpiryCall, LateCall, OnItsWay, SaysExpired, RefreshingCall
<1>13. ASSUME NEW q \in Requests, q # r
       PROVE  ExpiryCall(calls[q])'
  <2>1. ExpiryCall(calls[q]) /\ calls'[q] = calls[q] /\ ~RefreshingCall(calls[q])
    BY <1>5, <1>6, <1>7, <1>13, ExpiryFacts
  <2> QED
    BY <1>9, <1>10, <2>1 DEF ExpiryCall, EarlyCall, LateCall, OnItsWay, SaysExpired
<1> QED  BY <1>11, <1>12, <1>13

\* The first expiry finds nobody refreshing; of a second nothing is said.
LEMMA ExpireKeepsExpiry ==
  ASSUME BInv, ExpirySound, Expire
  PROVE  ExpirySound'
<1>1. /\ UNCHANGED <<calls, access, refresh, generation, mishaps>>
      /\ accepted' = 0 /\ expiries' = expiries + 1
      /\ expiries \in Nat
  BY DEF Expire, adapterVars, ExpirySound
<1> SUFFICES ASSUME OneExpiry'
             PROVE  ExpiryTokens' /\ \A q \in Requests : ExpiryCall(calls[q])'
  BY <1>1 DEF ExpirySound
<1>2. OneExpiry /\ expiries = 0 /\ expiries' # 0
  BY <1>1 DEF OneExpiry
<1>3. ExpiryTokens
  BY <1>2 DEF ExpirySound
<1>4. generation = 0 /\ refresh = access
  BY <1>2, <1>3 DEF ExpiryTokens
<1>5. ExpiryTokens'
  BY <1>1, <1>2, <1>4 DEF ExpiryTokens
<1>6. ASSUME NEW q \in Requests
      PROVE  ExpiryCall(calls[q])'
  <2>1. ExpiryCall(calls[q])
    BY <1>2, <1>6 DEF ExpirySound
  <2>2. ~BringsTokens(calls[q])
    BY <1>2, <1>4, <2>1 DEF ExpiryCall, EarlyCall, BringsTokens, RefreshingCall
  <2> QED
    BY <1>1, <1>2, <1>4, <2>1, <2>2
       DEF ExpiryCall, EarlyCall, OnItsWay, BringsTokens, SaysExpired, RefreshingCall
<1> QED  BY <1>5, <1>6

LEMMA InitExpiry == Init => ExpirySound
<1> SUFFICES ASSUME Init
             PROVE  ExpirySound
  OBVIOUS
<1> USE DEF Init, HttpInit
<1>1. /\ NewCall.pc = "new" /\ ~NewCall.refreshing /\ ~NewCall.last
      /\ NewCall.outcome = "none" /\ NewCall.generation = 0
  BY DEF NewCall
<1>2. \A r \in Requests : calls[r] = NewCall
  OBVIOUS
<1>3. generation = 0 /\ expiries = 0 /\ refresh = access /\ accepted = access
  OBVIOUS
<1>4. \A r \in Requests : ExpiryCall(calls[r])
  BY <1>1, <1>2, <1>3
     DEF ExpiryCall, EarlyCall, OnItsWay, BringsTokens, SaysExpired, RefreshingCall
<1>5. ExpiryTokens
  BY <1>3 DEF ExpiryTokens
<1> QED  BY <1>3, <1>4, <1>5 DEF ExpirySound

LEMMA NextExpiry == BInv /\ ExpirySound /\ [Next]_ordersVars => ExpirySound'
<1> SUFFICES ASSUME BInv, ExpirySound, [Next]_ordersVars
             PROVE  ExpirySound'
  OBVIOUS
<1>1. ASSUME NEW r \in Requests, Submit(r) \/ SubmitRaises(r)
      PROVE  ExpirySound'
  BY <1>1, SubmitKeepsExpiry
<1>2. ASSUME NEW r \in Requests, Proceeds(r)
      PROVE  ExpirySound'
  BY <1>2, RetriesKeepExpiry, BackoffEndsKeepsExpiry, ReturnsKeepsExpiry,
     TokenExpiredKeepsExpiry, LockGrantedKeepsExpiry, RefreshedKeepsExpiry,
     RefreshFailsKeepsExpiry DEF Proceeds
<1>3. ASSUME NEW r \in Requests, BrokerAnswers(r)
      PROVE  ExpirySound'
  <2>1. PICK answer \in {"ok", "garbled", "lost", "refusal", "rejected", "expired"} :
          \/ Execute(r, answer) \/ Refuse(r, answer)
          \/ Exchange(r, answer) \/ RefuseExchange(r, answer)
    BY <1>3 DEF BrokerAnswers
  <2>2. answer \in Answers
    BY <2>1 DEF Answers
  <2> QED
    BY <2>1, <2>2, ExecuteKeepsExpiry, RefuseKeepsExpiry, ExchangeKeepsExpiry,
       RefuseExchangeKeepsExpiry
<1>4. CASE Expire
  BY <1>4, ExpireKeepsExpiry
<1>5. CASE UNCHANGED ordersVars
  BY <1>5
     DEF ordersVars, httpVars, adapterVars, brokerVars, ExpirySound, OneExpiry, ExpiryTokens,
         ExpiryCall, EarlyCall, LateCall
<1> QED  BY <1>1, <1>2, <1>3, <1>4, <1>5 DEF Next

\* While the access token expires once and the refresh loses nothing, no
\* request is told that its token has expired: _refresh_token_coalesced gives
\* each the new token, whichever of them refreshes it.
THEOREM ExpiryStaysRecovered == Spec => []ExpiryIsRecovered
<1>1. Init => BInv /\ ExpirySound
  BY InitBInv, InitExpiry
<1>2. BInv /\ ExpirySound /\ [Next]_ordersVars => (BInv /\ ExpirySound)'
  BY NextBInv, NextExpiry
<1>3. BInv /\ ExpirySound => ExpiryIsRecovered
  <2> SUFFICES ASSUME ExpirySound, NEW r \in Requests, calls[r].outcome = "expired",
                      ~(expiries > 1), mishaps = {}
               PROVE  FALSE
    BY DEF ExpiryIsRecovered
  <2>1. OneExpiry
    BY DEF ExpirySound, OneExpiry
  <2> QED  BY <2>1 DEF ExpirySound, ExpiryCall
<1> QED  BY <1>1, <1>2, <1>3, PTL DEF Spec
-----------------------------------------------------------------------------
(***************************************************************************)
(* What was asked for is read back: the words an adapter sends are ones it *)
(* reads, and reads as what they were sent for.                            *)
(***************************************************************************)
\* A dict: no key has two values.
Dict(pairs) == \A p, q \in pairs : p[1] = q[1] => p[2] = q[2]

\* Each word of `to` is a key of `from`.
ReadsBack(to, from) == \A p \in to : <<p[2], p[1]>> \in from

LEMMA SentIs ==
  ASSUME NEW value
  PROVE  Sent({value}) = value
BY DEF Sent

\* The word for a key that has one is read as that key.
LEMMA RoundTrip ==
  ASSUME NEW to, NEW from, Dict(to), Dict(from), ReadsBack(to, from),
         NEW key, Lookup(to, key) # {}
  PROVE  Lookup(from, Sent(Lookup(to, key))) = {key}
<1>1. PICK p \in to : p[1] = key
  BY DEF Lookup
<1>2. Lookup(to, key) = {p[2]}
  BY <1>1 DEF Lookup, Dict
<1>3. Sent(Lookup(to, key)) = p[2]
  BY <1>2 DEF Sent
<1>4. <<p[2], key>> \in from
  BY <1>1 DEF ReadsBack
<1> PICK pair : pair = <<p[2], key>>
  OBVIOUS
<1>5. pair \in from /\ pair[1] = p[2] /\ pair[2] = key
  BY <1>4
<1>6. Lookup(from, p[2]) = {key}
  BY <1>5 DEF Lookup, Dict
<1> QED  BY <1>3, <1>6

\* The names of the order types have one inverse.
LEMMA TypeRoundTrip ==
  ASSUME NEW to, Dict(to), Dict(InverseOf(to)), ReadsBack(to, InverseOf(to)),
         NEW type, Lookup(to, type) # {}
  PROVE  Get(InverseOf(to), Sent(Lookup(to, type)), "MARKET") = type
<1>1. Lookup(InverseOf(to), Sent(Lookup(to, type))) = {type}
  BY RoundTrip
<1> QED  BY <1>1 DEF Get

LEMMA HasWord ==
  ASSUME NEW dict, NEW key, NEW word, <<key, word>> \in dict
  PROVE  Lookup(dict, key) # {}
<1> PICK pair : pair = <<key, word>>
  OBVIOUS
<1>1. pair \in dict /\ pair[1] = key
  OBVIOUS
<1> QED  BY <1>1 DEF Lookup

\* The tables of an adapter: its names of the products, what it reads as a
\* product, and its names of the order types, of which none is missing.
Tables(productTo, productFrom, typeTo) ==
    /\ Dict(productTo) /\ Dict(productFrom) /\ ReadsBack(productTo, productFrom)
    /\ Dict(typeTo) /\ Dict(InverseOf(typeTo)) /\ ReadsBack(typeTo, InverseOf(typeTo))
    /\ \A type \in OrderTypes : Lookup(typeTo, type) # {}

LEMMA AngelOneTables == Tables(A!ProductTo, A!ProductFrom, A!OrderTypeTo)
<1>1. Dict(A!ProductTo)
  BY DEF Dict, A!ProductTo
<1>2. Dict(A!ProductFrom)
  BY DEF Dict, A!ProductFrom
<1>3. ReadsBack(A!ProductTo, A!ProductFrom)
  BY DEF ReadsBack, A!ProductTo, A!ProductFrom
<1>4. Dict(A!OrderTypeTo) /\ Dict(InverseOf(A!OrderTypeTo))
  BY DEF Dict, InverseOf, A!OrderTypeTo
<1>5. ReadsBack(A!OrderTypeTo, InverseOf(A!OrderTypeTo))
  BY DEF ReadsBack, InverseOf
<1>6. /\ <<"MARKET", "MARKET">> \in A!OrderTypeTo
      /\ <<"LIMIT", "LIMIT">> \in A!OrderTypeTo
      /\ <<"STOP_LOSS", "STOPLOSS_LIMIT">> \in A!OrderTypeTo
      /\ <<"STOP_LOSS_MARKET", "STOPLOSS_MARKET">> \in A!OrderTypeTo
  BY DEF A!OrderTypeTo
<1>7. \A type \in OrderTypes : Lookup(A!OrderTypeTo, type) # {}
  BY <1>6, HasWord DEF OrderTypes
<1> QED  BY <1>1, <1>2, <1>3, <1>4, <1>5, <1>7 DEF Tables

LEMMA UpstoxTables == Tables(U!ProductTo, U!ProductFrom, U!OrderTypeTo)
<1>1. U!ProductTo = {<<"DELIVERY", "D">>, <<"INTRADAY", "I">>, <<"MARGIN", "MTF">>,
                     <<"COVER_ORDER", "CO">>}
  BY DEF U!ProductTo, U!ProductFrom, U!InverseOf
<1>2. Dict(U!ProductTo)
  BY <1>1 DEF Dict
<1>3. Dict(U!ProductFrom)
  BY DEF Dict, U!ProductFrom
<1>4. ReadsBack(U!ProductTo, U!ProductFrom)
  BY <1>1 DEF ReadsBack, U!ProductFrom
<1>5. Dict(U!OrderTypeTo) /\ Dict(InverseOf(U!OrderTypeTo))
  BY DEF Dict, InverseOf, U!OrderTypeTo
<1>6. ReadsBack(U!OrderTypeTo, InverseOf(U!OrderTypeTo))
  BY DEF ReadsBack, InverseOf
<1>7. /\ <<"MARKET", "MARKET">> \in U!OrderTypeTo /\ <<"LIMIT", "LIMIT">> \in U!OrderTypeTo
      /\ <<"STOP_LOSS", "SL">> \in U!OrderTypeTo
      /\ <<"STOP_LOSS_MARKET", "SL-M">> \in U!OrderTypeTo
  BY DEF U!OrderTypeTo
<1>8. \A type \in OrderTypes : Lookup(U!OrderTypeTo, type) # {}
  BY <1>7, HasWord DEF OrderTypes
<1> QED  BY <1>2, <1>3, <1>4, <1>5, <1>6, <1>8 DEF Tables

LEMMA ZerodhaTables == Tables(Z!ProductTo, Z!ProductFrom, Z!OrderTypeTo)
<1>1. Z!ProductTo = {<<"DELIVERY", "CNC">>, <<"INTRADAY", "MIS">>, <<"MARGIN", "NRML">>}
  BY DEF Z!ProductTo, Z!ProductFrom, Z!InverseOf
<1>2. Dict(Z!ProductTo)
  BY <1>1 DEF Dict
<1>3. Dict(Z!ProductFrom)
  BY DEF Dict, Z!ProductFrom
<1>4. ReadsBack(Z!ProductTo, Z!ProductFrom)
  BY <1>1 DEF ReadsBack, Z!ProductFrom
<1>5. Dict(Z!OrderTypeTo) /\ Dict(InverseOf(Z!OrderTypeTo))
  BY DEF Dict, InverseOf, Z!OrderTypeTo
<1>6. ReadsBack(Z!OrderTypeTo, InverseOf(Z!OrderTypeTo))
  BY DEF ReadsBack, InverseOf
<1>7. /\ <<"MARKET", "MARKET">> \in Z!OrderTypeTo /\ <<"LIMIT", "LIMIT">> \in Z!OrderTypeTo
      /\ <<"STOP_LOSS", "SL">> \in Z!OrderTypeTo
      /\ <<"STOP_LOSS_MARKET", "SL-M">> \in Z!OrderTypeTo
  BY DEF Z!OrderTypeTo
<1>8. \A type \in OrderTypes : Lookup(Z!OrderTypeTo, type) # {}
  BY <1>7, HasWord DEF OrderTypes
<1> QED  BY <1>2, <1>3, <1>4, <1>5, <1>6, <1>8 DEF Tables

\* A row with the words an order was sent with.
AskedRow(row, order, productTo, typeTo) ==
    /\ row.product = Sent(Lookup(productTo, order.product))
    /\ row.type = Sent(Lookup(typeTo, order.type))
    /\ row.price = order.price

\* What the tables make of a row.
LEMMA RowIsRead ==
  ASSUME NEW productTo, NEW productFrom, NEW typeTo, Tables(productTo, productFrom, typeTo),
         NEW order \in OrderRequest, Lookup(productTo, order.product) # {},
         NEW row, AskedRow(row, order, productTo, typeTo)
  PROVE  /\ Lookup(productFrom, row.product) = {order.product}
         /\ Get(InverseOf(typeTo), row.type, "MARKET") = order.type
         /\ row.price = order.price
<1>1. Lookup(typeTo, order.type) # {}
  BY DEF Tables, OrderRequest
<1>2. Get(InverseOf(typeTo), Sent(Lookup(typeTo, order.type)), "MARKET") = order.type
  BY <1>1, TypeRoundTrip DEF Tables
<1>3. Lookup(productFrom, Sent(Lookup(productTo, order.product))) = {order.product}
  BY RoundTrip DEF Tables
<1> QED  BY <1>2, <1>3 DEF AskedRow

ProductTo == Adapter(vendor, A!ProductTo, U!ProductTo, Z!ProductTo)
ProductFrom == Adapter(vendor, A!ProductFrom, U!ProductFrom, Z!ProductFrom)
TypeTo == Adapter(vendor, A!OrderTypeTo, U!OrderTypeTo, Z!OrderTypeTo)

\* What a payload sends of an order but for the product, and what is read of a
\* row, by the same tables.
SendsTypeAndPrice(payload, order) ==
    /\ payload.type = Lookup(TypeTo, order.type)
    /\ payload.price \in {{order.price}, Given(order.price)}

ReadsByTables ==
    \A row : \A product \in Lookup(ProductFrom, row.product) :
      /\ \E detail \in ReadOrder(vendor, row) :
           /\ detail.product = product
           /\ detail.type = Get(InverseOf(TypeTo), row.type, "MARKET")
           /\ detail.price = row.price
      /\ \E position \in ReadPosition(vendor, row) : position.product = product

SendsByTables ==
    \A order \in OrderRequest :
      /\ PlacePayload(vendor, order).product = Lookup(ProductTo, order.product)
      /\ SendsTypeAndPrice(PlacePayload(vendor, order), order)
      /\ SendsTypeAndPrice(ModifyPayload(vendor, order), order)
      /\ BuildError(vendor, "place", order) = {} => Lookup(ProductTo, order.product) # {}

\* Each adapter sends and reads by its tables.
LEMMA AngelOneByTables ==
  ASSUME vendor = "angel_one"
  PROVE  Tables(ProductTo, ProductFrom, TypeTo) /\ ReadsByTables /\ SendsByTables
<1>1. ProductTo = A!ProductTo /\ ProductFrom = A!ProductFrom /\ TypeTo = A!OrderTypeTo
  BY DEF ProductTo, ProductFrom, TypeTo, Adapter
<1>2. \A dict, key : A!Lookup(dict, key) = Lookup(dict, key)
  BY DEF Lookup, A!Lookup
<1>3. \A dict, key, default : A!Get(dict, key, default) = Get(dict, key, default)
  BY DEF Get, A!Get, Lookup, A!Lookup
<1>4. \A dict : A!InverseOf(dict) = InverseOf(dict)
  BY DEF InverseOf, A!InverseOf
<1>5. ReadsByTables
  <2> SUFFICES ASSUME NEW row, NEW product \in Lookup(ProductFrom, row.product)
               PROVE  /\ \E detail \in ReadOrder(vendor, row) :
                           /\ detail.product = product
                           /\ detail.type = Get(InverseOf(TypeTo), row.type, "MARKET")
                           /\ detail.price = row.price
                      /\ \E position \in ReadPosition(vendor, row) : position.product = product
    BY DEF ReadsByTables
  <2>1. product \in A!Lookup(A!ProductFrom, row.product)
    BY <1>1, <1>2
  <2>2. ReadOrder(vendor, row) = A!ReadOrder(row) /\ ReadPosition(vendor, row) = A!ReadPosition(row)
    BY DEF ReadOrder, ReadPosition, Adapter
  <2>3. PICK type : type = A!Get(A!InverseOf(A!OrderTypeTo), row.type, "MARKET")
    OBVIOUS
  <2>4. type = Get(InverseOf(TypeTo), row.type, "MARKET")
    BY <1>1, <1>3, <1>4, <2>3
  <2>5. \E detail \in A!ReadOrder(row) :
           detail.product = product /\ detail.type = type /\ detail.price = row.price
    <3>1. PICK status : status = A!Get(A!StatusFrom, row.status, "UNKNOWN")
      OBVIOUS
    <3>2. PICK detail : detail = [product |-> product, price |-> row.price, type |-> type,
                                  status |-> status]
      OBVIOUS
    <3>3. detail \in A!ReadOrder(row)
      BY <2>1, <2>3, <3>1, <3>2, Zenon DEF A!ReadOrder
    <3> QED  BY <3>2, <3>3
  <2>6. \E position \in A!ReadPosition(row) : position.product = product
    <3>1. PICK position : position = [product |-> product, quantity |-> row.quantity,
                                      pnl |-> A!PnlOf(row)]
      OBVIOUS
    <3>2. position \in A!ReadPosition(row)
      BY <2>1, <3>1, Zenon DEF A!ReadPosition
    <3> QED  BY <3>1, <3>2
  <2> QED  BY <2>2, <2>4, <2>5, <2>6
<1>6. SendsByTables
  <2> SUFFICES ASSUME NEW order \in OrderRequest
               PROVE  /\ PlacePayload(vendor, order).product = Lookup(ProductTo, order.product)
                      /\ SendsTypeAndPrice(PlacePayload(vendor, order), order)
                      /\ SendsTypeAndPrice(ModifyPayload(vendor, order), order)
                      /\ BuildError(vendor, "place", order) = {}
                           => Lookup(ProductTo, order.product) # {}
    BY DEF SendsByTables
  <2>1. /\ PlacePayload(vendor, order) = A!PlacePayload(order)
        /\ ModifyPayload(vendor, order) = A!ModifyPayload(order)
        /\ BuildError(vendor, "place", order) = A!PlaceError(order)
    BY DEF PlacePayload, ModifyPayload, BuildError, Adapter
  <2>2. A!OrZero(order.price) = {order.price}
    BY DEF A!OrZero
  <2>3. /\ A!PlacePayload(order).product = A!Lookup(A!ProductTo, order.product)
        /\ A!PlacePayload(order).type = A!Lookup(A!OrderTypeTo, order.type)
        /\ A!PlacePayload(order).price = A!OrZero(order.price)
    BY DEF A!PlacePayload
  <2>4. /\ A!ModifyPayload(order).type = A!PlacePayload(order).type
        /\ A!ModifyPayload(order).price = A!PlacePayload(order).price
    BY DEF A!ModifyPayload, A!PlacePayload
  <2>5. A!Lookup(A!ProductTo, order.product) # {}
    <3>1. /\ <<"DELIVERY", "DELIVERY">> \in A!ProductTo
          /\ <<"INTRADAY", "INTRADAY">> \in A!ProductTo
          /\ <<"MARGIN", "CARRYFORWARD">> \in A!ProductTo
          /\ <<"BRACKET_ORDER", "BO">> \in A!ProductTo
          /\ <<"COVER_ORDER", "CO">> \in A!ProductTo
      BY DEF A!ProductTo
    <3>2. \A product \in Products : Lookup(A!ProductTo, product) # {}
      BY <3>1, HasWord DEF Products
    <3> QED  BY <1>2, <3>2 DEF OrderRequest
  <2> QED  BY <1>1, <1>2, <2>1, <2>2, <2>3, <2>4, <2>5 DEF SendsTypeAndPrice
<1> QED  BY <1>1, <1>5, <1>6, AngelOneTables

LEMMA UpstoxByTables ==
  ASSUME vendor = "upstox"
  PROVE  Tables(ProductTo, ProductFrom, TypeTo) /\ ReadsByTables /\ SendsByTables
<1>1. ProductTo = U!ProductTo /\ ProductFrom = U!ProductFrom /\ TypeTo = U!OrderTypeTo
  BY DEF ProductTo, ProductFrom, TypeTo, Adapter
<1>2. \A dict, key : U!Lookup(dict, key) = Lookup(dict, key)
  BY DEF Lookup, U!Lookup
<1>3. \A dict, key, default : U!Get(dict, key, default) = Get(dict, key, default)
  BY DEF Get, U!Get, Lookup, U!Lookup
<1>4. \A dict : U!InverseOf(dict) = InverseOf(dict)
  BY DEF InverseOf, U!InverseOf
<1>5. ReadsByTables
  <2> SUFFICES ASSUME NEW row, NEW product \in Lookup(ProductFrom, row.product)
               PROVE  /\ \E detail \in ReadOrder(vendor, row) :
                           /\ detail.product = product
                           /\ detail.type = Get(InverseOf(TypeTo), row.type, "MARKET")
                           /\ detail.price = row.price
                      /\ \E position \in ReadPosition(vendor, row) : position.product = product
    BY DEF ReadsByTables
  <2>1. product \in U!Lookup(U!ProductFrom, row.product)
    BY <1>1, <1>2
  <2>2. ReadOrder(vendor, row) = U!ReadOrder(row) /\ ReadPosition(vendor, row) = U!ReadPosition(row)
    BY DEF ReadOrder, ReadPosition, Adapter
  <2>3. PICK type : type = U!Get(U!InverseOf(U!OrderTypeTo), row.type, "MARKET")
    OBVIOUS
  <2>4. type = Get(InverseOf(TypeTo), row.type, "MARKET")
    BY <1>1, <1>3, <1>4, <2>3
  <2>5. \E detail \in U!ReadOrder(row) :
           detail.product = product /\ detail.type = type /\ detail.price = row.price
    <3>1. PICK status : status = U!Get(U!StatusFrom, row.status, "UNKNOWN")
      OBVIOUS
    <3>2. PICK detail : detail = [product |-> product, price |-> row.price, type |-> type,
                                  status |-> status]
      OBVIOUS
    <3>3. detail \in U!ReadOrder(row)
      BY <2>1, <2>3, <3>1, <3>2, Zenon DEF U!ReadOrder
    <3> QED  BY <3>2, <3>3
  <2>6. \E position \in U!ReadPosition(row) : position.product = product
    <3>1. PICK position : position = [product |-> product, quantity |-> row.quantity]
      OBVIOUS
    <3>2. position \in U!ReadPosition(row)
      BY <2>1, <3>1, Zenon DEF U!ReadPosition
    <3> QED  BY <3>1, <3>2
  <2> QED  BY <2>2, <2>4, <2>5, <2>6
<1>6. SendsByTables
  <2> SUFFICES ASSUME NEW order \in OrderRequest
               PROVE  /\ PlacePayload(vendor, order).product = Lookup(ProductTo, order.product)
                      /\ SendsTypeAndPrice(PlacePayload(vendor, order), order)
                      /\ SendsTypeAndPrice(ModifyPayload(vendor, order), order)
                      /\ BuildError(vendor, "place", order) = {}
                           => Lookup(ProductTo, order.product) # {}
    BY DEF SendsByTables
  <2>1. /\ PlacePayload(vendor, order) = U!PlacePayload(order)
        /\ ModifyPayload(vendor, order) = U!ModifyPayload(order)
        /\ BuildError(vendor, "place", order) = U!PlaceError(order)
    BY DEF PlacePayload, ModifyPayload, BuildError, Adapter
  <2>2. U!OrZero(order.price) = {order.price}
    BY DEF U!OrZero
  <2>3. /\ U!PlacePayload(order).product = U!Lookup(U!ProductTo, order.product)
        /\ U!PlacePayload(order).type = U!Lookup(U!OrderTypeTo, order.type)
        /\ U!PlacePayload(order).price = U!OrZero(order.price)
    BY DEF U!PlacePayload
  <2>4. /\ U!ModifyPayload(order).type = U!PlacePayload(order).type
        /\ U!ModifyPayload(order).price = U!PlacePayload(order).price
    BY DEF U!ModifyPayload, U!PlacePayload
  <2>5. U!PlaceError(order) = {} => U!Lookup(U!ProductTo, order.product) # {}
    BY DEF U!PlaceError
  <2> QED  BY <1>1, <1>2, <2>1, <2>2, <2>3, <2>4, <2>5 DEF SendsTypeAndPrice
<1> QED  BY <1>1, <1>5, <1>6, UpstoxTables

LEMMA ZerodhaByTables ==
  ASSUME vendor = "zerodha"
  PROVE  Tables(ProductTo, ProductFrom, TypeTo) /\ ReadsByTables /\ SendsByTables
<1>1. ProductTo = Z!ProductTo /\ ProductFrom = Z!ProductFrom /\ TypeTo = Z!OrderTypeTo
  BY DEF ProductTo, ProductFrom, TypeTo, Adapter
<1>2. \A dict, key : Z!Lookup(dict, key) = Lookup(dict, key)
  BY DEF Lookup, Z!Lookup
<1>3. \A dict, key, default : Z!Get(dict, key, default) = Get(dict, key, default)
  BY DEF Get, Z!Get, Lookup, Z!Lookup
<1>4. \A dict : Z!InverseOf(dict) = InverseOf(dict)
  BY DEF InverseOf, Z!InverseOf
<1>5. ReadsByTables
  <2> SUFFICES ASSUME NEW row, NEW product \in Lookup(ProductFrom, row.product)
               PROVE  /\ \E detail \in ReadOrder(vendor, row) :
                           /\ detail.product = product
                           /\ detail.type = Get(InverseOf(TypeTo), row.type, "MARKET")
                           /\ detail.price = row.price
                      /\ \E position \in ReadPosition(vendor, row) : position.product = product
    BY DEF ReadsByTables
  <2>1. product \in Z!Lookup(Z!ProductFrom, row.product)
    BY <1>1, <1>2
  <2>2. ReadOrder(vendor, row) = Z!ReadOrder(row) /\ ReadPosition(vendor, row) = Z!ReadPosition(row)
    BY DEF ReadOrder, ReadPosition, Adapter
  <2>3. PICK type : type = Z!Get(Z!InverseOf(Z!OrderTypeTo), row.type, "MARKET")
    OBVIOUS
  <2>4. type = Get(InverseOf(TypeTo), row.type, "MARKET")
    BY <1>1, <1>3, <1>4, <2>3
  <2>5. \E detail \in Z!ReadOrder(row) :
           detail.product = product /\ detail.type = type /\ detail.price = row.price
    <3>1. PICK status : status = Z!Get(Z!StatusFrom, row.status, "UNKNOWN")
      OBVIOUS
    <3>2. PICK detail : detail = [product |-> product, price |-> row.price, type |-> type,
                                  status |-> status]
      OBVIOUS
    <3>3. detail \in Z!ReadOrder(row)
      BY <2>1, <2>3, <3>1, <3>2, Zenon DEF Z!ReadOrder
    <3> QED  BY <3>2, <3>3
  <2>6. \E position \in Z!ReadPosition(row) : position.product = product
    <3>1. PICK position : position = [product |-> product, quantity |-> row.quantity]
      OBVIOUS
    <3>2. position \in Z!ReadPosition(row)
      BY <2>1, <3>1, Zenon DEF Z!ReadPosition
    <3> QED  BY <3>1, <3>2
  <2> QED  BY <2>2, <2>4, <2>5, <2>6
<1>6. SendsByTables
  <2> SUFFICES ASSUME NEW order \in OrderRequest
               PROVE  /\ PlacePayload(vendor, order).product = Lookup(ProductTo, order.product)
                      /\ SendsTypeAndPrice(PlacePayload(vendor, order), order)
                      /\ SendsTypeAndPrice(ModifyPayload(vendor, order), order)
                      /\ BuildError(vendor, "place", order) = {}
                           => Lookup(ProductTo, order.product) # {}
    BY DEF SendsByTables
  <2>1. /\ PlacePayload(vendor, order) = Z!PlacePayload(order)
        /\ ModifyPayload(vendor, order) = Z!ModifyPayload(order)
        /\ BuildError(vendor, "place", order) = Z!PlaceError(order)
    BY DEF PlacePayload, ModifyPayload, BuildError, Adapter
  <2>2. Z!Given(order.price) = Given(order.price)
    BY DEF Given, Z!Given, None, Z!None
  <2>3. /\ Z!PlacePayload(order).product = Z!Lookup(Z!ProductTo, order.product)
        /\ Z!PlacePayload(order).type = Z!Lookup(Z!OrderTypeTo, order.type)
        /\ Z!PlacePayload(order).price = Z!Given(order.price)
    BY DEF Z!PlacePayload
  <2>4. /\ Z!ModifyPayload(order).type = Z!PlacePayload(order).type
        /\ Z!ModifyPayload(order).price = Z!PlacePayload(order).price
    BY DEF Z!ModifyPayload, Z!PlacePayload
  <2>5. Z!PlaceError(order) = {} => Z!Lookup(Z!ProductTo, order.product) # {}
    BY DEF Z!PlaceError
  <2> QED  BY <1>1, <1>2, <2>1, <2>2, <2>3, <2>4, <2>5 DEF SendsTypeAndPrice
<1> QED  BY <1>1, <1>5, <1>6, ZerodhaTables

LEMMA VendorsGoByTables ==
  ASSUME vendor \in Vendors
  PROVE  Tables(ProductTo, ProductFrom, TypeTo) /\ ReadsByTables /\ SendsByTables
BY AngelOneByTables, UpstoxByTables, ZerodhaByTables DEF Vendors

\* A request that went out built its payload; nobody else's business changes it.
AskSound ==
    /\ ask \in [Requests -> [op : Operations, order : OrderRequest]]
    /\ \A r \in Requests :
         /\ ask[r].op = "modify" => BuildError(vendor, "place", ask[r].order) = {}
         /\ calls[r].pc \notin {"new", "done"} \/ executed[r] > 0 =>
              BuildError(vendor, ask[r].op, ask[r].order) = {}

\* A step of one request that has been sent, or is being sent.
LEMMA AskStep ==
  ASSUME BInv, AskSound, NEW r \in Requests, NEW c, calls' = [calls EXCEPT ![r] = c],
         UNCHANGED <<vendor, ask>>,
         \A q \in Requests : q # r => executed'[q] = executed[q],
         \/ BuildError(vendor, ask[r].op, ask[r].order) = {}
         \/ c.pc = "done" /\ executed'[r] = executed[r]
  PROVE  AskSound'
<1>1. /\ calls'[r] = c
      /\ \A q \in Requests : q # r => calls'[q] = calls[q]
  BY DEF BInv, BrokerTyped
<1>2. /\ ask' \in [Requests -> [op : Operations, order : OrderRequest]]
      /\ \A q \in Requests : ask'[q].op = "modify" => BuildError(vendor', "place", ask'[q].order) = {}
  BY DEF AskSound
<1>3. ASSUME NEW q \in Requests, calls'[q].pc \notin {"new", "done"} \/ executed'[q] > 0
      PROVE  BuildError(vendor', ask'[q].op, ask'[q].order) = {}
  BY <1>1, <1>3 DEF AskSound
<1> QED  BY <1>2, <1>3 DEF AskSound

LEMMA InitAsk == Init => AskSound
<1> SUFFICES ASSUME Init
             PROVE  AskSound
  OBVIOUS
<1>1. ask \in [Requests -> [op : Operations, order : OrderRequest]]
  BY BrokerOrdersAssumption DEF Init
<1>2. \A r \in Requests : calls[r].pc = "new" /\ executed[r] = 0
  BY DEF Init, HttpInit, NewCall
<1> QED  BY <1>1, <1>2 DEF Init, AskSound

LEMMA NextAsk == BInv /\ AskSound /\ [Next]_ordersVars => AskSound'
<1> SUFFICES ASSUME BInv, AskSound, [Next]_ordersVars
             PROVE  AskSound'
  OBVIOUS
<1>1. ASSUME NEW r \in Requests, Submit(r)
      PROVE  AskSound'
  <2>1. /\ BuildError(vendor, ask[r].op, ask[r].order) = {}
        /\ UNCHANGED <<vendor, ask, executed>>
    BY <1>1 DEF Submit, Call, adapterVars, brokerVars
  <2>2. PICK c : calls' = [calls EXCEPT ![r] = c]
    BY <1>1 DEF Submit, Call
  <2> QED  BY <2>1, <2>2, AskStep
<1>2. ASSUME NEW r \in Requests, SubmitRaises(r)
      PROVE  AskSound'
  <2>1. UNCHANGED <<vendor, ask, executed>>
    BY <1>2 DEF SubmitRaises, adapterVars, brokerVars
  <2>2. PICK error : calls' = [calls EXCEPT ![r] = Done(@, error)]
    BY <1>2 DEF SubmitRaises
  <2>3. PICK c : c = Done(calls[r], error)
    OBVIOUS
  <2>4. c.pc = "done"
    BY <2>3 DEF BInv, BrokerTyped, Done, CallType
  <2>5. calls' = [calls EXCEPT ![r] = c]
    BY <2>2, <2>3
  <2> QED  BY <2>1, <2>4, <2>5, AskStep
<1>3. ASSUME NEW r \in Requests, Proceeds(r), UNCHANGED ask
      PROVE  AskSound'
  <2>1. /\ calls[r].pc \in {"landed", "backoff", "queued"}
        /\ UNCHANGED <<vendor, executed>>
    BY <1>3
       DEF Proceeds, Retries, BackoffEnds, Returns, TokenExpired, LockGranted, Refreshed,
           RefreshFails, ExpiredOnce, Landed, adapterVars, brokerVars
  <2>2. BuildError(vendor, ask[r].op, ask[r].order) = {}
    BY <2>1 DEF AskSound
  <2>3. PICK c : calls' = [calls EXCEPT ![r] = c]
    <3>1. Retries(r) => \E c : calls' = [calls EXCEPT ![r] = c]
      <4>1. Retries(r) => calls' = [calls EXCEPT ![r].pc = "backoff"]
        BY DEF Retries
      <4> QED  BY <4>1 DEF BInv, BrokerTyped
    <3> QED
      BY <1>3, <3>1
         DEF Proceeds, BackoffEnds, Returns, TokenExpired, LockGranted, Refreshed, RefreshFails
  <2> QED  BY <1>3, <2>1, <2>2, <2>3, AskStep
<1>4. ASSUME NEW r \in Requests, BrokerAnswers(r), UNCHANGED ask
      PROVE  AskSound'
  <2>1. PICK answer \in {"ok", "garbled", "lost", "refusal", "rejected", "expired"} :
          \/ Execute(r, answer) \/ Refuse(r, answer)
          \/ Exchange(r, answer) \/ RefuseExchange(r, answer)
    BY <1>4 DEF BrokerAnswers
  <2>2. calls[r].pc = "flying" /\ UNCHANGED vendor
    BY <2>1 DEF Execute, Refuse, Exchange, RefuseExchange, Flying, adapterVars
  <2>3. \A q \in Requests : q # r => executed'[q] = executed[q]
    BY <2>1 DEF Execute, Refuse, Exchange, RefuseExchange, brokerVars, BInv, BrokerTyped
  <2>4. BuildError(vendor, ask[r].op, ask[r].order) = {}
    BY <2>2 DEF AskSound
  <2>5. PICK c : calls' = [calls EXCEPT ![r] = c]
    <3>1. CASE Exchange(r, answer)
      <4>1. calls' = [calls EXCEPT ![r].pc = "landed", ![r].answer = answer,
                                   ![r].token = IF answer = "ok" THEN spendable + 1 ELSE @]
        BY <3>1 DEF Exchange
      <4> QED  BY <4>1 DEF BInv, BrokerTyped
    <3>2. CASE ~Exchange(r, answer)
      <4>1. calls' = [calls EXCEPT ![r].pc = "landed", ![r].answer = answer]
        BY <2>1, <3>2 DEF Execute, Refuse, RefuseExchange, Lands
      <4> QED  BY <4>1 DEF BInv, BrokerTyped
    <3> QED  BY <3>1, <3>2
  <2> QED  BY <1>4, <2>2, <2>3, <2>4, <2>5, AskStep
<1>5. CASE (Expire /\ UNCHANGED ask) \/ UNCHANGED ordersVars
  BY <1>5 DEF Expire, ordersVars, httpVars, adapterVars, brokerVars, AskSound
<1> QED  BY <1>1, <1>2, <1>3, <1>4, <1>5 DEF Next

\* The row of an order in the vendor's book has the adapter's words for it.
LEMMA RowIsAsked ==
  ASSUME BInv, AskSound, NEW r \in Requests,
         BuildError(vendor, "place", ask[r].order) = {}
  PROVE  /\ AskedRow(RowAfter(r), ask[r].order, ProductTo, TypeTo)
         /\ Lookup(ProductTo, ask[r].order.product) # {}
         /\ PositionOf(PlacePayload(vendor, ask[r].order)).product
              = Sent(Lookup(ProductTo, ask[r].order.product))
<1> PICK order \in OrderRequest : order = ask[r].order
  BY DEF AskSound
<1> PICK placed : placed = PlacePayload(vendor, order)
  OBVIOUS
<1> PICK modified : modified = ModifyPayload(vendor, order)
  OBVIOUS
<1>1. vendor \in Vendors
  BY DEF BInv, BrokerTyped
<1>2. /\ placed.product = Lookup(ProductTo, order.product)
      /\ placed.type = Lookup(TypeTo, order.type)
      /\ modified.type = Lookup(TypeTo, order.type)
      /\ placed.price \in {{order.price}, Given(order.price)}
      /\ modified.price \in {{order.price}, Given(order.price)}
      /\ Lookup(ProductTo, order.product) # {}
  BY <1>1, VendorsGoByTables DEF SendsByTables, SendsTypeAndPrice
<1>3. ASSUME NEW payload, payload.price \in {{order.price}, Given(order.price)}
      PROVE  RowOf(payload).price = order.price
  <2>1. payload.price = {} => order.price = None
    BY <1>3 DEF Given
  <2>2. payload.price # {} => payload.price = {order.price}
    BY <1>3 DEF Given
  <2>3. payload.price # {} => Sent(payload.price) = order.price
    BY <2>2, SentIs
  <2> QED  BY <2>1, <2>3 DEF RowOf
<1>4. ASSUME NEW payload
      PROVE  /\ RowOf(payload).product = Sent(payload.product)
             /\ RowOf(payload).type = Sent(payload.type)
  BY DEF RowOf
<1>5. AskedRow(RowOf(placed), order, ProductTo, TypeTo)
  BY <1>2, <1>3, <1>4 DEF AskedRow
<1>6. PICK row : row = [RowOf(modified) EXCEPT !.product = RowOf(placed).product]
  OBVIOUS
<1>7. /\ row.product = RowOf(placed).product
      /\ row.type = RowOf(modified).type /\ row.price = RowOf(modified).price
  BY <1>6 DEF RowOf
<1>8. AskedRow(row, order, ProductTo, TypeTo)
  BY <1>2, <1>3, <1>4, <1>7 DEF AskedRow
<1>9. RowAfter(r) = IF ask[r].op = "place" THEN RowOf(placed) ELSE row
  BY <1>6 DEF RowAfter
<1>10. PositionOf(placed).product = Sent(Lookup(ProductTo, order.product))
  BY <1>2 DEF PositionOf
<1> QED  BY <1>2, <1>5, <1>8, <1>9, <1>10

\* Whatever is asked for: an order the vendor has carried out is in get_orders
\* with the product, the type and the price asked for, and its position is in
\* get_positions with that product.
THEOREM OrdersReadBackAsAsked == Spec => []ReadsBackAsAsked
<1>1. Init => BInv /\ AskSound
  BY InitBInv, InitAsk
<1>2. BInv /\ AskSound /\ [Next]_ordersVars => (BInv /\ AskSound)'
  BY NextBInv, NextAsk
<1>3. BInv /\ AskSound => ReadsBackAsAsked
  <2> SUFFICES ASSUME BInv, AskSound,
                      NEW r \in Requests, executed[r] > 0, ask[r].op \in {"place", "modify"}
               PROVE  /\ \E detail \in ReadOrder(vendor, RowAfter(r)) :
                           /\ detail.product = ask[r].order.product
                           /\ detail.type = ask[r].order.type
                           /\ detail.price = ask[r].order.price
                      /\ \E position \in ReadPosition(vendor,
                              PositionOf(PlacePayload(vendor, ask[r].order))) :
                           position.product = ask[r].order.product
    BY DEF ReadsBackAsAsked
  <2>1. BuildError(vendor, "place", ask[r].order) = {}
    BY DEF AskSound
  <2>2. PICK order \in OrderRequest : order = ask[r].order
    BY DEF AskSound
  <2>3. PICK row : row = RowAfter(r)
    OBVIOUS
  <2>4. PICK position : position = PositionOf(PlacePayload(vendor, order))
    OBVIOUS
  <2>5. /\ AskedRow(row, order, ProductTo, TypeTo)
        /\ Lookup(ProductTo, order.product) # {}
        /\ position.product = Sent(Lookup(ProductTo, order.product))
    BY <2>1, <2>2, <2>3, <2>4, RowIsAsked
  <2>6. Tables(ProductTo, ProductFrom, TypeTo) /\ ReadsByTables
    BY VendorsGoByTables DEF BInv, BrokerTyped
  <2>7. /\ Lookup(ProductFrom, row.product) = {order.product}
        /\ Get(InverseOf(TypeTo), row.type, "MARKET") = order.type
        /\ row.price = order.price
    BY <2>5, <2>6, RowIsRead
  <2>8. Lookup(ProductFrom, position.product) = {order.product}
    BY <2>5, <2>6, RoundTrip DEF Tables
  <2>9. \E detail \in ReadOrder(vendor, row) :
          /\ detail.product = order.product
          /\ detail.type = order.type
          /\ detail.price = order.price
    BY <2>6, <2>7 DEF ReadsByTables
  <2>10. \E p \in ReadPosition(vendor, position) : p.product = order.product
    BY <2>6, <2>8 DEF ReadsByTables
  <2> QED  BY <2>2, <2>3, <2>4, <2>9, <2>10
<1> QED  BY <1>1, <1>2, <1>3, PTL DEF Spec
=============================================================================
