--------------------------- MODULE ClientCallProofs ---------------------------
(***************************************************************************)
(* Theorems about ClientCall, for every set of requests, number of retries   *)
(* and limits of the server.                                                 *)
(***************************************************************************)
EXTENDS ClientCall, FiniteSetTheorems, SequenceTheorems, TLAPS

States == {"sending", "waiting", "backoff", "streaming"} \cup Returned
HandlerStates ==
  {"none", "sent", "refused", "translating", "streaming", "done"}

Typed ==
  /\ request \in Requests /\ attempt \in Attempts /\ call \in States
  /\ causes \in Seq(Errors)
  /\ handler \in [Attempts -> HandlerStates]
  /\ answer \in [Attempts -> {"none", "success"} \cup Errors]

\* The error of the current attempt is the last one once the attempt has failed.
Erring == {"backoff", "failed", "exhausted"}
ErrorsCounted ==
  Len(causes) = IF call \in Erring THEN attempt + 1 ELSE attempt

\* All errors but the last were worth another attempt, and so was the last one
\* of a call that is about to make one.
WorthRetrying ==
  /\ \A k \in 1 .. attempt : causes[k] \notin Permanent
  /\ call = "backoff" => causes[attempt + 1] \notin Permanent /\ ~LastTry
  /\ call \in {"failed", "exhausted"} /\ causes[attempt + 1] \notin Permanent
       => LastTry

\* A handler that works has accepted the request, one that has not decided has
\* not answered, and none is ahead of the client.
Fits(h, w) ==
  /\ h \in {"none", "sent", "translating"} => w = "none"
  /\ h \in {"translating", "streaming", "done"} => Refusal = "none"
  /\ h = "streaming" => w = "success"
  /\ h = "refused" => w \in Errors
HandlersFit ==
  /\ \A a \in Attempts :
       /\ Fits(handler[a], answer[a])
       /\ handler[a] # "none" => a <= attempt
  /\ call = "sending" => handler[attempt] = "none"

\* An error is the answer that the server gave, or the client's own.
CausesAnswered ==
  \A k \in 1 .. Len(causes) :
    causes[k] \in {"transport", "body"} \/ answer[k - 1] = causes[k]

Inv == Typed /\ ErrorsCounted /\ WorthRetrying /\ HandlersFit /\ CausesAnswered

-----------------------------------------------------------------------------

LEMMA RefusalIsError == Refusal \in {"none", "unsupported", "too_long"}
BY DEF Refusal

\* The status codes keep apart what is worth another attempt (the client's
\* error.rs:24-30, the server's error.rs:9-34).
LEMMA RetryableExact ==
  ASSUME NEW cause \in Errors
  PROVE  Retryable(cause) <=> cause \notin Permanent
BY DEF Retryable, Status, Errors, Permanent

-----------------------------------------------------------------------------
(* The invariant *)

LEMMA InvInit == Init => Inv
<1> SUFFICES ASSUME Init PROVE Inv
  OBVIOUS
<1>1. 0 \in Attempts
  BY RetryNatural DEF Attempts
<1>2. Typed
  BY <1>1 DEF Init, Typed, States, HandlerStates
<1>3. ErrorsCounted /\ CausesAnswered
  BY DEF Init, ErrorsCounted, CausesAnswered, Erring
<1>4. WorthRetrying
  BY DEF Init, WorthRetrying
<1>5. HandlersFit
  BY <1>1 DEF Init, HandlersFit, Fits
<1> QED
  BY <1>2, <1>3, <1>4, <1>5 DEF Inv

\* What an attempt's error does to the books of the call.
LEMMA FailedKeeps ==
  ASSUME Inv, NEW cause \in Errors, call \notin Erring, Failed(cause),
         cause \in {"transport", "body"} \/ answer[attempt] = cause,
         UNCHANGED <<request, attempt, answer>>
  PROVE  /\ causes' \in Seq(Errors) /\ call' \in States /\ call' # "sending"
         /\ ErrorsCounted' /\ WorthRetrying' /\ CausesAnswered'
<1> USE DEF Inv
<1>1. /\ attempt \in Nat /\ attempt' = attempt
      /\ Len(causes) = attempt /\ causes' = Append(causes, cause)
  BY RetryNatural DEF Typed, Attempts, ErrorsCounted, Failed
<1>2. call' \in Erring /\ call' \in States /\ call' # "sending"
  BY DEF Failed, Erring, States, Returned
<1>3. /\ causes' \in Seq(Errors) /\ Len(causes') = attempt + 1
      /\ causes'[attempt + 1] = cause
      /\ \A k \in 1 .. attempt : causes'[k] = causes[k]
  BY <1>1 DEF Typed
<1>4. ErrorsCounted'
  BY <1>1, <1>2, <1>3 DEF ErrorsCounted
<1>5. /\ call' = "backoff" => Retryable(cause) /\ ~LastTry
      /\ call' \in {"failed", "exhausted"} => ~Retryable(cause) \/ LastTry
  BY DEF Failed
<1>6. LastTry' <=> LastTry
  BY <1>1 DEF LastTry
<1>7. WorthRetrying'
  BY <1>1, <1>3, <1>5, <1>6, RetryableExact DEF WorthRetrying
<1>8. CausesAnswered'
  <2> SUFFICES ASSUME NEW k \in 1 .. attempt + 1
               PROVE  causes'[k] \in {"transport", "body"} \/ answer[k - 1] = causes'[k]
    BY <1>3 DEF CausesAnswered
  <2>1. CASE k = attempt + 1
    BY <2>1, <1>1, <1>3
  <2>2. CASE k \in 1 .. attempt
    BY <2>2, <1>1, <1>3 DEF CausesAnswered
  <2> QED
    BY <2>1, <2>2, <1>1
<1> QED
  BY <1>2, <1>3, <1>4, <1>7, <1>8

\* A step of the handlers, which leaves the call alone: one that takes its turn
\* and is not done with its request keeps what the others have answered.
LEMMA HandlerStep ==
  ASSUME Inv, UNCHANGED callVars, NEW a \in Attempts,
         handler[a] \in {"sent", "translating", "streaming"},
         NEW h \in HandlerStates \ {"none"},
         NEW w \in {"none", "success"} \cup Errors, Fits(h, w),
         handler' = [handler EXCEPT ![a] = h],
         answer' = [answer EXCEPT ![a] = w]
  PROVE  Inv'
<1> USE DEF Inv
<1>1. /\ UNCHANGED <<request, attempt, call, causes>> /\ Refusal' = Refusal
      /\ attempt \in Nat
  BY RetryNatural DEF callVars, Refusal, NLangs, Typed, Attempts
<1>2. Typed'
  BY <1>1 DEF Typed
<1>3. ErrorsCounted' /\ WorthRetrying'
  BY <1>1 DEF ErrorsCounted, WorthRetrying, LastTry
<1>4. a <= attempt /\ (call = "sending" => a # attempt) /\ answer[a] \notin Errors
  BY DEF HandlersFit, Fits, Errors
<1>5. HandlersFit'
  <2>1. ASSUME NEW b \in Attempts
        PROVE  Fits(handler'[b], answer'[b]) /\ (handler'[b] # "none" => b <= attempt)
    <3>1. CASE b = a
      BY <1>4, <3>1 DEF Typed
    <3>2. CASE b # a
      BY <3>2 DEF Typed, HandlersFit
    <3> QED
      BY <3>1, <3>2
  <2>2. call' = "sending" => handler'[attempt'] = "none"
    BY <1>1, <1>4 DEF Typed, HandlersFit
  <2> QED
    BY <1>1, <2>1, <2>2 DEF HandlersFit, Fits
<1>6. CausesAnswered'
  <2> SUFFICES ASSUME NEW k \in 1 .. Len(causes), causes[k] \notin {"transport", "body"}
               PROVE  answer'[k - 1] = causes[k]
    BY <1>1 DEF CausesAnswered
  <2>1. answer[k - 1] = causes[k] /\ causes[k] \in Errors
    BY DEF CausesAnswered, Typed
  <2>2. k - 1 # a
    BY <1>4, <2>1
  <2> QED
    BY <2>1, <2>2 DEF Typed
<1> QED
  BY <1>2, <1>3, <1>5, <1>6

\* A step that leaves the handlers alone.
LEMMA HandlersAlone ==
  ASSUME Inv, UNCHANGED <<request, handler, answer, attempt>>, call' # "sending"
  PROVE  HandlersFit'
BY DEF Inv, HandlersFit, Fits, Refusal, NLangs

LEMMA InvNext == Inv /\ [Next]_vars => Inv'
<1> SUFFICES ASSUME Inv, [Next]_vars PROVE Inv'
  OBVIOUS
<1> USE DEF Inv
<1>1. ASSUME NEW a \in Attempts, Handle(a) PROVE Inv'
  <2>1. UNCHANGED callVars /\ handler[a] = "sent"
    BY <1>1 DEF Handle
  <2>2. CASE Refusal # "none" /\ Reply(a, Refusal, "refused")
    <3>1. /\ Refusal \in Errors /\ Fits("refused", Refusal)
          /\ "refused" \in HandlerStates \ {"none"}
      BY <2>2, RefusalIsError DEF Errors, Fits, HandlerStates
    <3> QED
      BY <2>1, <2>2, <3>1, HandlerStep DEF Reply
  <2>3. CASE Refusal = "none" /\ Reply(a, "success", "streaming")
    BY <2>1, <2>3, HandlerStep DEF Reply, Fits, HandlerStates
  <2>4. CASE Refusal = "none" /\ Reply(a, "none", "translating")
    BY <2>1, <2>4, HandlerStep DEF Reply, Fits, HandlerStates
  <2> QED
    BY <1>1, <2>2, <2>3, <2>4 DEF Handle
<1>2. ASSUME NEW a \in Attempts, Translated(a) PROVE Inv'
  <2>1. UNCHANGED callVars /\ handler[a] = "translating" /\ Refusal = "none"
    BY <1>2 DEF Translated, HandlersFit, Fits
  <2>2. PICK result \in {"success", "unavailable", "failed"} : Reply(a, result, "done")
    BY <1>2 DEF Translated
  <2>3. /\ result \in {"success"} \cup Errors /\ Fits("done", result)
        /\ "done" \in HandlerStates \ {"none"}
    BY <2>1, <2>2 DEF Errors, Fits, HandlerStates
  <2> QED
    BY <2>1, <2>2, <2>3, HandlerStep DEF Reply
<1>3. ASSUME NEW a \in Attempts, TaskOfNobody(a) PROVE Inv'
  <2>1. /\ UNCHANGED callVars /\ handler[a] = "streaming" /\ answer[a] = "success"
        /\ Refusal = "none" /\ handler' = [handler EXCEPT ![a] = "done"]
    BY <1>3 DEF TaskOfNobody, HandlersFit, Fits
  <2>2. answer' = [answer EXCEPT ![a] = "success"]
    BY <1>3, <2>1 DEF TaskOfNobody, Typed
  <2>3. Fits("done", "success") /\ "done" \in HandlerStates \ {"none"}
    BY <2>1 DEF Fits, HandlerStates
  <2> QED
    BY <2>1, <2>2, <2>3, HandlerStep
<1>4. CASE SendRequest
  <2>1. CASE /\ handler' = [handler EXCEPT ![attempt] = "sent"]
             /\ call' = "waiting" /\ UNCHANGED <<causes, waited>>
    <3>1. /\ UNCHANGED <<request, attempt, causes, answer>> /\ Refusal' = Refusal
          /\ attempt \in Attempts /\ attempt \in Nat
          /\ call = "sending" /\ handler[attempt] = "none"
      BY <1>4, <2>1, RetryNatural
         DEF SendRequest, Refusal, NLangs, Typed, Attempts, HandlersFit
    <3>2. Typed'
      BY <2>1, <3>1 DEF Typed, States, HandlerStates
    <3>3. ErrorsCounted' /\ WorthRetrying' /\ CausesAnswered'
      BY <2>1, <3>1
         DEF ErrorsCounted, WorthRetrying, Erring, LastTry, CausesAnswered
    <3>4. HandlersFit'
      BY <2>1, <3>1 DEF HandlersFit, Fits, Typed
    <3> QED
      BY <3>2, <3>3, <3>4
  <2>2. CASE Failed("transport") /\ UNCHANGED handler
    <3>1. UNCHANGED <<request, attempt, answer, handler>> /\ call \notin Erring
      BY <1>4, <2>2 DEF SendRequest, Erring
    <3>2. /\ causes' \in Seq(Errors) /\ call' \in States /\ call' # "sending"
          /\ ErrorsCounted' /\ WorthRetrying' /\ CausesAnswered'
      BY <2>2, <3>1, FailedKeeps DEF Errors
    <3> QED
      BY <3>1, <3>2, HandlersAlone DEF Typed
  <2> QED
    BY <1>4, <2>1, <2>2 DEF SendRequest
<1>5. CASE Lost
  <2>1. UNCHANGED <<request, attempt, answer, handler>> /\ call \notin Erring
    BY <1>5 DEF Lost, Erring, serverVars
  <2>2. /\ causes' \in Seq(Errors) /\ call' \in States /\ call' # "sending"
        /\ ErrorsCounted' /\ WorthRetrying' /\ CausesAnswered'
    BY <1>5, <2>1, FailedKeeps DEF Errors, Lost
  <2> QED
    BY <2>1, <2>2, HandlersAlone DEF Typed
<1>6. CASE Answered
  <2>1. UNCHANGED <<request, attempt, answer, handler>> /\ call \notin Erring
    BY <1>6 DEF Answered, Erring, serverVars
  <2>2. CASE call' \in {"streaming", "ok"} /\ UNCHANGED causes
    <3>1. Typed'
      BY <2>1, <2>2 DEF Typed, States, Returned
    <3>2. ErrorsCounted' /\ WorthRetrying' /\ CausesAnswered'
      BY <2>1, <2>2 DEF ErrorsCounted, WorthRetrying, Erring, CausesAnswered
    <3>3. call' # "sending"
      BY <2>2
    <3> QED
      BY <2>1, <3>1, <3>2, <3>3, HandlersAlone
  <2>3. ASSUME NEW cause \in Errors, Failed(cause),
               cause = "body" \/ answer[attempt] = cause
        PROVE  Inv'
    <3>1. /\ causes' \in Seq(Errors) /\ call' \in States /\ call' # "sending"
          /\ ErrorsCounted' /\ WorthRetrying' /\ CausesAnswered'
      BY <2>1, <2>3, FailedKeeps
    <3> QED
      BY <2>1, <3>1, HandlersAlone DEF Typed
  <2>4. \/ call' \in {"streaming", "ok"} /\ UNCHANGED causes
        \/ Failed("body")
        \/ answer[attempt] \in Errors /\ Failed(answer[attempt])
    BY <1>6 DEF Answered, Success, Typed
  <2> QED
    BY <2>2, <2>3, <2>4 DEF Errors
<1>7. CASE Sleep
  <2>1. /\ UNCHANGED <<request, causes, handler, answer>>
        /\ call = "backoff" /\ call' = "sending" /\ attempt' = attempt + 1
    BY <1>7 DEF Sleep, serverVars, NextAttempt
  <2>2. attempt \in Nat /\ attempt' \in Attempts
    BY <2>1, RetryNatural DEF Typed, Attempts, WorthRetrying, LastTry
  <2>3. Typed'
    BY <2>1, <2>2 DEF Typed, States
  <2>4. ErrorsCounted' /\ WorthRetrying' /\ CausesAnswered'
    BY <2>1, <2>2 DEF ErrorsCounted, WorthRetrying, Erring, CausesAnswered
  <2>5. HandlersFit'
    <3>1. Refusal' = Refusal
      BY <2>1 DEF Refusal, NLangs
    <3>2. \A a \in Attempts : a \in Nat
      BY RetryNatural DEF Attempts
    <3>3. handler[attempt'] = "none"
      BY <2>1, <2>2, <3>2 DEF HandlersFit
    <3> QED
      BY <2>1, <2>2, <3>1, <3>2, <3>3 DEF HandlersFit, Fits
  <2> QED
    BY <2>3, <2>4, <2>5
<1>8. CASE UNCHANGED <<callVars, serverVars>>
  BY <1>8 DEF callVars, serverVars, Typed, ErrorsCounted, WorthRetrying, LastTry,
              HandlersFit, Fits, Refusal, NLangs, CausesAnswered
<1>9. \/ \E a \in Attempts : Handle(a) \/ Translated(a) \/ TaskOfNobody(a)
      \/ SendRequest \/ Lost \/ Answered \/ Sleep
      \/ UNCHANGED <<callVars, serverVars>>
  BY DEF Next, ServerSteps, ClientSteps, Stream, vars
<1> QED
  BY <1>1, <1>2, <1>3, <1>4, <1>5, <1>6, <1>7, <1>8, <1>9

LEMMA Invariance == Spec => []Inv
BY InvInit, InvNext, PTL DEF Spec

-----------------------------------------------------------------------------

\* Variables stay in their types, and each attempt has one error at most.
THEOREM ClientTyping == Spec => []TypeOK
<1>1. Inv => TypeOK
  BY RetryNatural DEF Inv, Typed, ErrorsCounted, TypeOK, States, HandlerStates, Attempts
<1> QED
  BY <1>1, Invariance, PTL

\* Whatever the number of retries, the loop, is_retryable and the status codes
\* agree: overloads and failures of the engine or the connection are repeated up
\* to the limit, everything else is final (client.rs:196-220).
THEOREM Retries == Spec => []RetriedWhenTransient
<1>1. Inv => RetriedWhenTransient
  <2> SUFFICES ASSUME Inv PROVE RetriedWhenTransient
    OBVIOUS
  <2>1. attempt \in Nat
    BY RetryNatural DEF Inv, Typed, Attempts
  <2>2. \A k \in 1 .. Len(causes) - 1 : causes[k] \notin Permanent
    BY <2>1 DEF Inv, ErrorsCounted, WorthRetrying
  <2>3. call \in {"failed", "exhausted"} /\ causes[Len(causes)] \notin Permanent
          => Len(causes) = MaxRetries + 1
    BY <2>1 DEF Inv, ErrorsCounted, WorthRetrying, Erring, LastTry
  <2> QED
    BY <2>2, <2>3 DEF RetriedWhenTransient
<1> QED
  BY <1>1, Invariance, PTL

\* A product of natural numbers is at least as large as each of its factors,
\* unless the other one is 0, and grows by one factor with the other one.
LEMMA Products ==
  ASSUME NEW m \in Nat, NEW n \in Nat
  PROVE  /\ m * n \in Nat /\ (n >= 1 => m * n >= m)
         /\ (n + 1) * m = n * m + m
<1>1. m * n \in Nat /\ (n + 1) * m = n * m + m
  OBVIOUS
<1>2. ASSUME n >= 1 PROVE m * n >= m
  <2>1. n - 1 \in Nat /\ m * (n - 1) \in Nat
    BY <1>2
  <2>2. m * n = m * (n - 1) + m
    BY <1>2
  <2> QED
    BY <2>1, <2>2, <1>1
<1> QED
  BY <1>1, <1>2

\* An attempt before the current one at which the engine works, or that it has
\* answered with a success, is one whose answer was lost: any other error is the
\* server's answer, and a body that cannot be read ends the call.
LEMMA WorkedForLost == Inv => Worked \subseteq Unanswered \cup {attempt}
<1> SUFFICES ASSUME Inv, NEW a \in Worked, a # attempt PROVE a \in Unanswered
  OBVIOUS
<1> USE DEF Inv
<1>1. /\ a \in Attempts /\ a \in Nat /\ attempt \in Nat
      /\ handler[a] \in {"translating", "streaming"} \/ answer[a] = "success"
  BY RetryNatural DEF Worked, Attempts, Typed
<1>2. handler[a] # "none" /\ answer[a] \notin Errors
  BY <1>1 DEF HandlersFit, Fits, Errors
<1>3. a < attempt
  BY <1>1, <1>2 DEF HandlersFit
<1> DEFINE k == a + 1
<1>4. /\ k \in 1 .. attempt /\ k \in 1 .. Len(causes) /\ k - 1 = a
      /\ DOMAIN causes = 1 .. Len(causes) /\ causes[k] \in Errors
  BY <1>1, <1>3 DEF ErrorsCounted, Typed
<1> HIDE DEF k
<1>5. causes[k] \notin Permanent
  BY <1>4 DEF WorthRetrying
<1>6. causes[k] \in {"transport", "body"} \/ answer[a] = causes[k]
  BY <1>4 DEF CausesAnswered
<1>7. causes[k] = "transport"
  BY <1>2, <1>4, <1>5, <1>6 DEF Permanent
<1> QED
  BY <1>1, <1>4, <1>7 DEF Unanswered, k

\* For every limit, request and number of retries, all attempts of a call
\* together ask the engine for the server's limit at most, and once more for each
\* answer that was lost (translate.rs:62-79 and 89, client.rs:196-220).
THEOREM WorkIsBounded == Spec => []WorkBounded
<1>1. Inv => WorkBounded
  <2> SUFFICES ASSUME Inv PROVE WorkBounded
    OBVIOUS
  <2> DEFINE w == Cardinality(Worked)
             u == Cardinality(Unanswered)
             items == request.texts * Resolved
  <2>1. IsFiniteSet(Attempts)
    BY FS_Interval, RetryNatural DEF Attempts
  <2>2. IsFiniteSet(Unanswered)
    BY <2>1, FS_Subset DEF Unanswered
  <2>3. /\ IsFiniteSet(Unanswered \cup {attempt})
        /\ u \in Nat /\ Cardinality(Unanswered \cup {attempt}) <= u + 1
    BY <2>2, FS_AddElement, FS_CardinalityType
  <2>4. /\ IsFiniteSet(Worked)
        /\ Cardinality(Worked) <= Cardinality(Unanswered \cup {attempt})
    BY <2>3, WorkedForLost, FS_Subset
  <2>5. w \in Nat /\ Cardinality(Unanswered \cup {attempt}) \in Nat
    BY <2>3, <2>4, FS_CardinalityType
  <2>6. w <= u + 1
    <3>1. \A l, m, n \in Nat : l <= m /\ m <= n + 1 => l <= n + 1
      OBVIOUS
    <3> QED
      BY <2>3, <2>4, <2>5, <3>1
  <2>7. items \in Nat /\ MaxWorkItems \in Nat
    <3>1. request.texts \in Nat /\ Resolved \in Nat
      BY RequestsTyped, LimitsTyped DEF Inv, Typed, Resolved
    <3> QED
      BY <3>1, Products, LimitsTyped
  <2>8. Worked # {} => items <= MaxWorkItems
    <3> SUFFICES ASSUME NEW a \in Worked PROVE items <= MaxWorkItems
      OBVIOUS
    <3>1. Refusal = "none"
      BY DEF Worked, Inv, Typed, HandlersFit, Fits, Errors, HandlerStates
    <3>2. ~(request.texts * NLangs > MaxWorkItems)
      BY <3>1 DEF Refusal
    <3>3. NLangs = Resolved
      BY DEF NLangs, Resolved
    <3> QED
      BY <2>7, <3>2, <3>3
  <2> HIDE DEF items
  <2>9. CASE Worked = {}
    <3>1. w = 0
      BY <2>9, FS_EmptySet
    <3> HIDE DEF w, u
    <3>2. w * items = 0 /\ (1 + u) * MaxWorkItems \in Nat
      BY <2>3, <2>7, <3>1, Products
    <3> QED
      BY <3>2 DEF WorkBounded, w, u, items
  <2>10. CASE Worked # {}
    <3> HIDE DEF w, u
    <3>1. PICK r \in Nat : MaxWorkItems = items + r
      BY <2>7, <2>8, <2>10
    <3>2. PICK v \in Nat : 1 + u = w + v
      BY <2>3, <2>5, <2>6
    <3>3. (w + v) * (items + r) = w * items + (w * r + v * (items + r))
      BY <2>5, <2>7, <3>1, <3>2
    <3>4. w * items \in Nat /\ w * r \in Nat /\ v * (items + r) \in Nat
      BY <2>5, <2>7, <3>1, <3>2, Products
    <3>5. w * items <= (w + v) * (items + r)
      BY <3>3, <3>4
    <3> QED
      BY <3>1, <3>2, <3>5 DEF WorkBounded, w, u, items
  <2> QED
    BY <2>9, <2>10
<1> QED
  BY <1>1, Invariance, PTL

-----------------------------------------------------------------------------
(* The pauses between the attempts *)

\* The powers of two that the exponent's ceiling of 16 leaves.
LEMMA PowerOfTwo ==
  ASSUME NEW n \in 0 .. 16
  PROVE  2 ^ n \in Nat /\ 2 ^ n >= 1
<1>1. /\ 2 ^ 0 = 1 /\ 2 ^ 1 = 2 /\ 2 ^ 2 = 4 /\ 2 ^ 3 = 8 /\ 2 ^ 4 = 16
      /\ 2 ^ 5 = 32 /\ 2 ^ 6 = 64 /\ 2 ^ 7 = 128 /\ 2 ^ 8 = 256 /\ 2 ^ 9 = 512
      /\ 2 ^ 10 = 1024 /\ 2 ^ 11 = 2048 /\ 2 ^ 12 = 4096 /\ 2 ^ 13 = 8192
      /\ 2 ^ 14 = 16384 /\ 2 ^ 15 = 32768 /\ 2 ^ 16 = 65536
  OBVIOUS
<1>2. \/ n = 0 \/ n = 1 \/ n = 2 \/ n = 3 \/ n = 4 \/ n = 5 \/ n = 6 \/ n = 7
      \/ n = 8 \/ n = 9 \/ n = 10 \/ n = 11 \/ n = 12 \/ n = 13 \/ n = 14
      \/ n = 15 \/ n = 16
  OBVIOUS
<1>3. \/ 2 ^ n = 2 ^ 0 \/ 2 ^ n = 2 ^ 1 \/ 2 ^ n = 2 ^ 2 \/ 2 ^ n = 2 ^ 3
      \/ 2 ^ n = 2 ^ 4 \/ 2 ^ n = 2 ^ 5 \/ 2 ^ n = 2 ^ 6 \/ 2 ^ n = 2 ^ 7
      \/ 2 ^ n = 2 ^ 8 \/ 2 ^ n = 2 ^ 9 \/ 2 ^ n = 2 ^ 10 \/ 2 ^ n = 2 ^ 11
      \/ 2 ^ n = 2 ^ 12 \/ 2 ^ n = 2 ^ 13 \/ 2 ^ n = 2 ^ 14 \/ 2 ^ n = 2 ^ 15
      \/ 2 ^ n = 2 ^ 16
  BY <1>2
<1> QED
  BY <1>1, <1>3

\* No pause is shorter than the first or longer than the limit allows, before
\* the jitter (retry.rs:25-40).
LEMMA CappedBounds ==
  ASSUME NEW n \in Nat
  PROVE  /\ Capped(n) \in Nat /\ First \in Nat
         /\ First <= Capped(n) /\ Capped(n) <= MaxBackoff
         /\ Capped(0) = First
<1> DEFINE p == 2 ^ Smaller(n, 16)
           b == BaseBackoff * p
<1>1. Smaller(n, 16) \in 0 .. 16
  BY DEF Smaller
<1>2. p \in Nat /\ p >= 1
  BY <1>1, PowerOfTwo
<1> HIDE DEF p
<1>3. b \in Nat /\ b >= BaseBackoff
  BY <1>2, Products, RetryNatural
<1>4. Capped(n) = Smaller(b, MaxBackoff)
  BY DEF Capped, p
<1> HIDE DEF b
<1>5. BaseBackoff * 2 ^ Smaller(0, 16) = BaseBackoff
  BY RetryNatural DEF Smaller
<1>6. Capped(0) = First
  BY <1>5 DEF Capped, First
<1> QED
  BY <1>3, <1>4, <1>6, RetryNatural DEF First, Smaller

\* The jitter adds half of a pause at most.
LEMMA BackoffBounds ==
  ASSUME NEW n \in Nat, NEW jitter \in Jitter
  PROVE  /\ Backoff(n, jitter) \in Nat
         /\ First <= Backoff(n, jitter)
         /\ 2 * Backoff(n, jitter) <= 3 * Capped(n)
<1> DEFINE c == Capped(n)
           j == jitter
<1>1. c \in Nat /\ First \in Nat /\ First <= c
  BY CappedBounds
<1>2. j \in Nat /\ j <= 999
  BY JitterRange
<1>3. Backoff(n, jitter) = c + (c * j) \div 2000
  BY DEF Backoff
<1> HIDE DEF c, j
<1>4. c * j \in Nat /\ c * j <= c * 999
  <2>1. 999 - j \in Nat
    BY <1>2
  <2>2. c * j \in Nat /\ c * (999 - j) \in Nat
    BY <1>1, <1>2, <2>1, Products
  <2>3. c * 999 = c * j + c * (999 - j)
    BY <1>1, <1>2
  <2> QED
    BY <2>2, <2>3, <1>1
<1>5. (c * j) \div 2000 \in Nat /\ 2 * ((c * j) \div 2000) <= c
  <2> DEFINE m == c * j
  <2>1. m \in Nat /\ m <= 999 * c
    BY <1>4, <1>1
  <2> HIDE DEF m
  <2>2. m \div 2000 \in Nat /\ 2000 * (m \div 2000) <= m
    BY <2>1
  <2>3. 2 * (m \div 2000) <= c
    BY <2>1, <2>2, <1>1
  <2> QED
    BY <2>2, <2>3 DEF m
<1>6. /\ c + (c * j) \div 2000 \in Nat /\ First <= c + (c * j) \div 2000
      /\ 2 * (c + (c * j) \div 2000) <= 3 * c
  BY <1>1, <1>5
<1> QED
  BY <1>3, <1>6 DEF c

\* What has been slept is a number of milliseconds within the bounds, and none
\* before the first pause.
Rested == waited \in Nat /\ PausesBounded /\ (Pauses = 0 => waited = 0)

LEMMA FailedRests ==
  ASSUME Inv, Rested, NEW cause \in Errors, call \notin Erring, Failed(cause),
         UNCHANGED attempt
  PROVE  Rested'
<1>1. attempt \in Nat /\ Pauses = attempt
  BY RetryNatural DEF Inv, Typed, Attempts, Pauses, Erring
<1>2. CASE call' # "backoff" /\ UNCHANGED waited
  BY <1>1, <1>2 DEF Rested, PausesBounded, Pauses, First
<1>3. CASE /\ call' = "backoff"
           /\ \E jitter \in Jitter : waited' = waited + Backoff(attempt, jitter)
  <2>1. PICK jitter \in Jitter : waited' = waited + Backoff(attempt, jitter)
    BY <1>3
  <2> DEFINE b == Backoff(attempt, jitter)
             f == First
             c == Capped(attempt)
             m == MaxBackoff
             n == attempt
  <2>2. /\ b \in Nat /\ f \in Nat /\ c \in Nat /\ m \in Nat
        /\ f <= b /\ 2 * b <= 3 * c /\ c <= m /\ (n = 0 => c = f)
    BY <1>1, BackoffBounds, CappedBounds, RetryNatural
  <2>3. /\ waited \in Nat /\ waited >= n * f
        /\ n > 0 => 2 * waited <= 3 * (f + (n - 1) * m)
        /\ n = 0 => waited = 0
    BY <1>1 DEF Rested, PausesBounded
  <2>4. waited' = waited + b /\ n \in Nat
    BY <1>1, <2>1
  <2>5. Pauses' = n + 1 /\ First' = f
    BY <1>1, <1>3 DEF Pauses, First
  <2> HIDE DEF b, f, c, m, n
  <2>6. waited' \in Nat /\ waited' >= (n + 1) * f
    <3>1. n * f \in Nat /\ (n + 1) * f = n * f + f
      BY <2>2, <2>4, Products
    <3> QED
      BY <3>1, <2>2, <2>3, <2>4
  <2>7. 2 * waited' <= 3 * (f + n * m)
    <3>1. CASE n = 0
      <4>1. n * m = 0
        BY <3>1, <2>2
      <4> QED
        BY <2>2, <2>3, <2>4, <3>1, <4>1
    <3>2. CASE n > 0
      <4>1. n - 1 \in Nat /\ (n - 1) * m \in Nat
        BY <2>2, <2>4, <3>2, Products
      <4>2. n * m = (n - 1) * m + m
        BY <2>2, <2>4, <3>2
      <4> QED
        BY <2>2, <2>3, <2>4, <3>2, <4>1, <4>2
    <3> QED
      BY <2>4, <3>1, <3>2
  <2> QED
    BY <2>4, <2>5, <2>6, <2>7 DEF Rested, PausesBounded, m
<1> QED
  BY <1>2, <1>3 DEF Failed

LEMMA RestedInit == Init => Rested
BY CappedBounds DEF Init, Rested, PausesBounded, Pauses

LEMMA RestedNext == Inv /\ Rested /\ [Next]_vars => Rested'
<1> SUFFICES ASSUME Inv, Rested, [Next]_vars PROVE Rested'
  OBVIOUS
<1>1. ASSUME UNCHANGED <<attempt, waited>>, call # "backoff", call' # "backoff"
      PROVE  Rested'
  BY <1>1 DEF Rested, PausesBounded, Pauses, First
<1>2. CASE SendRequest
  <2>1. call \notin Erring /\ call # "backoff" /\ attempt' = attempt
    BY <1>2 DEF SendRequest, Erring
  <2>2. CASE call' = "waiting" /\ UNCHANGED waited
    BY <1>1, <2>1, <2>2
  <2>3. CASE Failed("transport")
    BY <2>1, <2>3, FailedRests DEF Errors
  <2> QED
    BY <1>2, <2>2, <2>3 DEF SendRequest
<1>3. CASE Lost
  <2>1. call \notin Erring /\ attempt' = attempt /\ Failed("transport")
    BY <1>3 DEF Lost, Erring
  <2> QED
    BY <2>1, FailedRests DEF Errors
<1>4. CASE Answered
  <2>1. call \notin Erring /\ call # "backoff" /\ attempt' = attempt
    BY <1>4 DEF Answered, Erring
  <2>2. CASE call' \in {"streaming", "ok"} /\ UNCHANGED waited
    BY <1>1, <2>1, <2>2
  <2>3. ASSUME NEW cause \in Errors, Failed(cause) PROVE Rested'
    BY <2>1, <2>3, FailedRests
  <2>4. \/ call' \in {"streaming", "ok"} /\ UNCHANGED waited
        \/ Failed("body")
        \/ answer[attempt] \in Errors /\ Failed(answer[attempt])
    BY <1>4 DEF Answered, Success, Inv, Typed
  <2> QED
    BY <2>2, <2>3, <2>4 DEF Errors
<1>5. CASE Sleep
  <2>1. /\ call = "backoff" /\ call' = "sending"
        /\ attempt' = attempt + 1 /\ waited' = waited
    BY <1>5 DEF Sleep, NextAttempt
  <2>2. attempt \in Nat
    BY RetryNatural DEF Inv, Typed, Attempts
  <2>3. Pauses' = Pauses /\ First' = First
    BY <2>1, <2>2 DEF Pauses, First
  <2> QED
    BY <2>1, <2>3 DEF Rested, PausesBounded
<1>6. CASE UNCHANGED callVars
  BY <1>6 DEF callVars, Rested, PausesBounded, Pauses, First
<1>7. \/ SendRequest \/ Lost \/ Answered \/ Sleep \/ UNCHANGED callVars
  BY DEF Next, ServerSteps, ClientSteps, Stream, vars, Handle, Translated, TaskOfNobody
<1> QED
  BY <1>2, <1>3, <1>4, <1>5, <1>6, <1>7

\* For every configuration of the retries and any jitter, the first pause is the
\* base and half of it at most, the others are bounded by the limit and half of
\* it, and none is shorter than the first: the exponent's ceiling, the limit and
\* the jitter fit together for every number of attempts (retry.rs:25-40).
THEOREM PausesInBounds == Spec => []PausesBounded
<1>1. Rested => PausesBounded
  BY DEF Rested
<1> QED
  BY <1>1, RestedInit, InvInit, InvNext, RestedNext, PTL DEF Spec

-----------------------------------------------------------------------------
(* The stream: what is between the server's task and the consumer *)

Answers == [kind : {"translation", "error"}, text : Nat]
Sendable == Answers \cup {Done}
Parts ==
  [part : {"name", "lead", "data", "newline", "colon"},
   of : Sendable \cup {Comment}, good : BOOLEAN]
Items == [kind : {"translation", "error", "garbled", "truncated"}, text : Nat]

StreamTyped ==
  /\ task \in {"none", "working", "sending", "ended"}
  /\ conn \in {"open", "finished", "broken"}
  /\ parser \in {"idle", "polling", "ended", "dropped"}
  /\ receiver \in BOOLEAN /\ erred \in BOOLEAN
  /\ event \in Sendable /\ sent \in Seq(Sendable) /\ channel \in Seq(Sendable)
  /\ wire \in Seq(Parts) /\ buffer \in Seq(Parts) /\ yielded \in Seq(Items)

\* Each event tells its place, and done is the last one.
SentNumbered ==
  /\ \A j \in 1 .. Len(sent) :
       IF sent[j] = Done THEN j = Len(sent) /\ task = "ended"
                         ELSE sent[j].text = j
  /\ task = "sending" => event = Done \/ event.text = Len(sent) + 1
  /\ task = "ended" /\ receiver => sent # <<>> /\ sent[Len(sent)] = Done

\* The channel holds the events that have not been passed on.
Passed == Len(sent) - Len(channel)
ChannelHolds ==
  /\ Passed \in Nat
  /\ \A i \in 1 .. Len(channel) : channel[i] = sent[Passed + i]
  /\ ~receiver => conn = "broken" /\ channel = <<>>
  /\ conn = "finished" => task = "ended" /\ channel = <<>>

\* What the parser has not parsed yet.
Unparsed == buffer \o wire

\* Its parts follow each other as those of whole events do.
WellMade(x) ==
  /\ x.part = "name" => x.of \in Sendable
  /\ x.part = "newline" => x = NL
Starts(x) == x.part \in {"name", "colon"}
Follows(x, y) ==
  /\ x.part = "name" /\ x.of # Done => y.part = "lead" /\ y.of = x.of
  /\ x.part = "name" /\ x.of = Done => y.part = "data"
  /\ x.part = "lead" => y.part = "data" /\ y.of = x.of
  /\ x.part \in {"data", "colon"} => y.part = "newline"
Framed(r) ==
  /\ \A k \in 1 .. Len(r) : WellMade(r[k])
  /\ r # <<>> => Starts(r[1])
  /\ \A k \in 1 .. Len(r) - 1 : Follows(r[k], r[k + 1])
  /\ \A k \in 2 .. Len(r) - 1 : r[k].part = "newline" =>
       IF r[k - 1].part = "newline" THEN Starts(r[k + 1])
                                    ELSE r[k + 1].part = "newline"
Complete(r) ==
  r # <<>> => /\ Len(r) > 1
              /\ r[Len(r)].part = "newline" /\ r[Len(r) - 1].part = "newline"

UnparsedFramed == Framed(Unparsed) /\ (conn # "broken" => Complete(Unparsed))

\* The events in it are those that have been passed on and not been yielded, in
\* order and without gaps; while the connection holds, all of them are there.
Index(e) == IF e = Done THEN Len(sent) ELSE e.text
NamesAt(r, k) == r[k].part = "name"
InSent(r) ==
  \A k \in 1 .. Len(r) : NamesAt(r, k) =>
    /\ Index(r[k].of) \in Len(yielded) + 1 .. Passed
    /\ sent[Index(r[k].of)] = r[k].of
Increasing(r) ==
  \A k, l \in 1 .. Len(r) :
    k < l /\ NamesAt(r, k) /\ NamesAt(r, l) => Index(r[k].of) < Index(r[l].of)
NoGap(r) ==
  \A l \in 1 .. Len(r) : NamesAt(r, l) =>
    \A n \in Len(yielded) + 1 .. Index(r[l].of) :
      \E k \in 1 .. l : NamesAt(r, k) /\ Index(r[k].of) = n
AllThere(r) ==
  \A n \in Len(yielded) + 1 .. Passed : sent[n] # Done =>
    \E k \in 1 .. Len(r) : NamesAt(r, k) /\ r[k].of = sent[n]

UnparsedInOrder ==
  /\ InSent(Unparsed) /\ Increasing(Unparsed) /\ NoGap(Unparsed)
  /\ conn # "broken" => AllThere(Unparsed)

\* What has been yielded; after an item that was cut short nothing is left.
Yields ==
  \A j \in 1 .. Len(yielded) :
    /\ j <= Passed /\ sent[j] # Done /\ yielded[j].text = j
    /\ yielded[j].kind = "error" <=> sent[j].kind = "error"
    /\ yielded[j].kind = "truncated" =>
         erred /\ j = Len(yielded) /\ conn = "broken" /\ Unparsed = <<>>
EndsWell ==
  parser = "ended" /\ ~erred =>
    conn = "finished" /\ Len(yielded) = Len(sent) - 1 /\ sent[Len(sent)] = Done

StreamInv ==
  /\ StreamTyped /\ SentNumbered /\ ChannelHolds
  /\ UnparsedFramed /\ UnparsedInOrder /\ Yields /\ EndsWell

-----------------------------------------------------------------------------
(* Lemmas about sequences of parts *)

LEMMA EventsApart ==
  /\ Comment # Done /\ Done \notin Answers /\ Comment \notin Answers
  /\ Comment \notin Sendable
BY DEF Comment, Done, Answers, Sendable

\* Equal parts of the same events, but perhaps damaged and fewer.
Similar(q, r) ==
  /\ Len(q) <= Len(r)
  /\ \A k \in 1 .. Len(q) :
       /\ q[k].part = r[k].part /\ q[k].of = r[k].of
       /\ q[k].part = "newline" => q[k].good

LEMMA NewlineIsNL ==
  ASSUME NEW x \in Parts, x.part = "newline", x.of = Done, x.good
  PROVE  x = NL
BY DEF Parts, NL, Part

LEMMA SimilarFramed ==
  ASSUME NEW r \in Seq(Parts), NEW q \in Seq(Parts), Framed(r), Similar(q, r)
  PROVE  Framed(q) /\ (Len(q) = Len(r) /\ Complete(r) => Complete(q))
<1>1. /\ Len(q) \in Nat /\ Len(r) \in Nat /\ Len(q) <= Len(r)
      /\ \A k \in 1 .. Len(q) : q[k] \in Parts /\ r[k] \in Parts
      /\ \A k \in 1 .. Len(q) : q[k].part = r[k].part /\ q[k].of = r[k].of
  BY DEF Similar
<1>2. \A k \in 1 .. Len(q) : WellMade(q[k])
  <2> SUFFICES ASSUME NEW k \in 1 .. Len(q) PROVE WellMade(q[k])
    OBVIOUS
  <2>1. WellMade(r[k]) /\ q[k] \in Parts
    BY <1>1 DEF Framed
  <2>2. q[k].part = "name" => q[k].of \in Sendable
    BY <2>1, <1>1 DEF WellMade
  <2>3. ASSUME q[k].part = "newline" PROVE q[k] = NL
    <3>1. q[k].of = Done
      BY <2>1, <2>3, <1>1 DEF WellMade, NL, Part
    <3>2. q[k].good
      BY <2>3 DEF Similar
    <3> QED
      BY <2>1, <2>3, <3>1, <3>2, NewlineIsNL
  <2> QED
    BY <2>2, <2>3 DEF WellMade
<1>3. q # <<>> => Starts(q[1])
  BY <1>1 DEF Framed, Starts
<1>4. \A k \in 1 .. Len(q) - 1 : Follows(q[k], q[k + 1])
  <2> SUFFICES ASSUME NEW k \in 1 .. Len(q) - 1 PROVE Follows(q[k], q[k + 1])
    OBVIOUS
  <2>1. Follows(r[k], r[k + 1]) /\ k \in 1 .. Len(q) /\ k + 1 \in 1 .. Len(q)
    BY <1>1 DEF Framed
  <2> QED
    BY <2>1, <1>1 DEF Follows
<1>5. \A k \in 2 .. Len(q) - 1 : q[k].part = "newline" =>
        IF q[k - 1].part = "newline" THEN Starts(q[k + 1])
                                     ELSE q[k + 1].part = "newline"
  <2> SUFFICES ASSUME NEW k \in 2 .. Len(q) - 1, q[k].part = "newline"
               PROVE  IF q[k - 1].part = "newline" THEN Starts(q[k + 1])
                                                   ELSE q[k + 1].part = "newline"
    OBVIOUS
  <2>1. /\ k \in 1 .. Len(q) /\ k - 1 \in 1 .. Len(q) /\ k + 1 \in 1 .. Len(q)
        /\ k \in 2 .. Len(r) - 1
    BY <1>1
  <2>2. IF r[k - 1].part = "newline" THEN Starts(r[k + 1])
                                     ELSE r[k + 1].part = "newline"
    BY <2>1, <1>1 DEF Framed
  <2> QED
    BY <2>1, <2>2, <1>1 DEF Starts
<1>6. Len(q) = Len(r) /\ Complete(r) => Complete(q)
  BY <1>1 DEF Complete
<1> QED
  BY <1>2, <1>3, <1>4, <1>5, <1>6 DEF Framed

\* The bytes of an event are framed, complete and have one name, at the start.
LEMMA BytesShape ==
  ASSUME NEW e \in Sendable \cup {Comment}
  PROVE  /\ Bytes(e) \in Seq(Parts) /\ Bytes(e) # <<>>
         /\ Framed(Bytes(e)) /\ Complete(Bytes(e))
         /\ \A k \in 1 .. Len(Bytes(e)) :
              NamesAt(Bytes(e), k) <=> k = 1 /\ e # Comment
         /\ Bytes(e)[1].of = e
<1>1. NL \in Parts /\ NL.part = "newline"
  BY DEF NL, Part, Parts, Sendable
<1>2. CASE e = Comment
  <2> DEFINE b == <<Part("colon", e), NL, NL>>
  <2>1. Bytes(e) = b
    BY <1>2 DEF Bytes, Comment
  <2>2. Part("colon", e) \in Parts
    BY <1>2 DEF Part, Parts
  <2>3. /\ b \in Seq(Parts) /\ Len(b) = 3
        /\ b[1] = Part("colon", e) /\ b[2] = NL /\ b[3] = NL
    BY <1>1, <2>2
  <2> HIDE DEF b
  <2>4. b[1].part = "colon" /\ b[1].of = e
    BY <2>3 DEF Part
  <2>5. Framed(b)
    BY <2>3, <2>4, <1>1 DEF Framed, WellMade, Starts, Follows
  <2>6. Complete(b) /\ b # <<>>
    <3>1. /\ b # <<>> /\ Len(b) > 1 /\ Len(b) - 1 = 2
          /\ b[3].part = "newline" /\ b[2].part = "newline"
      BY <2>3, <1>1
    <3> QED
      BY <2>3, <3>1 DEF Complete
  <2>7. \A k \in 1 .. Len(b) : ~NamesAt(b, k)
    BY <2>3, <2>4, <1>1 DEF NamesAt
  <2> QED
    BY <1>2, <2>1, <2>3, <2>4, <2>5, <2>6, <2>7
<1>3. CASE e = Done
  <2> DEFINE b == <<Part("name", e), Part("data", e), NL, NL>>
  <2>1. Bytes(e) = b
    BY <1>3 DEF Bytes, Done
  <2>2. Part("name", e) \in Parts /\ Part("data", e) \in Parts
    BY <1>3 DEF Part, Parts, Sendable
  <2>3. /\ b \in Seq(Parts) /\ Len(b) = 4
        /\ b[1] = Part("name", e) /\ b[2] = Part("data", e)
        /\ b[3] = NL /\ b[4] = NL
    BY <1>1, <2>2
  <2> HIDE DEF b
  <2>4. b[1].part = "name" /\ b[1].of = e /\ b[2].part = "data" /\ b[2].of = e
    BY <2>3 DEF Part
  <2>5. Framed(b)
    BY <2>3, <2>4, <1>1, <1>3 DEF Framed, WellMade, Starts, Follows, Sendable
  <2>6. Complete(b) /\ b # <<>>
    <3>1. /\ b # <<>> /\ Len(b) > 1 /\ Len(b) - 1 = 3
          /\ b[4].part = "newline" /\ b[3].part = "newline"
      BY <2>3, <1>1
    <3> QED
      BY <2>3, <3>1 DEF Complete
  <2>7. \A k \in 1 .. Len(b) : NamesAt(b, k) <=> k = 1
    BY <2>3, <2>4, <1>1 DEF NamesAt
  <2> QED
    BY <1>3, <2>1, <2>3, <2>4, <2>5, <2>6, <2>7, EventsApart
<1>4. CASE e \in Answers
  <2> DEFINE b == <<Part("name", e), Part("lead", e), Part("data", e), NL, NL>>
  <2>1. Bytes(e) = b
    BY <1>4 DEF Bytes, Answers
  <2>2. /\ Part("name", e) \in Parts /\ Part("lead", e) \in Parts
        /\ Part("data", e) \in Parts
    BY <1>4 DEF Part, Parts, Sendable
  <2>3. /\ b \in Seq(Parts) /\ Len(b) = 5
        /\ b[1] = Part("name", e) /\ b[2] = Part("lead", e)
        /\ b[3] = Part("data", e) /\ b[4] = NL /\ b[5] = NL
    BY <1>1, <2>2
  <2> HIDE DEF b
  <2>4. /\ b[1].part = "name" /\ b[1].of = e /\ b[2].part = "lead" /\ b[2].of = e
        /\ b[3].part = "data" /\ b[3].of = e
    BY <2>3 DEF Part
  <2>5. e # Done /\ e # Comment
    BY <1>4, EventsApart
  <2>6. Framed(b)
    BY <2>3, <2>4, <2>5, <1>1, <1>4 DEF Framed, WellMade, Starts, Follows, Sendable
  <2>7. Complete(b) /\ b # <<>>
    <3>1. /\ b # <<>> /\ Len(b) > 1 /\ Len(b) - 1 = 4
          /\ b[5].part = "newline" /\ b[4].part = "newline"
      BY <2>3, <1>1
    <3> QED
      BY <2>3, <3>1 DEF Complete
  <2>8. \A k \in 1 .. Len(b) : NamesAt(b, k) <=> k = 1
    BY <2>3, <2>4, <1>1 DEF NamesAt
  <2> QED
    BY <2>1, <2>3, <2>4, <2>5, <2>6, <2>7, <2>8
<1> QED
  BY <1>2, <1>3, <1>4 DEF Sendable

\* Whole events may follow whole events.
LEMMA ConcatFramed ==
  ASSUME NEW r \in Seq(Parts), NEW b \in Seq(Parts), Framed(r), Complete(r),
         Framed(b), Complete(b), b # <<>>
  PROVE  Framed(r \o b) /\ Complete(r \o b)
<1> DEFINE m == Len(r)
           q == r \o b
<1>1. /\ m \in Nat /\ Len(b) \in Nat /\ Len(b) > 1 /\ Len(q) = m + Len(b)
      /\ \A k \in 1 .. m : q[k] = r[k]
      /\ \A k \in 1 .. Len(b) : q[m + k] = b[k]
      /\ q \in Seq(Parts)
  BY DEF Complete
<1> HIDE DEF q
<1>2. CASE m = 0
  <2>1. q = b
    BY <1>1, <1>2
  <2> QED
    BY <2>1 DEF q
<1>3. CASE m > 0
  <2>1. m > 1 /\ r[m].part = "newline" /\ r[m - 1].part = "newline" /\ Starts(b[1])
    BY <1>1, <1>3 DEF Complete, Framed
  <2>2. \A k \in 1 .. Len(q) :
          \/ k \in 1 .. m
          \/ k - m \in 1 .. Len(b) /\ q[k] = b[k - m]
    BY <1>1
  <2>3. \A k \in 1 .. Len(q) : WellMade(q[k])
    BY <1>1, <2>2 DEF Framed
  <2>4. q # <<>> => Starts(q[1])
    BY <1>1, <1>3 DEF Framed
  <2>5. \A k \in 1 .. Len(q) - 1 : Follows(q[k], q[k + 1])
    <3> SUFFICES ASSUME NEW k \in 1 .. Len(q) - 1 PROVE Follows(q[k], q[k + 1])
      OBVIOUS
    <3>1. CASE k < m
      <4>1. k \in 1 .. m - 1 /\ q[k] = r[k] /\ q[k + 1] = r[k + 1]
        BY <3>1, <1>1
      <4> QED
        BY <4>1 DEF Framed
    <3>2. CASE k = m
      BY <3>2, <2>1, <1>1 DEF Follows
    <3>3. CASE k > m
      <4>1. /\ k - m \in 1 .. Len(b) - 1 /\ q[k] = b[k - m]
            /\ q[k + 1] = b[(k - m) + 1]
        BY <3>3, <1>1, <2>2
      <4> QED
        BY <4>1 DEF Framed
    <3> QED
      BY <3>1, <3>2, <3>3, <1>1
  <2>6. \A k \in 2 .. Len(q) - 1 : q[k].part = "newline" =>
          IF q[k - 1].part = "newline" THEN Starts(q[k + 1])
                                       ELSE q[k + 1].part = "newline"
    <3> SUFFICES ASSUME NEW k \in 2 .. Len(q) - 1, q[k].part = "newline"
                 PROVE  IF q[k - 1].part = "newline" THEN Starts(q[k + 1])
                                                     ELSE q[k + 1].part = "newline"
      OBVIOUS
    <3>1. CASE k < m
      <4>1. k \in 2 .. m - 1 /\ k + 1 \in 1 .. m /\ k - 1 \in 1 .. m
        BY <3>1, <1>1
      <4>2. q[k] = r[k] /\ q[k + 1] = r[k + 1] /\ q[k - 1] = r[k - 1]
        <5>1. \A j \in 1 .. m : q[j] = r[j]
          BY <1>1
        <5>2. q[k] = r[k]
          BY <4>1, <5>1
        <5>3. q[k + 1] = r[k + 1]
          BY <4>1, <5>1
        <5>4. q[k - 1] = r[k - 1]
          BY <4>1, <5>1
        <5> QED
          BY <5>2, <5>3, <5>4
      <4> QED
        BY <4>1, <4>2 DEF Framed
    <3>2. CASE k = m
      <4>1. q[k - 1] = r[m - 1] /\ q[k + 1] = b[1]
        BY <3>2, <1>1, <2>1
      <4> QED
        BY <4>1, <2>1
    <3>3. CASE k = m + 1
      <4>1. q[k] = b[1]
        BY <3>3, <1>1
      <4> QED
        BY <4>1, <2>1 DEF Starts
    <3>4. CASE k > m + 1
      <4>1. /\ k - m \in 2 .. Len(b) - 1 /\ q[k] = b[k - m]
            /\ q[k + 1] = b[(k - m) + 1] /\ q[k - 1] = b[(k - m) - 1]
        <5> DEFINE j == k - m
        <5>1. /\ j \in 2 .. Len(b) - 1 /\ j + 1 \in 1 .. Len(b)
              /\ j - 1 \in 1 .. Len(b) /\ m + j = k /\ m + (j + 1) = k + 1
              /\ m + (j - 1) = k - 1
          BY <3>4, <1>1
        <5> HIDE DEF j
        <5>2. /\ q[m + j] = b[j] /\ q[m + (j + 1)] = b[j + 1]
              /\ q[m + (j - 1)] = b[j - 1]
          <6>1. \A i \in 1 .. Len(b) : q[m + i] = b[i]
            BY <1>1
          <6>2. j \in 1 .. Len(b)
            <7>1. Len(b) \in Nat
              BY <1>1
            <7> QED
              BY <5>1, <7>1
          <6> QED
            BY <5>1, <6>1, <6>2
        <5>3. q[k] = b[j] /\ q[k + 1] = b[j + 1] /\ q[k - 1] = b[j - 1]
          BY <5>1, <5>2
        <5> QED
          BY <5>1, <5>3 DEF j
      <4> QED
        BY <4>1 DEF Framed
    <3>5. k < m \/ k = m \/ k = m + 1 \/ k > m + 1
      BY <1>1
    <3> QED
      BY <3>1, <3>2, <3>3, <3>4, <3>5
  <2>7. Complete(q)
    <3>1. q[Len(q)] = b[Len(b)] /\ q[Len(q) - 1] = b[Len(b) - 1] /\ Len(q) > 1
      BY <1>1, <2>2
    <3> QED
      BY <3>1 DEF Complete
  <2> QED
    BY <2>3, <2>4, <2>5, <2>6, <2>7 DEF Framed, q
<1> QED
  BY <1>1, <1>2, <1>3

\* Where the first block of framed parts ends, if it is all there.
HeadSize(x) == IF x.part = "colon" THEN 2 ELSE IF x.of = Done THEN 3 ELSE 4
HeadOf(r) == HeadSize(r[1])

LEMMA NewlineFollows ==
  ASSUME NEW r \in Seq(Parts), Framed(r), NEW k \in 1 .. Len(r),
         r[k].part = "newline"
  PROVE  r[k] = NL
BY DEF Framed, WellMade

LEMMA HeadShape ==
  ASSUME NEW r \in Seq(Parts), Framed(r), r # <<>>
  PROVE  /\ Starts(r[1]) /\ HeadOf(r) \in {2, 3, 4}
         /\ \A k \in 1 .. Len(r) : k < HeadOf(r) => r[k].part # "newline"
         /\ \A k \in 1 .. Len(r) :
              k = HeadOf(r) \/ k = HeadOf(r) + 1 => r[k].part = "newline"
         /\ \A k \in 2 .. Len(r) : k <= HeadOf(r) + 1 => ~NamesAt(r, k)
         /\ r[1].part = "name" /\ r[1].of # Done =>
              /\ Len(r) >= 2 => r[2].part = "lead"
              /\ Len(r) >= 3 => r[3].part = "data"
<1>1. /\ Len(r) \in Nat /\ Len(r) >= 1 /\ Starts(r[1])
      /\ \A k \in 1 .. Len(r) - 1 : Follows(r[k], r[k + 1])
  BY DEF Framed
<1>2. /\ Len(r) >= 2 => Follows(r[1], r[2])
      /\ Len(r) >= 3 => Follows(r[2], r[3])
      /\ Len(r) >= 4 => Follows(r[3], r[4])
  BY <1>1
<1>3. /\ Len(r) >= 3 /\ r[2].part = "newline" /\ r[1].part # "newline"
           => r[3].part = "newline"
      /\ Len(r) >= 4 /\ r[3].part = "newline" /\ r[2].part # "newline"
           => r[4].part = "newline"
      /\ Len(r) >= 5 /\ r[4].part = "newline" /\ r[3].part # "newline"
           => r[5].part = "newline"
  <2>1. \A k \in 2 .. Len(r) - 1 :
          r[k].part = "newline" /\ r[k - 1].part # "newline"
            => r[k + 1].part = "newline"
    BY DEF Framed
  <2> QED
    BY <2>1, <1>1
<1>4. CASE r[1].part = "colon"
  <2>1. HeadOf(r) = 2
    BY <1>4 DEF HeadOf, HeadSize
  <2>2. /\ Len(r) >= 2 => r[2].part = "newline"
        /\ Len(r) >= 3 => r[3].part = "newline"
    BY <1>2, <1>3, <1>4 DEF Follows
  <2>3. \A k \in 1 .. Len(r) : k <= 3 => k = 1 \/ k = 2 \/ k = 3
    BY <1>1
  <2> QED
    BY <1>1, <1>4, <2>1, <2>2, <2>3 DEF NamesAt
<1>5. CASE r[1].part = "name" /\ r[1].of = Done
  <2>1. HeadOf(r) = 3
    BY <1>5 DEF HeadOf, HeadSize
  <2>2. /\ Len(r) >= 2 => r[2].part = "data"
        /\ Len(r) >= 3 => r[3].part = "newline"
        /\ Len(r) >= 4 => r[4].part = "newline"
    BY <1>1, <1>2, <1>3, <1>5 DEF Follows
  <2>3. \A k \in 1 .. Len(r) : k <= 4 => k = 1 \/ k = 2 \/ k = 3 \/ k = 4
    BY <1>1
  <2> QED
    BY <1>1, <1>5, <2>1, <2>2, <2>3 DEF NamesAt
<1>6. CASE r[1].part = "name" /\ r[1].of # Done
  <2>1. HeadOf(r) = 4
    BY <1>6 DEF HeadOf, HeadSize
  <2>2. /\ Len(r) >= 2 => r[2].part = "lead"
        /\ Len(r) >= 3 => r[3].part = "data"
        /\ Len(r) >= 4 => r[4].part = "newline"
        /\ Len(r) >= 5 => r[5].part = "newline"
    BY <1>1, <1>2, <1>3, <1>6 DEF Follows
  <2>3. \A k \in 1 .. Len(r) :
          k <= 5 => k = 1 \/ k = 2 \/ k = 3 \/ k = 4 \/ k = 5
    BY <1>1
  <2> QED
    BY <1>1, <1>6, <2>1, <2>2, <2>3 DEF NamesAt
<1> QED
  BY <1>1, <1>4, <1>5, <1>6 DEF Starts

\* The first cut is at the end of the first block, and there is none only if the
\* block is not complete.
LEMMA CutAtHead ==
  ASSUME NEW r \in Seq(Parts), Framed(r)
  PROVE  /\ Cut(r) # {} =>
              /\ r # <<>> /\ HeadOf(r) \in 2 .. Len(r) - 1
              /\ FirstCut(r) = HeadOf(r)
              /\ r[HeadOf(r)].part = "newline" /\ r[HeadOf(r) + 1].part = "newline"
         /\ Cut(r) = {} /\ r # <<>> => Len(r) <= HeadOf(r)
<1>1. Len(r) \in Nat
  OBVIOUS
<1>2. ASSUME NEW q \in Cut(r)
      PROVE  r # <<>> /\ q \in 1 .. Len(r) - 1 /\ HeadOf(r) <= q
  <2>1. q \in 1 .. Len(r) - 1 /\ r[q] = NL
    BY DEF Cut
  <2>2. r # <<>> /\ r[q].part = "newline" /\ q \in 1 .. Len(r)
    BY <1>1, <2>1 DEF NL, Part
  <2> QED
    BY <2>1, <2>2, HeadShape
<1>3. ASSUME r # <<>>, HeadOf(r) + 1 <= Len(r)
      PROVE  /\ HeadOf(r) \in Cut(r) /\ HeadOf(r) \in 2 .. Len(r) - 1
             /\ r[HeadOf(r)].part = "newline" /\ r[HeadOf(r) + 1].part = "newline"
  <2>1. HeadOf(r) \in 1 .. Len(r) /\ HeadOf(r) + 1 \in 1 .. Len(r)
    BY <1>1, <1>3, HeadShape
  <2>2. r[HeadOf(r)].part = "newline" /\ r[HeadOf(r) + 1].part = "newline"
    BY <1>3, <2>1, HeadShape
  <2>3. r[HeadOf(r)] = NL /\ r[HeadOf(r) + 1] = NL
    BY <2>1, <2>2, NewlineFollows
  <2>4. HeadOf(r) \in 2 .. Len(r) - 1
    BY <1>1, <1>3, HeadShape
  <2> QED
    BY <2>2, <2>3, <2>4, <1>1 DEF Cut
<1>4. ASSUME Cut(r) # {}
      PROVE  /\ r # <<>> /\ HeadOf(r) \in 2 .. Len(r) - 1
             /\ FirstCut(r) = HeadOf(r)
             /\ r[HeadOf(r)].part = "newline" /\ r[HeadOf(r) + 1].part = "newline"
  <2>1. r # <<>> /\ HeadOf(r) + 1 <= Len(r)
    BY <1>1, <1>2, <1>4, HeadShape
  <2>2. HeadOf(r) \in Cut(r) /\ \A q \in Cut(r) : HeadOf(r) <= q
    BY <1>2, <1>3, <2>1
  <2>3. \A p \in Cut(r) : (\A q \in Cut(r) : p <= q) => p = HeadOf(r)
    <3>1. Cut(r) \subseteq Int
      BY <1>1 DEF Cut
    <3> QED
      BY <2>2, <3>1
  <2>4. FirstCut(r) = HeadOf(r)
    BY <2>2, <2>3 DEF FirstCut
  <2> QED
    BY <2>1, <2>4, <1>3
<1>5. ASSUME Cut(r) = {}, r # <<>> PROVE Len(r) <= HeadOf(r)
  BY <1>1, <1>3, <1>5, HeadShape
<1> QED
  BY <1>4, <1>5

\* What follows the first block is framed.
LEMMA SuffixFramed ==
  ASSUME NEW r \in Seq(Parts), NEW q \in Seq(Parts), Framed(r),
         NEW p \in 2 .. Len(r) - 1,
         r[p].part = "newline", r[p + 1].part = "newline",
         Len(q) = Len(r) - (p + 1),
         \A k \in 1 .. Len(q) : q[k] = r[k + (p + 1)]
  PROVE  Framed(q) /\ (Complete(r) => Complete(q))
<1>1. Len(r) \in Nat /\ Len(q) \in Nat /\ p \in Nat
  OBVIOUS
<1>2. \A k \in 1 .. Len(q) : WellMade(q[k])
  <2>1. \A k \in 1 .. Len(q) : k + (p + 1) \in 1 .. Len(r)
    BY <1>1
  <2> QED
    BY <2>1 DEF Framed
<1>3. q # <<>> => Starts(q[1])
  <2> SUFFICES ASSUME q # <<>> PROVE Starts(q[1])
    OBVIOUS
  <2>1. Len(q) >= 1 /\ q[1] = r[1 + (p + 1)]
    BY <1>1
  <2>2. p + 1 \in 2 .. Len(r) - 1 /\ (p + 1) - 1 = p /\ (p + 1) + 1 = 1 + (p + 1)
    BY <1>1, <2>1
  <2>3. Starts(r[(p + 1) + 1])
    <3>1. r[(p + 1) - 1].part = "newline"
      BY <2>2
    <3> QED
      BY <2>2, <3>1 DEF Framed
  <2> QED
    BY <2>1, <2>2, <2>3
<1>4. \A k \in 1 .. Len(q) - 1 : Follows(q[k], q[k + 1])
  <2> SUFFICES ASSUME NEW k \in 1 .. Len(q) - 1 PROVE Follows(q[k], q[k + 1])
    OBVIOUS
  <2> DEFINE j == k + (p + 1)
  <2>1. j \in 1 .. Len(r) - 1 /\ j + 1 = (k + 1) + (p + 1)
    BY <1>1
  <2>2. q[k] = r[j]
    BY <1>1
  <2>3. q[k + 1] = r[(k + 1) + (p + 1)]
    <3>1. k + 1 \in 1 .. Len(q)
      BY <1>1
    <3> QED
      BY <3>1
  <2> HIDE DEF j
  <2> QED
    BY <2>1, <2>2, <2>3 DEF Framed
<1>5. \A k \in 2 .. Len(q) - 1 : q[k].part = "newline" =>
        IF q[k - 1].part = "newline" THEN Starts(q[k + 1])
                                     ELSE q[k + 1].part = "newline"
  <2> SUFFICES ASSUME NEW k \in 2 .. Len(q) - 1, q[k].part = "newline"
               PROVE  IF q[k - 1].part = "newline" THEN Starts(q[k + 1])
                                                   ELSE q[k + 1].part = "newline"
    OBVIOUS
  <2> DEFINE j == k + (p + 1)
  <2>1. /\ j \in 2 .. Len(r) - 1 /\ j + 1 = (k + 1) + (p + 1)
        /\ j - 1 = (k - 1) + (p + 1) /\ k \in 1 .. Len(q)
    BY <1>1
  <2>2. q[k] = r[k + (p + 1)]
    BY <2>1
  <2>3. q[k + 1] = r[(k + 1) + (p + 1)]
    <3>1. k + 1 \in 1 .. Len(q)
      BY <1>1
    <3> QED
      BY <3>1
  <2>4. q[k - 1] = r[(k - 1) + (p + 1)]
    <3>1. k - 1 \in 1 .. Len(q)
      BY <1>1
    <3> QED
      BY <3>1
  <2> HIDE DEF j
  <2> QED
    BY <2>1, <2>2, <2>3, <2>4 DEF Framed
<1>6. ASSUME Complete(r) PROVE Complete(q)
  <2> SUFFICES ASSUME q # <<>>
               PROVE  /\ Len(q) > 1
                      /\ q[Len(q)].part = "newline" /\ q[Len(q) - 1].part = "newline"
    BY DEF Complete
  <2>1. Len(q) >= 1 /\ r # <<>>
    BY <1>1
  <2>2. r[Len(r)].part = "newline" /\ r[Len(r) - 1].part = "newline"
    BY <1>6, <2>1 DEF Complete
  <2>3. q[Len(q)] = r[Len(r)]
    BY <1>1, <2>1
  <2>4. Len(q) > 1
    BY <1>1, <1>3, <2>1, <2>2, <2>3 DEF Starts
  <2>5. q[Len(q) - 1] = r[Len(r) - 1]
    BY <1>1, <2>4
  <2> QED
    BY <2>2, <2>3, <2>4, <2>5
<1> QED
  BY <1>2, <1>3, <1>4, <1>5, <1>6 DEF Framed

\* What parse_sse_block makes of a block, complete or cut off: an answer gives
\* an item, done and comments do not (stream.rs:64-93).
LEMMA ParsedBlock ==
  ASSUME NEW b \in Seq(Parts), Framed(b), Len(b) <= HeadOf(b) \/ b = <<>>
  PROVE  /\ Parsed(b) # Nothing =>
              /\ b # <<>> /\ NamesAt(b, 1) /\ b[1].of \in Answers
              /\ Parsed(b) \in Items /\ Parsed(b).text = b[1].of.text
              /\ Parsed(b).kind = "error" <=> b[1].of.kind = "error"
              /\ Parsed(b).kind = "truncated" => Len(b) < 3
         /\ b # <<>> /\ NamesAt(b, 1) /\ b[1].of # Done /\ Len(b) >= 3
              => Parsed(b) # Nothing
<1>1. CASE b = <<>> \/ b[1].part = "colon"
  <2>1. ~Has(b, "name")
    BY <1>1, HeadShape DEF Has, NamesAt
  <2>2. Parsed(b) = Nothing
    BY <2>1 DEF Parsed
  <2> QED
    BY <1>1, <2>2 DEF NamesAt
<1>2. CASE b # <<>> /\ b[1].part = "name"
  <2> DEFINE e == b[1].of
             whole == Has(b, "data")
             good == \A k \in DOMAIN b : b[k].good
  <2>1. /\ Len(b) \in Nat /\ Len(b) >= 1 /\ DOMAIN b = 1 .. Len(b)
        /\ b[1].of \in Sendable /\ Len(b) <= HeadOf(b)
    BY <1>2 DEF Framed, WellMade
  <2>2. \A k \in DOMAIN b : b[k].part = "name" <=> k = 1
    <3>1. \A k \in 2 .. Len(b) : ~NamesAt(b, k)
      BY <1>2, <2>1, HeadShape
    <3> QED
      BY <1>2, <2>1, <3>1 DEF NamesAt
  <2>3. Has(b, "name") /\ LastOf(b, "name") = b[1]
    <3> DEFINE C(k) == /\ b[k].part = "name"
                       /\ \A j \in DOMAIN b : b[j].part = "name" => j <= k
    <3>1. 1 \in DOMAIN b /\ C(1)
      BY <1>2, <2>1, <2>2
    <3>2. \A k \in DOMAIN b : C(k) => k = 1
      BY <2>2
    <3>3. (CHOOSE k \in DOMAIN b : C(k)) = 1
      BY <3>1, <3>2
    <3> QED
      BY <3>1, <3>3 DEF Has, LastOf
  <2>4. Parsed(b) = IF ~(Has(b, "data") \/ Has(b, "lead")) THEN Nothing
                    ELSE CASE e.kind = "translation" ->
                                Event(IF ~whole THEN "truncated"
                                      ELSE IF good THEN "translation"
                                      ELSE "garbled", e.text)
                           [] e.kind = "error" -> e
                           [] OTHER -> Nothing
    BY <2>3 DEF Parsed
  <2> HIDE DEF good
  <2>5. CASE e = Done
    <3>1. Parsed(b) = Nothing
      BY <2>4, <2>5 DEF Done
    <3> QED
      BY <2>5, <3>1
  <2>6. CASE e # Done
    <3>1. e \in Answers
      BY <2>1, <2>6 DEF Sendable
    <3>2. /\ e.kind \in {"translation", "error"} /\ e.text \in Nat
          /\ e = [kind |-> e.kind, text |-> e.text]
      BY <3>1 DEF Answers
    <3>3. Len(b) >= 3 => whole
      <4> SUFFICES ASSUME Len(b) >= 3 PROVE whole
        OBVIOUS
      <4>1. b[3].part = "data" /\ 3 \in DOMAIN b
        BY <1>2, <2>1, <2>6, HeadShape
      <4> QED
        BY <4>1 DEF Has
    <3> HIDE DEF whole, e
    <3>4. \/ Parsed(b) = Nothing /\ ~whole
          \/ Parsed(b) = e
          \/ Parsed(b) = Event("garbled", e.text) /\ e.kind = "translation"
          \/ /\ Parsed(b) = Event("truncated", e.text) /\ e.kind = "translation"
             /\ ~whole
      <4>1. whole => Has(b, "data") \/ Has(b, "lead")
        BY DEF whole
      <4>2. CASE ~(Has(b, "data") \/ Has(b, "lead"))
        BY <2>4, <4>1, <4>2
      <4>3. CASE (Has(b, "data") \/ Has(b, "lead")) /\ e.kind = "error"
        <5>1. Parsed(b) = e
          BY <2>4, <4>3
        <5> QED
          BY <5>1
      <4>4. CASE (Has(b, "data") \/ Has(b, "lead")) /\ e.kind = "translation"
        <5>1. Parsed(b) = Event(IF ~whole THEN "truncated"
                                ELSE IF good THEN "translation"
                                ELSE "garbled", e.text)
          BY <2>4, <4>4
        <5>2. CASE whole /\ good
          <6>1. Parsed(b) = Event("translation", e.text)
            BY <5>1, <5>2
          <6> QED
            BY <3>2, <4>4, <6>1 DEF Event
        <5>3. CASE whole /\ ~good
          BY <4>4, <5>1, <5>3
        <5>4. CASE ~whole
          BY <4>4, <5>1, <5>4
        <5> QED
          BY <5>2, <5>3, <5>4
      <4> QED
        BY <3>2, <4>2, <4>3, <4>4
    <3>5. whole => Parsed(b) # Nothing
      BY <3>2, <3>4 DEF Event, Nothing
    <3>6. Parsed(b) # Nothing =>
            /\ Parsed(b) \in Items /\ Parsed(b).text = e.text
            /\ Parsed(b).kind = "error" <=> e.kind = "error"
            /\ Parsed(b).kind = "truncated" => ~whole
      <4>1. CASE Parsed(b) = e
        BY <4>1, <3>2 DEF Items
      <4>2. CASE Parsed(b) = Event("garbled", e.text) /\ e.kind = "translation"
        BY <4>2, <3>2 DEF Items, Event
      <4>3. CASE /\ Parsed(b) = Event("truncated", e.text) /\ ~whole
                 /\ e.kind = "translation"
        BY <4>3, <3>2 DEF Items, Event
      <4> QED
        BY <3>4, <4>1, <4>2, <4>3
    <3> QED
      BY <1>2, <2>1, <3>1, <3>3, <3>5, <3>6 DEF e, NamesAt
  <2> QED
    BY <2>5, <2>6
<1> QED
  BY <1>1, <1>2, HeadShape DEF Starts

LEMMA SimilarInOrder ==
  ASSUME NEW r \in Seq(Parts), NEW q \in Seq(Parts), Similar(q, r),
         InSent(r), Increasing(r), NoGap(r)
  PROVE  /\ InSent(q) /\ Increasing(q) /\ NoGap(q)
         /\ Len(q) = Len(r) /\ AllThere(r) => AllThere(q)
<1>1. /\ Len(q) \in Nat /\ Len(r) \in Nat /\ Len(q) <= Len(r)
      /\ \A k \in 1 .. Len(q) :
           /\ k \in 1 .. Len(r) /\ q[k].of = r[k].of
           /\ NamesAt(q, k) <=> NamesAt(r, k)
  BY DEF Similar, NamesAt
<1>2. InSent(q)
  BY <1>1 DEF InSent
<1>3. Increasing(q)
  BY <1>1 DEF Increasing
<1>4. NoGap(q)
  <2> SUFFICES ASSUME NEW l \in 1 .. Len(q), NamesAt(q, l),
                      NEW n \in Len(yielded) + 1 .. Index(q[l].of)
               PROVE  \E k \in 1 .. l : NamesAt(q, k) /\ Index(q[k].of) = n
    BY DEF NoGap
  <2>1. \E k \in 1 .. l : NamesAt(r, k) /\ Index(r[k].of) = n
    BY <1>1 DEF NoGap
  <2>2. \A k \in 1 .. l : k \in 1 .. Len(q)
    BY <1>1
  <2> QED
    BY <1>1, <2>1, <2>2
<1>5. Len(q) = Len(r) /\ AllThere(r) => AllThere(q)
  BY <1>1 DEF AllThere
<1> QED
  BY <1>2, <1>3, <1>4, <1>5

-----------------------------------------------------------------------------
(* The steps of the stream *)

LEMMA StreamInit == SseInit => StreamInv
<1> SUFFICES ASSUME SseInit PROVE StreamInv
  OBVIOUS
<1>1. /\ Unparsed = <<>> /\ Len(sent) = 0 /\ Len(channel) = 0 /\ Len(yielded) = 0
      /\ Len(<<>>) = 0
  BY DEF SseInit, Unparsed
<1>2. StreamTyped
  <2>1. /\ <<>> \in Seq(Sendable) /\ <<>> \in Seq(Parts) /\ <<>> \in Seq(Items)
        /\ Done \in Sendable
    BY DEF Sendable
  <2> QED
    BY <2>1 DEF SseInit, StreamTyped
<1>3. SentNumbered /\ ChannelHolds /\ Yields /\ EndsWell
  BY <1>1 DEF SseInit, SentNumbered, ChannelHolds, Passed, Yields, EndsWell
<1>4. UnparsedFramed
  BY <1>1 DEF UnparsedFramed, Framed, Complete
<1>5. UnparsedInOrder
  BY <1>1 DEF UnparsedInOrder, InSent, Increasing, NoGap, AllThere, Passed
<1> QED
  BY <1>2, <1>3, <1>4, <1>5 DEF StreamInv

LEMMA UnparsedTyped ==
  ASSUME StreamTyped
  PROVE  /\ Unparsed \in Seq(Parts) /\ Len(Unparsed) = Len(buffer) + Len(wire)
         /\ \A k \in 1 .. Len(buffer) : Unparsed[k] = buffer[k]
         /\ \A k \in 1 .. Len(wire) : Unparsed[Len(buffer) + k] = wire[k]
BY DEF StreamTyped, Unparsed

\* A step that at most damages what is on its way.
LEMMA UnparsedKept ==
  ASSUME StreamInv, StreamTyped', UNCHANGED <<sent, channel, yielded>>,
         Similar(Unparsed', Unparsed),
         conn' # "broken" => conn # "broken" /\ Len(Unparsed') = Len(Unparsed)
  PROVE  UnparsedFramed' /\ UnparsedInOrder'
<1>1. Unparsed \in Seq(Parts) /\ Unparsed' \in Seq(Parts)
  BY UnparsedTyped DEF StreamInv, StreamTyped, Unparsed
<1>2. UnparsedFramed'
  BY <1>1, SimilarFramed DEF StreamInv, UnparsedFramed
<1>3. /\ InSent(Unparsed') /\ Increasing(Unparsed') /\ NoGap(Unparsed')
      /\ Len(Unparsed') = Len(Unparsed) /\ AllThere(Unparsed) => AllThere(Unparsed')
  BY <1>1, SimilarInOrder DEF StreamInv, UnparsedInOrder
<1>4. /\ InSent(Unparsed)' /\ Increasing(Unparsed)' /\ NoGap(Unparsed)'
      /\ AllThere(Unparsed') => AllThere(Unparsed)'
  BY <1>3 DEF InSent, Increasing, NoGap, AllThere, Index, Passed
<1> QED
  BY <1>2, <1>3, <1>4 DEF StreamInv, UnparsedInOrder

\* A step that leaves it alone.
LEMMA UnparsedAlone ==
  ASSUME StreamInv, UNCHANGED <<sent, channel, yielded, buffer, wire>>,
         conn' # "broken" => conn # "broken"
  PROVE  UnparsedFramed' /\ UnparsedInOrder' /\ Unparsed' = Unparsed
<1>1. Unparsed' = Unparsed
  BY DEF Unparsed
<1>2. UnparsedFramed'
  BY <1>1 DEF StreamInv, UnparsedFramed
<1>3. UnparsedInOrder'
  BY <1>1 DEF StreamInv, UnparsedInOrder, InSent, Increasing, NoGap, AllThere,
              Index, Passed
<1> QED
  BY <1>1, <1>2, <1>3

LEMMA StartKeeps ==
  ASSUME StreamInv, NEW n, Start(n)
  PROVE  StreamInv'
<1>1. /\ task = "none" /\ task' = "working"
      /\ UNCHANGED <<event, sent, channel, receiver, conn, wire, parser, buffer,
                     yielded, erred>>
  BY DEF Start, wireVars, parserVars
<1>2. UnparsedFramed' /\ UnparsedInOrder' /\ Unparsed' = Unparsed
  BY <1>1, UnparsedAlone
<1>3. StreamTyped'
  BY <1>1 DEF StreamInv, StreamTyped
<1>4. SentNumbered' /\ ChannelHolds' /\ Yields' /\ EndsWell'
  BY <1>1, <1>2 DEF StreamInv, SentNumbered, ChannelHolds, Passed, Yields, EndsWell
<1> QED
  BY <1>2, <1>3, <1>4 DEF StreamInv

LEMMA TranslateKeeps ==
  ASSUME StreamInv, Translate
  PROVE  StreamInv'
<1>1. /\ task = "working" /\ task' = "sending"
      /\ UNCHANGED <<sent, channel, receiver, conn, wire, parser, buffer, yielded,
                     erred>>
  BY DEF Translate, Sending, Panicked, wireVars, parserVars
<1>2. UnparsedFramed' /\ UnparsedInOrder' /\ Unparsed' = Unparsed
  BY <1>1, UnparsedAlone
<1>3. event' \in Sendable /\ (event' = Done \/ event'.text = Len(sent) + 1)
  <2>1. CASE \E kind \in {"translation", "error"} : Sending(Event(kind, Len(sent) + 1))
    BY <2>1 DEF Sending, Event, Sendable, Answers, StreamInv, StreamTyped
  <2>2. CASE Panicked
    BY <2>2 DEF Panicked, Sending, Sendable
  <2> QED
    BY <2>1, <2>2 DEF Translate
<1>4. StreamTyped'
  BY <1>1, <1>3 DEF StreamInv, StreamTyped
<1>5. SentNumbered' /\ ChannelHolds' /\ Yields' /\ EndsWell'
  BY <1>1, <1>2, <1>3
     DEF StreamInv, SentNumbered, ChannelHolds, Passed, Yields, EndsWell
<1> QED
  BY <1>2, <1>4, <1>5 DEF StreamInv

LEMMA SendEventKeeps ==
  ASSUME StreamInv, SendEvent
  PROVE  StreamInv'
<1> USE DEF StreamInv
<1>1. /\ task = "sending"
      /\ UNCHANGED <<receiver, conn, wire, parser, buffer, yielded, erred>>
  BY DEF SendEvent, parserVars
<1>2. CASE ~receiver /\ task' = "ended" /\ UNCHANGED <<event, sent, channel>>
  <2>1. UnparsedFramed' /\ UnparsedInOrder' /\ Unparsed' = Unparsed
    BY <1>1, <1>2, UnparsedAlone
  <2>2. StreamTyped'
    BY <1>1, <1>2 DEF StreamTyped
  <2>3. SentNumbered' /\ ChannelHolds' /\ Yields' /\ EndsWell'
    BY <1>1, <1>2, <2>1 DEF SentNumbered, ChannelHolds, Passed, Yields, EndsWell
  <2> QED
    BY <2>1, <2>2, <2>3
<1>3. CASE /\ receiver /\ Proceed
           /\ channel' = Append(channel, event) /\ sent' = Append(sent, event)
  <2>1. /\ sent \in Seq(Sendable) /\ channel \in Seq(Sendable) /\ event \in Sendable
        /\ Passed \in Nat /\ Len(yielded) \in Nat
        /\ \A j \in 1 .. Len(sent) : sent[j] # Done /\ sent[j].text = j
        /\ event = Done \/ event.text = Len(sent) + 1
        /\ conn # "finished"
    BY <1>1 DEF StreamTyped, SentNumbered, ChannelHolds
  <2>2. /\ sent' \in Seq(Sendable) /\ Len(sent') = Len(sent) + 1
        /\ \A j \in 1 .. Len(sent) : sent'[j] = sent[j]
        /\ sent'[Len(sent')] = event
        /\ channel' \in Seq(Sendable) /\ Len(channel') = Len(channel) + 1
        /\ \A j \in 1 .. Len(channel) : channel'[j] = channel[j]
        /\ channel'[Len(channel')] = event
    BY <1>3, <2>1
  <2>3. /\ task' \in {"working", "sending", "ended"} /\ event' \in Sendable
        /\ task' = "ended" <=> event = Done
        /\ task' = "sending" => event' = Done
    BY <1>3, <2>1 DEF Proceed, Sending, Sendable
  <2>4. StreamTyped'
    BY <1>1, <2>2, <2>3 DEF StreamTyped
  <2>5. SentNumbered'
    <3>1. ASSUME NEW j \in 1 .. Len(sent')
          PROVE  IF sent'[j] = Done THEN j = Len(sent') /\ task' = "ended"
                                    ELSE sent'[j].text = j
      <4>1. CASE j = Len(sent')
        BY <2>2, <2>1, <2>3, <4>1
      <4>2. CASE j # Len(sent')
        <5>1. j \in 1 .. Len(sent)
          BY <2>1, <2>2, <4>2
        <5> QED
          BY <2>1, <2>2, <5>1
      <4> QED
        BY <4>1, <4>2
    <3>2. sent' # <<>>
      BY <2>1, <2>2
    <3> QED
      BY <2>2, <2>3, <3>1, <3>2 DEF SentNumbered
  <2>6. Passed' = Passed /\ Passed <= Len(sent) /\ Passed + Len(channel') = Len(sent')
    BY <2>1, <2>2 DEF Passed
  <2>7. ChannelHolds'
    <3>1. ASSUME NEW i \in 1 .. Len(channel')
          PROVE  channel'[i] = sent'[Passed + i]
      <4>1. Len(channel) \in Nat /\ Len(sent) \in Nat /\ Len(channel') = Len(channel) + 1
        BY <2>1, <2>2
      <4>2. CASE i = Len(channel')
        BY <2>2, <2>6, <4>2
      <4>3. CASE i # Len(channel')
        <5>1. i \in 1 .. Len(channel) /\ Passed + i \in 1 .. Len(sent)
          BY <2>1, <2>2, <2>6, <4>1, <4>3
        <5>2. channel[i] = sent[Passed + i]
          BY <5>1 DEF ChannelHolds
        <5> QED
          BY <2>2, <5>1, <5>2
      <4> QED
        BY <4>2, <4>3
    <3> QED
      BY <1>1, <1>3, <2>1, <2>6, <3>1 DEF ChannelHolds
  <2>8. Unparsed' = Unparsed /\ Unparsed \in Seq(Parts)
    BY <1>1, UnparsedTyped DEF Unparsed
  <2>9. UnparsedFramed'
    BY <1>1, <2>8 DEF UnparsedFramed
  <2>10. \A k \in 1 .. Len(Unparsed) : NamesAt(Unparsed, k) =>
           /\ Unparsed[k].of # Done /\ Index(Unparsed[k].of)' = Index(Unparsed[k].of)
    <3> SUFFICES ASSUME NEW k \in 1 .. Len(Unparsed), NamesAt(Unparsed, k)
                 PROVE  /\ Unparsed[k].of # Done
                        /\ Index(Unparsed[k].of)' = Index(Unparsed[k].of)
      OBVIOUS
    <3>1. /\ Index(Unparsed[k].of) \in 1 .. Len(sent)
          /\ sent[Index(Unparsed[k].of)] = Unparsed[k].of
      BY <2>1, <2>6 DEF UnparsedInOrder, InSent
    <3>2. Unparsed[k].of # Done
      BY <2>1, <3>1
    <3> QED
      BY <2>8, <3>2 DEF Index
  <2>11. InSent(Unparsed)'
    <3> SUFFICES ASSUME NEW k \in 1 .. Len(Unparsed), NamesAt(Unparsed, k)
                 PROVE  /\ Index(Unparsed[k].of) \in Len(yielded) + 1 .. Passed
                        /\ sent'[Index(Unparsed[k].of)] = Unparsed[k].of
      BY <1>1, <2>6, <2>8, <2>10 DEF InSent, NamesAt
    <3>1. /\ Index(Unparsed[k].of) \in Len(yielded) + 1 .. Passed
          /\ sent[Index(Unparsed[k].of)] = Unparsed[k].of
      BY DEF UnparsedInOrder, InSent
    <3>2. Index(Unparsed[k].of) \in 1 .. Len(sent)
      BY <2>1, <2>6, <3>1
    <3> QED
      BY <2>2, <3>1, <3>2
  <2>12. Increasing(Unparsed)'
    BY <2>8, <2>10 DEF UnparsedInOrder, Increasing, NamesAt
  <2>13. NoGap(Unparsed)'
    <3>1. \A l \in 1 .. Len(Unparsed) : \A k \in 1 .. l : k \in 1 .. Len(Unparsed)
      BY <2>8
    <3> QED
      BY <1>1, <2>8, <2>10, <3>1 DEF UnparsedInOrder, NoGap, NamesAt
  <2>14. conn # "broken" => AllThere(Unparsed)'
    <3>1. \A n \in Len(yielded) + 1 .. Passed : n \in 1 .. Len(sent)
      BY <2>1, <2>6
    <3>2. \A n \in Len(yielded) + 1 .. Passed : sent'[n] = sent[n]
      BY <2>2, <3>1
    <3> QED
      BY <1>1, <2>6, <2>8, <3>2 DEF UnparsedInOrder, AllThere, NamesAt
  <2>15. Yields'
    <3>1. \A j \in 1 .. Len(yielded) : j <= Passed => j \in 1 .. Len(sent)
      BY <2>1, <2>6
    <3>2. \A j \in 1 .. Len(yielded) : j <= Passed => sent'[j] = sent[j]
      BY <2>2, <3>1
    <3> QED
      BY <1>1, <2>6, <2>8, <3>2 DEF Yields
  <2>16. EndsWell'
    BY <1>1, <2>1 DEF EndsWell
  <2> QED
    BY <1>1, <2>4, <2>5, <2>7, <2>9, <2>11, <2>12, <2>13, <2>14, <2>15, <2>16
       DEF UnparsedInOrder
<1> QED
  BY <1>2, <1>3 DEF SendEvent

\* Whole events, or a comment, are added to what is on its way.
LEMMA WireGrows ==
  ASSUME StreamTyped, Framed(Unparsed), Complete(Unparsed), buffer' = buffer,
         NEW e \in Sendable \cup {Comment}, wire' = wire \o Bytes(e)
  PROVE  /\ Unparsed' = Unparsed \o Bytes(e) /\ wire' \in Seq(Parts)
         /\ Framed(Unparsed') /\ Complete(Unparsed')
<1>1. wire' \in Seq(Parts) /\ Unparsed \in Seq(Parts) /\ Bytes(e) \in Seq(Parts)
  <2>1. Bytes(e) \in Seq(Parts)
    BY BytesShape
  <2>2. wire \in Seq(Parts) /\ buffer \in Seq(Parts)
    BY DEF StreamTyped
  <2> QED
    BY <2>1, <2>2 DEF Unparsed
<1>2. Unparsed' = Unparsed \o Bytes(e)
  <2>1. buffer \in Seq(Parts) /\ wire \in Seq(Parts)
    BY DEF StreamTyped
  <2>2. buffer \o (wire \o Bytes(e)) = (buffer \o wire) \o Bytes(e)
    BY <1>1, <2>1, ConcatAssociative, SMTT(20)
  <2> QED
    BY <2>2 DEF Unparsed
<1>3. Framed(Unparsed \o Bytes(e)) /\ Complete(Unparsed \o Bytes(e))
  BY <1>1, BytesShape, ConcatFramed
<1> QED
  BY <1>1, <1>2, <1>3

LEMMA CommentKeeps ==
  ASSUME StreamInv, conn = "open", wire' = wire \o Bytes(Comment),
         UNCHANGED <<taskVars, channel, receiver, conn, parserVars>>
  PROVE  StreamInv'
<1> USE DEF StreamInv
<1> DEFINE b == Bytes(Comment)
<1>1. UNCHANGED <<task, event, sent, channel, receiver, conn, parser, buffer,
                  yielded, erred>>
  BY DEF taskVars, parserVars
<1>2. /\ Unparsed' = Unparsed \o b /\ wire' \in Seq(Parts)
      /\ Framed(Unparsed') /\ Complete(Unparsed')
  BY <1>1, WireGrows DEF UnparsedFramed
<1>3. StreamTyped' /\ UnparsedFramed'
  BY <1>1, <1>2 DEF StreamTyped, UnparsedFramed
<1>4. b \in Seq(Parts) /\ \A k \in 1 .. Len(b) : ~NamesAt(b, k)
  BY BytesShape
<1>5. /\ Unparsed \in Seq(Parts) /\ Len(Unparsed) \in Nat
      /\ Unparsed' \in Seq(Parts) /\ Len(Unparsed') \in Nat
      /\ Len(Unparsed') >= Len(Unparsed)
      /\ \A k \in 1 .. Len(Unparsed) : Unparsed'[k] = Unparsed[k]
      /\ \A k \in 1 .. Len(Unparsed') :
           k > Len(Unparsed) => ~NamesAt(Unparsed', k)
  <2>1. Unparsed \in Seq(Parts)
    BY UnparsedTyped
  <2> HIDE DEF b
  <2>2. /\ Len(Unparsed \o b) = Len(Unparsed) + Len(b)
        /\ \A k \in 1 .. Len(Unparsed \o b) :
             (Unparsed \o b)[k] = IF k <= Len(Unparsed) THEN Unparsed[k]
                                  ELSE b[k - Len(Unparsed)]
    BY <2>1, <1>4
  <2> QED
    BY <2>1, <2>2, <1>2, <1>4 DEF NamesAt
<1>6. InSent(Unparsed)' /\ Increasing(Unparsed)'
  <2>1. \A k \in 1 .. Len(Unparsed') : NamesAt(Unparsed', k) =>
          k \in 1 .. Len(Unparsed) /\ Unparsed'[k] = Unparsed[k]
    BY <1>5
  <2>2. Passed' = Passed /\ \A e : Index(e)' = Index(e)
    BY <1>1 DEF Passed, Index
  <2>3. InSent(Unparsed)'
    BY <1>1, <2>1, <2>2 DEF UnparsedInOrder, InSent, NamesAt
  <2>4. Increasing(Unparsed)'
    BY <1>1, <2>1, <2>2 DEF UnparsedInOrder, Increasing, NamesAt
  <2> QED
    BY <2>3, <2>4
<1>7. NoGap(Unparsed)'
  <2> SUFFICES ASSUME NEW l \in 1 .. Len(Unparsed'), NamesAt(Unparsed', l),
                      NEW n \in Len(yielded) + 1 .. Index(Unparsed'[l].of)
               PROVE  \E k \in 1 .. l :
                        NamesAt(Unparsed', k) /\ Index(Unparsed'[k].of) = n
    BY <1>1 DEF NoGap, NamesAt, Index
  <2>1. l \in 1 .. Len(Unparsed) /\ Unparsed'[l] = Unparsed[l]
    BY <1>5
  <2>2. \E k \in 1 .. l : NamesAt(Unparsed, k) /\ Index(Unparsed[k].of) = n
    BY <2>1 DEF UnparsedInOrder, NoGap, NamesAt
  <2>3. \A k \in 1 .. l : Unparsed'[k] = Unparsed[k]
    BY <1>5, <2>1
  <2> QED
    BY <2>2, <2>3 DEF NamesAt
<1>8. AllThere(Unparsed)'
  <2>1. AllThere(Unparsed) /\ Passed' = Passed
    BY <1>1 DEF UnparsedInOrder, Passed
  <2>2. \A k \in 1 .. Len(Unparsed) : k \in 1 .. Len(Unparsed')
    BY <1>5
  <2> QED
    BY <1>1, <1>5, <2>1, <2>2 DEF AllThere, NamesAt
<1>9. SentNumbered' /\ ChannelHolds' /\ Yields' /\ EndsWell'
  BY <1>1 DEF SentNumbered, ChannelHolds, Passed, Yields, EndsWell
<1> QED
  BY <1>3, <1>6, <1>7, <1>8, <1>9 DEF UnparsedInOrder

LEMMA PassOnKeeps ==
  ASSUME StreamInv, conn = "open", receiver, channel # <<>>,
         wire' = wire \o Bytes(Head(channel)), channel' = Tail(channel),
         UNCHANGED <<taskVars, receiver, conn, parserVars>>
  PROVE  StreamInv'
<1> USE DEF StreamInv
<1> DEFINE h == Head(channel)
           b == Bytes(h)
           m == Len(Unparsed)
<1>1. UNCHANGED <<task, event, sent, receiver, conn, parser, buffer, yielded, erred>>
  BY DEF taskVars, parserVars
<1>2. /\ h \in Sendable /\ h = channel[1] /\ Len(channel) \in Nat /\ Len(channel) > 0
      /\ channel' \in Seq(Sendable) /\ Len(channel') = Len(channel) - 1
      /\ \A i \in 1 .. Len(channel') : channel'[i] = channel[i + 1]
  BY DEF StreamTyped
<1>3. /\ Passed \in Nat /\ Passed' = Passed + 1 /\ Passed + 1 <= Len(sent)
      /\ Len(sent) \in Nat /\ Len(yielded) \in Nat /\ sent[Passed + 1] = h
  BY <1>1, <1>2 DEF Passed, ChannelHolds, StreamTyped
<1>4. Index(h) = Passed + 1 /\ h # Comment
  <2>1. Passed + 1 \in 1 .. Len(sent)
    BY <1>3
  <2> QED
    BY <1>2, <1>3, <2>1, EventsApart DEF SentNumbered, Index
<1>5. /\ Unparsed' = Unparsed \o b /\ wire' \in Seq(Parts)
      /\ Framed(Unparsed') /\ Complete(Unparsed')
  BY <1>1, <1>2, WireGrows DEF UnparsedFramed
<1>6. StreamTyped' /\ UnparsedFramed'
  BY <1>1, <1>2, <1>5 DEF StreamTyped, UnparsedFramed
<1>7. /\ b \in Seq(Parts) /\ Len(b) >= 1 /\ b[1].of = h
      /\ \A k \in 1 .. Len(b) : NamesAt(b, k) <=> k = 1
  <2>1. b \in Seq(Parts) /\ b # <<>>
    BY <1>2, BytesShape
  <2> QED
    BY <1>2, <1>4, <2>1, BytesShape
<1>8. /\ m \in Nat /\ Len(Unparsed') \in Nat /\ Len(Unparsed') > m
      /\ \A k \in 1 .. m : Unparsed'[k] = Unparsed[k]
      /\ NamesAt(Unparsed', m + 1) /\ Unparsed'[m + 1].of = h
      /\ \A k \in 1 .. Len(Unparsed') :
           k > m /\ NamesAt(Unparsed', k) => k = m + 1
  <2>1. Unparsed \in Seq(Parts)
    BY UnparsedTyped
  <2> HIDE DEF b
  <2>2. /\ Len(Unparsed \o b) = Len(Unparsed) + Len(b)
        /\ \A k \in 1 .. Len(Unparsed \o b) :
             (Unparsed \o b)[k] = IF k <= Len(Unparsed) THEN Unparsed[k]
                                  ELSE b[k - Len(Unparsed)]
    BY <2>1, <1>7
  <2>3. m \in Nat /\ Len(Unparsed') \in Nat /\ Len(Unparsed') > m
    BY <1>5, <1>7, <2>1, <2>2
  <2>4. Unparsed'[m + 1] = b[1]
    BY <1>5, <2>2, <2>3
  <2>5. \A k \in 1 .. Len(Unparsed') :
          k > m => k - m \in 1 .. Len(b) /\ Unparsed'[k] = b[k - m]
    BY <1>5, <1>7, <2>2, <2>3
  <2>6. \A k \in 1 .. m : Unparsed'[k] = Unparsed[k]
    BY <1>5, <2>2, <2>3
  <2>7. NamesAt(Unparsed', m + 1) /\ Unparsed'[m + 1].of = h
    BY <1>7, <2>4 DEF NamesAt
  <2>8. ASSUME NEW k \in 1 .. Len(Unparsed'), k > m, NamesAt(Unparsed', k)
        PROVE  k = m + 1
    <3>1. k - m \in 1 .. Len(b) /\ Unparsed'[k] = b[k - m]
      BY <2>5, <2>8
    <3>2. NamesAt(b, k - m)
      BY <2>8, <3>1 DEF NamesAt
    <3>3. k - m = 1
      BY <1>7, <3>1, <3>2
    <3> QED
      BY <2>3, <3>3
  <2> HIDE DEF m, h
  <2> QED
    BY <2>3, <2>6, <2>7, <2>8
<1> HIDE DEF m, b, h
\* The names of before are those of before, and the new one is the next.
<1>9. /\ \A k \in 1 .. m : NamesAt(Unparsed', k) =>
           /\ NamesAt(Unparsed, k) /\ Unparsed'[k].of = Unparsed[k].of
           /\ Index(Unparsed[k].of) \in Len(yielded) + 1 .. Passed
           /\ sent[Index(Unparsed[k].of)] = Unparsed[k].of
      /\ \A e : Index(e)' = Index(e)
  BY <1>1, <1>8 DEF UnparsedInOrder, InSent, NamesAt, Index, m
<1>10. Len(yielded) <= Passed
  BY <1>3 DEF Yields
<1>11. InSent(Unparsed)'
  <2> SUFFICES ASSUME NEW k \in 1 .. Len(Unparsed'), NamesAt(Unparsed', k)
               PROVE  /\ Index(Unparsed'[k].of) \in Len(yielded) + 1 .. Passed + 1
                      /\ sent[Index(Unparsed'[k].of)] = Unparsed'[k].of
    BY <1>1, <1>3 DEF InSent, NamesAt, Index
  <2>1. CASE k \in 1 .. m
    BY <2>1, <1>3, <1>9
  <2>2. CASE k = m + 1
    BY <2>2, <1>3, <1>4, <1>8, <1>10
  <2> QED
    BY <2>1, <2>2, <1>8
<1>12. Increasing(Unparsed)'
  <2> SUFFICES ASSUME NEW k \in 1 .. Len(Unparsed'), NEW l \in 1 .. Len(Unparsed'),
                      k < l, NamesAt(Unparsed', k), NamesAt(Unparsed', l)
               PROVE  Index(Unparsed'[k].of) < Index(Unparsed'[l].of)
    BY <1>9 DEF Increasing, NamesAt
  <2>1. k \in 1 .. m
    BY <1>8
  <2>2. CASE l \in 1 .. m
    BY <2>1, <2>2, <1>9 DEF UnparsedInOrder, Increasing, m
  <2>3. CASE l = m + 1
    BY <2>1, <2>3, <1>3, <1>4, <1>8, <1>9
  <2> QED
    BY <2>2, <2>3, <1>8
<1>13. NoGap(Unparsed)'
  <2> SUFFICES ASSUME NEW l \in 1 .. Len(Unparsed'), NamesAt(Unparsed', l),
                      NEW n \in Len(yielded) + 1 .. Index(Unparsed'[l].of)
               PROVE  \E k \in 1 .. l :
                        NamesAt(Unparsed', k) /\ Index(Unparsed'[k].of) = n
    BY <1>1, <1>9 DEF NoGap, NamesAt
  <2>1. CASE l \in 1 .. m
    <3>1. NamesAt(Unparsed, l) /\ Unparsed'[l].of = Unparsed[l].of
      BY <2>1, <1>9
    <3>2. \E k \in 1 .. l : NamesAt(Unparsed, k) /\ Index(Unparsed[k].of) = n
      BY <2>1, <3>1 DEF UnparsedInOrder, NoGap, m
    <3>3. \A k \in 1 .. l : Unparsed'[k] = Unparsed[k]
      BY <2>1, <1>8
    <3> QED
      BY <3>2, <3>3 DEF NamesAt
  <2>2. CASE l = m + 1
    <3>1. n \in Len(yielded) + 1 .. Passed + 1
      BY <2>2, <1>4, <1>8
    <3>2. CASE n = Passed + 1
      BY <3>2, <2>2, <1>4, <1>8
    <3>3. CASE n \in Len(yielded) + 1 .. Passed
      <4>1. n \in 1 .. Len(sent) /\ n < Len(sent)
        BY <3>3, <1>3
      <4>2. sent[n] # Done
        BY <4>1 DEF SentNumbered
      <4>3. PICK k \in 1 .. m : NamesAt(Unparsed, k) /\ Unparsed[k].of = sent[n]
        BY <3>3, <4>2 DEF UnparsedInOrder, AllThere, m
      <4>4. Index(sent[n]) = n
        BY <4>1, <4>2 DEF Index, SentNumbered
      <4>5. NamesAt(Unparsed', k) /\ Index(Unparsed'[k].of) = n
        BY <4>3, <4>4, <1>8 DEF NamesAt
      <4> QED
        BY <4>5, <2>2, <1>8
    <3> QED
      BY <3>1, <3>2, <3>3, <1>3
  <2>3. l \in 1 .. m \/ l = m + 1
    BY <1>8
  <2> QED
    BY <2>1, <2>2, <2>3
<1>14. AllThere(Unparsed)'
  <2> SUFFICES ASSUME NEW n \in Len(yielded) + 1 .. Passed + 1, sent[n] # Done
               PROVE  \E k \in 1 .. Len(Unparsed') :
                        NamesAt(Unparsed', k) /\ Unparsed'[k].of = sent[n]
    BY <1>1, <1>3 DEF AllThere, NamesAt
  <2>1. CASE n = Passed + 1
    BY <2>1, <1>3, <1>8
  <2>2. CASE n \in Len(yielded) + 1 .. Passed
    <3>1. PICK k \in 1 .. m : NamesAt(Unparsed, k) /\ Unparsed[k].of = sent[n]
      BY <2>2 DEF UnparsedInOrder, AllThere, m
    <3>2. k \in 1 .. Len(Unparsed') /\ Unparsed'[k] = Unparsed[k]
      BY <1>8
    <3> QED
      BY <3>1, <3>2 DEF NamesAt
  <2> QED
    BY <2>1, <2>2, <1>3
<1>15. SentNumbered'
  BY <1>1 DEF SentNumbered
<1>16. ChannelHolds'
  <2>1. \A i \in 1 .. Len(channel') : channel'[i] = sent[(Passed + 1) + i]
    <3> SUFFICES ASSUME NEW i \in 1 .. Len(channel')
                 PROVE  channel'[i] = sent[(Passed + 1) + i]
      OBVIOUS
    <3>1. i + 1 \in 1 .. Len(channel) /\ Passed + (i + 1) = (Passed + 1) + i
      BY <1>2, <1>3
    <3>2. channel[i + 1] = sent[Passed + (i + 1)]
      BY <3>1 DEF ChannelHolds
    <3> QED
      BY <1>2, <3>1, <3>2
  <2> QED
    BY <1>1, <1>3, <2>1 DEF ChannelHolds
<1>17. Yields'
  BY <1>1, <1>3 DEF Yields
<1>18. EndsWell'
  BY <1>1 DEF EndsWell
<1> QED
  BY <1>1, <1>6, <1>11, <1>12, <1>13, <1>14, <1>15, <1>16, <1>17, <1>18
     DEF UnparsedInOrder

LEMMA ForwardKeeps ==
  ASSUME StreamInv, Forward
  PROVE  StreamInv'
<1>1. conn = "open" /\ receiver
  BY DEF Forward, Writable
<1> QED
  BY <1>1, PassOnKeeps, CommentKeeps DEF Forward

LEMMA FinishKeeps ==
  ASSUME StreamInv, Finish
  PROVE  StreamInv'
<1>1. /\ conn = "open" /\ conn' = "finished" /\ task = "ended" /\ channel = <<>>
      /\ receiver /\ parser' = parser
      /\ UNCHANGED <<task, event, sent, channel, receiver, wire, buffer, yielded,
                     erred>>
  BY DEF Finish, taskVars, parserVars
<1>2. UnparsedFramed' /\ UnparsedInOrder' /\ Unparsed' = Unparsed
  BY <1>1, UnparsedAlone
<1>3. StreamTyped'
  BY <1>1 DEF StreamInv, StreamTyped
<1>4. SentNumbered' /\ ChannelHolds' /\ Yields' /\ EndsWell'
  BY <1>1, <1>2 DEF StreamInv, SentNumbered, ChannelHolds, Passed, Yields, EndsWell
<1> QED
  BY <1>2, <1>3, <1>4 DEF StreamInv

LEMMA PollKeeps ==
  ASSUME StreamInv, Poll
  PROVE  StreamInv'
<1>1. /\ parser' = "polling"
      /\ UNCHANGED <<task, event, sent, channel, receiver, conn, wire, buffer,
                     yielded, erred>>
  BY DEF Poll, taskVars, wireVars
<1>2. UnparsedFramed' /\ UnparsedInOrder' /\ Unparsed' = Unparsed
  BY <1>1, UnparsedAlone
<1>3. StreamTyped'
  BY <1>1 DEF StreamInv, StreamTyped
<1>4. SentNumbered' /\ ChannelHolds' /\ Yields' /\ EndsWell'
  BY <1>1, <1>2 DEF StreamInv, SentNumbered, ChannelHolds, Passed, Yields, EndsWell
<1> QED
  BY <1>2, <1>3, <1>4 DEF StreamInv

LEMMA ReadErrorKeeps ==
  ASSUME StreamInv, ReadError
  PROVE  StreamInv'
<1>1. /\ parser' = "idle" /\ erred' = TRUE
      /\ UNCHANGED <<task, event, sent, channel, receiver, conn, wire, buffer,
                     yielded>>
  BY DEF ReadError, taskVars, wireVars
<1>2. UnparsedFramed' /\ UnparsedInOrder' /\ Unparsed' = Unparsed
  BY <1>1, UnparsedAlone
<1>3. StreamTyped'
  BY <1>1 DEF StreamInv, StreamTyped
<1>4. SentNumbered' /\ ChannelHolds' /\ Yields' /\ EndsWell'
  BY <1>1, <1>2 DEF StreamInv, SentNumbered, ChannelHolds, Passed, Yields, EndsWell
<1> QED
  BY <1>2, <1>3, <1>4 DEF StreamInv

LEMMA NoticeKeeps ==
  ASSUME StreamInv, Notice
  PROVE  StreamInv'
<1> USE DEF StreamInv
<1>1. /\ conn = "broken" /\ receiver' = FALSE /\ channel' = <<>>
      /\ UNCHANGED <<task, event, sent, conn, wire, parser, buffer, yielded, erred>>
  BY DEF Notice, taskVars, parserVars
<1>2. Unparsed' = Unparsed /\ Unparsed \in Seq(Parts)
  BY <1>1, UnparsedTyped DEF Unparsed
<1>3. /\ Passed \in Nat /\ Passed <= Passed' /\ Passed' = Len(sent)
      /\ Len(channel') = 0 /\ Len(sent) \in Nat /\ Len(yielded) \in Nat
  BY <1>1 DEF Passed, ChannelHolds, StreamTyped
<1>4. StreamTyped'
  <2>1. <<>> \in Seq(Sendable)
    OBVIOUS
  <2> QED
    BY <1>1, <2>1 DEF StreamTyped
<1>5. UnparsedFramed'
  BY <1>1, <1>2 DEF UnparsedFramed
<1>6. InSent(Unparsed)'
  BY <1>1, <1>2, <1>3 DEF UnparsedInOrder, InSent, NamesAt, Index
<1>7. Increasing(Unparsed)' /\ NoGap(Unparsed)'
  BY <1>1, <1>2 DEF UnparsedInOrder, Increasing, NoGap, NamesAt, Index
<1>8. SentNumbered' /\ ChannelHolds' /\ Yields' /\ EndsWell'
  BY <1>1, <1>2, <1>3 DEF SentNumbered, ChannelHolds, Yields, EndsWell
<1> QED
  BY <1>1, <1>4, <1>5, <1>6, <1>7, <1>8 DEF UnparsedInOrder

LEMMA BufferFramed ==
  ASSUME StreamInv
  PROVE  /\ Framed(buffer) /\ buffer \in Seq(Parts)
         /\ buffer # <<>> =>
              /\ Unparsed # <<>> /\ Unparsed[1] = buffer[1]
              /\ HeadOf(Unparsed) = HeadOf(buffer)
<1>1. /\ Unparsed \in Seq(Parts) /\ buffer \in Seq(Parts) /\ wire \in Seq(Parts)
      /\ Len(Unparsed) = Len(buffer) + Len(wire)
      /\ \A k \in 1 .. Len(buffer) : Unparsed[k] = buffer[k]
      /\ Framed(Unparsed)
  BY UnparsedTyped DEF StreamInv, StreamTyped, UnparsedFramed
<1>2. Similar(buffer, Unparsed)
  <2>1. \A k \in 1 .. Len(buffer) : k \in 1 .. Len(Unparsed)
    BY <1>1
  <2>2. \A k \in 1 .. Len(buffer) : buffer[k].part = "newline" => buffer[k].good
    BY <1>1, <2>1, NewlineFollows DEF NL, Part
  <2> QED
    BY <1>1, <2>2 DEF Similar
<1>3. Framed(buffer)
  BY <1>1, <1>2, SimilarFramed
<1>4. buffer # <<>> => Unparsed # <<>> /\ Unparsed[1] = buffer[1]
  BY <1>1
<1> QED
  BY <1>1, <1>3, <1>4 DEF HeadOf

LEMMA BreakKeeps ==
  ASSUME StreamInv, Break
  PROVE  StreamInv'
<1> USE DEF StreamInv
<1>1. /\ conn # "broken" /\ conn' = "broken" /\ parser \in {"idle", "polling"}
      /\ UNCHANGED <<task, event, sent, channel, receiver, parser, buffer, yielded,
                     erred>>
  BY DEF Break, taskVars, parserVars
<1>2. PICK n \in 0 .. Len(wire) : wire' = SubSeq(wire, 1, n)
  BY DEF Break
<1>3. /\ wire \in Seq(Parts) /\ wire' \in Seq(Parts) /\ Len(wire') = n
      /\ \A k \in 1 .. n : wire'[k] = wire[k]
  BY <1>2 DEF StreamTyped
<1>4. StreamTyped'
  BY <1>1, <1>3 DEF StreamTyped
<1>5. /\ Len(Unparsed') <= Len(Unparsed)
      /\ \A k \in 1 .. Len(Unparsed') :
           k \in 1 .. Len(Unparsed) /\ Unparsed'[k] = Unparsed[k]
  <2>1. /\ buffer \in Seq(Parts) /\ Unparsed' = buffer \o wire'
        /\ Unparsed = buffer \o wire
    BY <1>1 DEF StreamTyped, Unparsed
  <2> QED
    BY <1>2, <1>3, <2>1
<1>6. Similar(Unparsed', Unparsed)
  <2>1. \A k \in 1 .. Len(Unparsed') :
          Unparsed'[k].part = "newline" => Unparsed'[k].good
    <3>1. Unparsed \in Seq(Parts) /\ Framed(Unparsed)
      BY UnparsedTyped DEF UnparsedFramed
    <3> QED
      BY <1>5, <3>1, NewlineFollows DEF NL, Part
  <2> QED
    BY <1>5, <2>1 DEF Similar
<1>7. UnparsedFramed' /\ UnparsedInOrder'
  BY <1>1, <1>4, <1>6, UnparsedKept
<1>8. SentNumbered' /\ ChannelHolds' /\ EndsWell'
  BY <1>1 DEF SentNumbered, ChannelHolds, Passed, EndsWell
<1>9. Yields'
  BY <1>1 DEF Yields, Passed
<1> QED
  BY <1>4, <1>7, <1>8, <1>9

LEMMA DropKeeps ==
  ASSUME StreamInv, Drop
  PROVE  StreamInv'
<1> USE DEF StreamInv
<1>1. /\ conn' = "broken" /\ parser' = "dropped" /\ wire' = <<>>
      /\ UNCHANGED <<task, event, sent, channel, receiver, buffer, yielded, erred>>
  BY DEF Drop, taskVars
<1>2. buffer \in Seq(Parts) /\ Unparsed' = buffer /\ Unparsed = buffer \o wire
  BY <1>1 DEF StreamTyped, Unparsed
<1>3. StreamTyped'
  <2>1. <<>> \in Seq(Parts)
    OBVIOUS
  <2> QED
    BY <1>1, <2>1 DEF StreamTyped
<1>4. Similar(Unparsed', Unparsed)
  <2>1. /\ Len(buffer) <= Len(Unparsed)
        /\ \A k \in 1 .. Len(buffer) : Unparsed[k] = buffer[k]
    BY UnparsedTyped DEF StreamTyped
  <2>2. \A k \in 1 .. Len(buffer) : buffer[k].part = "newline" => buffer[k].good
    BY BufferFramed, NewlineFollows DEF NL, Part
  <2> QED
    BY <1>2, <2>1, <2>2 DEF Similar
<1>5. UnparsedFramed' /\ UnparsedInOrder'
  BY <1>1, <1>3, <1>4, UnparsedKept
<1>6. SentNumbered' /\ ChannelHolds' /\ EndsWell'
  BY <1>1 DEF SentNumbered, ChannelHolds, Passed, EndsWell
<1>7. Yields'
  <2>1. Unparsed = <<>> => Unparsed' = <<>>
    <3>1. /\ Len(Unparsed) = Len(buffer) + Len(wire) /\ Len(wire) \in Nat
          /\ Unparsed \in Seq(Parts)
      BY UnparsedTyped DEF StreamTyped
    <3> QED
      BY <1>2, <3>1
  <2> QED
    BY <1>1, <2>1 DEF Yields, Passed
<1> QED
  BY <1>3, <1>5, <1>6, <1>7

\* A chunk may be damaged, but never its newlines or the order of its parts.
LEMMA LossyShape ==
  ASSUME NEW c \in Seq(Parts)
  PROVE  /\ Lossy(c) \in Seq(Parts) /\ Len(Lossy(c)) = Len(c)
         /\ \A j \in 1 .. Len(c) :
              /\ Lossy(c)[j].part = c[j].part /\ Lossy(c)[j].of = c[j].of
              /\ c[j].part = "newline" => Lossy(c)[j].good
<1> DEFINE g(j) == CASE c[j].part = "lead" -> j < Len(c)
                     [] c[j].part = "data" /\ c[j].of # Done -> j > 1
                     [] OTHER -> TRUE
           x(j) == [c[j] EXCEPT !.good = g(j)]
<1>1. Lossy(c) = [j \in 1 .. Len(c) |-> x(j)]
  BY DEF Lossy
<1>2. \A j \in 1 .. Len(c) : /\ c[j] \in Parts /\ g(j) \in BOOLEAN
                             /\ c[j].part = "newline" => g(j)
  <2> SUFFICES ASSUME NEW j \in 1 .. Len(c)
               PROVE  /\ c[j] \in Parts /\ g(j) \in BOOLEAN
                      /\ c[j].part = "newline" => g(j)
    <3> HIDE DEF g
    <3> QED
      OBVIOUS
  <2>1. CASE c[j].part = "lead"
    BY <2>1
  <2>2. CASE c[j].part = "data" /\ c[j].of # Done
    BY <2>2
  <2>3. CASE c[j].part # "lead" /\ ~(c[j].part = "data" /\ c[j].of # Done)
    <3>1. g(j) = TRUE
      BY <2>3
    <3> HIDE DEF g
    <3> QED
      BY <3>1
  <2> QED
    BY <2>1, <2>2, <2>3
<1> HIDE DEF g
<1>3. \A j \in 1 .. Len(c) : /\ x(j) \in Parts /\ x(j).part = c[j].part
                             /\ x(j).of = c[j].of /\ x(j).good = g(j)
  BY <1>2 DEF Parts
<1> HIDE DEF x
<1>4. Lossy(c) \in Seq(Parts) /\ Len(Lossy(c)) = Len(c)
  <2>1. Len(c) \in Nat /\ Lossy(c) \in [1 .. Len(c) -> Parts]
    BY <1>1, <1>3
  <2> QED
    BY <2>1
<1> QED
  BY <1>1, <1>2, <1>3, <1>4

LEMMA ReadKeeps ==
  ASSUME StreamInv, Read
  PROVE  StreamInv'
<1> USE DEF StreamInv
<1>1. /\ parser = "polling" /\ wire # <<>>
      /\ UNCHANGED <<task, event, sent, channel, receiver, conn, parser, yielded,
                     erred>>
  BY DEF Read, Reading, taskVars
<1>2. PICK n \in 1 .. Len(wire) :
        /\ buffer' = buffer \o Lossy(SubSeq(wire, 1, n))
        /\ wire' = SubSeq(wire, n + 1, Len(wire))
  BY DEF Read
<1> DEFINE c == SubSeq(wire, 1, n)
           l == Lossy(c)
<1>3. /\ wire \in Seq(Parts) /\ buffer \in Seq(Parts) /\ Len(wire) \in Nat
      /\ Len(buffer) \in Nat /\ c \in Seq(Parts) /\ Len(c) = n
      /\ \A k \in 1 .. n : c[k] = wire[k]
      /\ wire' \in Seq(Parts) /\ Len(wire') = Len(wire) - n
      /\ \A k \in 1 .. Len(wire') : wire'[k] = wire[k + n]
  <2>1. /\ wire \in Seq(Parts) /\ buffer \in Seq(Parts) /\ Len(wire) \in Nat
        /\ Len(buffer) \in Nat /\ n \in 1 .. Len(wire)
    BY DEF StreamTyped
  <2>2. c \in Seq(Parts) /\ Len(c) = n /\ \A k \in 1 .. n : c[k] = wire[k]
    BY <2>1
  <2>3. /\ wire' \in Seq(Parts) /\ Len(wire') = Len(wire) - n
        /\ \A k \in 1 .. Len(wire') : wire'[k] = wire[k + n]
    <3>1. /\ wire' \in Seq(Parts) /\ Len(wire') = Len(wire) - n
          /\ \A k \in 1 .. Len(wire) - n : wire'[k] = wire[(n + 1) + k - 1]
      BY <1>2, <2>1
    <3>2. \A k \in 1 .. Len(wire) - n : (n + 1) + k - 1 = k + n
      BY <2>1
    <3> QED
      BY <3>1, <3>2
  <2> QED
    BY <2>1, <2>2, <2>3
<1> HIDE DEF c
<1>4. /\ l \in Seq(Parts) /\ Len(l) = n
      /\ \A k \in 1 .. n : /\ l[k].part = wire[k].part /\ l[k].of = wire[k].of
                           /\ wire[k].part = "newline" => l[k].good
  BY <1>3, LossyShape
<1>5. buffer' = buffer \o l
  BY <1>2 DEF c
<1> HIDE DEF l
<1>6. /\ buffer' \in Seq(Parts) /\ Len(buffer') = Len(buffer) + n
      /\ \A k \in 1 .. Len(buffer) : buffer'[k] = buffer[k]
      /\ \A k \in 1 .. n : buffer'[Len(buffer) + k] = l[k]
  <2>1. /\ buffer' \in Seq(Parts) /\ Len(buffer') = Len(buffer) + Len(l)
        /\ \A k \in 1 .. Len(buffer) + Len(l) :
             buffer'[k] = IF k <= Len(buffer) THEN buffer[k]
                                              ELSE l[k - Len(buffer)]
    BY <1>3, <1>4, <1>5, ConcatProperties
  <2>2. \A k \in 1 .. n : Len(buffer) + k \in 1 .. Len(buffer) + Len(l) /\
                           (Len(buffer) + k) - Len(buffer) = k
    BY <1>3, <1>4
  <2>3. ASSUME NEW k \in 1 .. n PROVE buffer'[Len(buffer) + k] = l[k]
    <3> DEFINE i == Len(buffer) + k
    <3>1. i \in 1 .. Len(buffer) + Len(l) /\ ~(i <= Len(buffer)) /\ i - Len(buffer) = k
      BY <1>3, <2>2
    <3> HIDE DEF i
    <3>2. buffer'[i] = l[k]
      BY <2>1, <3>1
    <3> QED
      BY <3>2 DEF i
  <2> QED
    BY <1>3, <1>4, <2>1, <2>3
<1>7. StreamTyped'
  BY <1>1, <1>3, <1>6 DEF StreamTyped
<1>8. /\ Unparsed \in Seq(Parts) /\ Framed(Unparsed)
      /\ Len(Unparsed) = Len(buffer) + Len(wire)
      /\ \A k \in 1 .. Len(buffer) : Unparsed[k] = buffer[k]
      /\ \A k \in 1 .. Len(wire) : Unparsed[Len(buffer) + k] = wire[k]
  BY UnparsedTyped DEF UnparsedFramed
<1>9. /\ Len(Unparsed') = Len(Unparsed)
      /\ \A k \in 1 .. Len(buffer') : Unparsed'[k] = buffer'[k]
      /\ \A k \in 1 .. Len(wire') : Unparsed'[Len(buffer') + k] = wire'[k]
  <2>1. /\ Unparsed' \in Seq(Parts) /\ Len(Unparsed') = Len(buffer') + Len(wire')
        /\ \A k \in 1 .. Len(buffer') + Len(wire') :
             Unparsed'[k] = IF k <= Len(buffer') THEN buffer'[k]
                                                 ELSE wire'[k - Len(buffer')]
    <3>1. Unparsed' = buffer' \o wire'
      BY DEF Unparsed
    <3>2. buffer' \in Seq(Parts) /\ wire' \in Seq(Parts)
      BY <1>3, <1>6
    <3> QED
      BY <3>1, <3>2, ConcatProperties
  <2>2. Len(buffer') \in Nat /\ Len(wire') \in Nat
    BY <1>3, <1>6
  <2>3. ASSUME NEW k \in 1 .. Len(wire')
        PROVE  Unparsed'[Len(buffer') + k] = wire'[k]
    <3> DEFINE i == Len(buffer') + k
    <3>1. /\ i \in 1 .. Len(buffer') + Len(wire') /\ ~(i <= Len(buffer'))
          /\ i - Len(buffer') = k
      BY <2>2
    <3> HIDE DEF i
    <3>2. Unparsed'[i] = wire'[k]
      BY <2>1, <3>1
    <3> QED
      BY <3>2 DEF i
  <2>4. \A k \in 1 .. Len(buffer') : Unparsed'[k] = buffer'[k]
    BY <2>1, <2>2
  <2>5. Len(Unparsed') = Len(Unparsed)
    BY <1>3, <1>6, <1>8, <2>1
  <2> QED
    BY <2>3, <2>4, <2>5
<1>10. ASSUME NEW k \in 1 .. Len(Unparsed)
       PROVE  /\ Unparsed'[k].part = Unparsed[k].part
              /\ Unparsed'[k].of = Unparsed[k].of
              /\ Unparsed'[k].part = "newline" => Unparsed'[k].good
  <2>1. Unparsed[k].part = "newline" => Unparsed[k].good
    BY <1>8, NewlineFollows DEF NL, Part
  <2>2. CASE k \in 1 .. Len(buffer)
    <3>1. Unparsed'[k] = Unparsed[k]
      BY <2>2, <1>6, <1>8, <1>9
    <3> QED
      BY <2>1, <3>1
  <2>3. CASE k \in Len(buffer) + 1 .. Len(buffer) + n
    <3> DEFINE j == k - Len(buffer)
    <3>1. j \in 1 .. n /\ k = Len(buffer) + j /\ j \in 1 .. Len(wire)
      BY <2>3, <1>3
    <3> HIDE DEF j
    <3>2. Unparsed'[k] = l[j] /\ Unparsed[k] = wire[j]
      BY <2>3, <3>1, <1>6, <1>8, <1>9
    <3> QED
      BY <3>1, <3>2, <1>4
  <2>4. CASE k > Len(buffer) + n
    <3> DEFINE j == k - (Len(buffer) + n)
    <3>1. /\ j \in 1 .. Len(wire') /\ k = Len(buffer') + j
          /\ j + n \in 1 .. Len(wire) /\ k = Len(buffer) + (j + n)
      BY <2>4, <1>3, <1>6, <1>8
    <3> HIDE DEF j
    <3>2. Unparsed'[k] = wire'[j] /\ Unparsed[k] = wire[j + n]
      BY <3>1, <1>8, <1>9
    <3>3. Unparsed'[k] = Unparsed[k]
      BY <3>1, <3>2, <1>3
    <3> QED
      BY <2>1, <3>3
  <2> QED
    BY <2>2, <2>3, <2>4, <1>3, <1>8
<1>11. Similar(Unparsed', Unparsed)
  BY <1>8, <1>9, <1>10 DEF Similar
<1>12. UnparsedFramed' /\ UnparsedInOrder'
  BY <1>1, <1>7, <1>9, <1>11, UnparsedKept
<1>13. SentNumbered' /\ ChannelHolds' /\ EndsWell'
  BY <1>1 DEF SentNumbered, ChannelHolds, Passed, EndsWell
<1>14. Yields'
  <2>1. Unparsed # <<>>
    BY <1>1, <1>3, <1>8
  <2> QED
    BY <1>1, <2>1 DEF Yields, Passed
<1> QED
  BY <1>7, <1>12, <1>13, <1>14

\* The first name in what is left is that of the next event.
LEMMA FirstIsNext ==
  ASSUME StreamInv, Unparsed # <<>>, NamesAt(Unparsed, 1)
  PROVE  /\ Index(Unparsed[1].of) = Len(yielded) + 1
         /\ Len(yielded) + 1 <= Passed /\ sent[Len(yielded) + 1] = Unparsed[1].of
<1> USE DEF StreamInv
<1>1. 1 \in 1 .. Len(Unparsed)
  BY UnparsedTyped
<1>2. /\ Index(Unparsed[1].of) \in Len(yielded) + 1 .. Passed
      /\ sent[Index(Unparsed[1].of)] = Unparsed[1].of
  BY <1>1 DEF UnparsedInOrder, InSent
<1>3. Len(yielded) \in Nat /\ Passed \in Nat
  BY DEF StreamTyped, ChannelHolds
<1>4. \E k \in 1 .. 1 : Index(Unparsed[k].of) = Len(yielded) + 1
  <2>1. Len(yielded) + 1 \in Len(yielded) + 1 .. Index(Unparsed[1].of)
    BY <1>2, <1>3
  <2> QED
    BY <1>1, <2>1 DEF UnparsedInOrder, NoGap
<1>5. Index(Unparsed[1].of) = Len(yielded) + 1
  BY <1>4
<1> QED
  BY <1>2, <1>3, <1>5

\* An item that was parsed from the first block belongs to the next event.
LEMMA ItemKeeps ==
  ASSUME StreamInv, Unparsed # <<>>, NamesAt(Unparsed, 1),
         Unparsed[1].of \in Answers,
         NEW item \in Items, item.text = Unparsed[1].of.text,
         item.kind = "error" <=> Unparsed[1].of.kind = "error",
         item.kind = "truncated" => erred /\ conn = "broken" /\ Unparsed' = <<>>,
         yielded' = Append(yielded, item), UNCHANGED <<sent, channel, conn, erred>>
  PROVE  Yields' /\ yielded' \in Seq(Items) /\ Len(yielded') = Len(yielded) + 1
<1> USE DEF StreamInv
<1> DEFINE n == Len(yielded)
<1>1. /\ yielded' \in Seq(Items) /\ n \in Nat /\ Len(yielded') = n + 1
      /\ \A j \in 1 .. n : yielded'[j] = yielded[j]
      /\ yielded'[n + 1] = item
  BY DEF StreamTyped
<1>2. /\ n + 1 <= Passed /\ sent[n + 1] = Unparsed[1].of /\ Passed' = Passed
      /\ Unparsed[1].of # Done /\ Unparsed[1].of.text = n + 1
  BY FirstIsNext, EventsApart DEF Index, Passed
<1> HIDE DEF n
<1>3. ASSUME NEW j \in 1 .. n
      PROVE  /\ j <= Passed /\ sent[j] # Done /\ yielded'[j].text = j
             /\ yielded'[j].kind = "error" <=> sent[j].kind = "error"
             /\ yielded'[j].kind # "truncated"
  BY <1>1 DEF Yields, n
<1>4. /\ sent[n + 1] # Done /\ yielded'[n + 1].text = n + 1
      /\ yielded'[n + 1].kind = "error" <=> sent[n + 1].kind = "error"
      /\ yielded'[n + 1].kind = "truncated" =>
           erred /\ conn = "broken" /\ Unparsed' = <<>>
  BY <1>1, <1>2
<1>5. Yields'
  <2> SUFFICES ASSUME NEW j \in 1 .. n + 1
               PROVE  /\ j <= Passed /\ sent[j] # Done /\ yielded'[j].text = j
                      /\ yielded'[j].kind = "error" <=> sent[j].kind = "error"
                      /\ yielded'[j].kind = "truncated" =>
                           erred /\ j = n + 1 /\ conn = "broken" /\ Unparsed' = <<>>
    BY <1>1, <1>2 DEF Yields
  <2>1. CASE j \in 1 .. n
    BY <2>1, <1>3
  <2>2. CASE j = n + 1
    BY <2>2, <1>2, <1>4
  <2> QED
    BY <2>1, <2>2, <1>1
<1> QED
  BY <1>1, <1>5 DEF n

\* What is left when the first block is taken away, and its item, if it has one,
\* is yielded.
LEMMA HeadRemoved ==
  ASSUME StreamInv, StreamTyped', UNCHANGED <<sent, channel, conn>>,
         NEW p \in 2 .. Len(Unparsed) - 1, p = HeadOf(Unparsed),
         Len(Unparsed') = Len(Unparsed) - (p + 1),
         \A k \in 1 .. Len(Unparsed') : Unparsed'[k] = Unparsed[k + (p + 1)],
         IF NamesAt(Unparsed, 1) /\ Unparsed[1].of # Done
           THEN Len(yielded') = Len(yielded) + 1
           ELSE Len(yielded') = Len(yielded)
  PROVE  UnparsedFramed' /\ UnparsedInOrder'
<1> USE DEF StreamInv
<1> DEFINE r == Unparsed
           q == Unparsed'
           y == Len(yielded)
<1>1. /\ r \in Seq(Parts) /\ q \in Seq(Parts) /\ Framed(r) /\ r # <<>>
      /\ Len(r) \in Nat /\ Len(q) \in Nat /\ y \in Nat /\ Passed \in Nat
      /\ Len(sent) \in Nat
  <2>1. r \in Seq(Parts) /\ q \in Seq(Parts) /\ Framed(r)
    BY UnparsedTyped DEF StreamTyped, Unparsed, UnparsedFramed
  <2> QED
    BY <2>1 DEF StreamTyped, ChannelHolds
<1>2. /\ r[p].part = "newline" /\ r[p + 1].part = "newline"
      /\ \A k \in 2 .. p + 1 : ~NamesAt(r, k)
  BY <1>1, HeadShape
<1>3. UnparsedFramed'
  <2>1. Framed(q) /\ (Complete(r) => Complete(q))
    BY <1>1, <1>2, SuffixFramed
  <2> QED
    BY <2>1 DEF UnparsedFramed
<1>4. Passed' = Passed /\ \A e : Index(e)' = Index(e)
  BY DEF Passed, Index
<1>5. \A k \in 1 .. Len(q) :
        /\ k + (p + 1) \in 1 .. Len(r) /\ q[k] = r[k + (p + 1)]
        /\ NamesAt(q, k) <=> NamesAt(r, k + (p + 1))
  <2>1. Len(q) = Len(r) - (p + 1) /\ \A k \in 1 .. Len(q) : q[k] = r[k + (p + 1)]
    OBVIOUS
  <2>2. p \in Nat /\ Len(r) \in Nat
    BY <1>1
  <2> HIDE DEF q, r
  <2>3. \A k \in 1 .. Len(q) : k + (p + 1) \in 1 .. Len(r)
    BY <2>1, <2>2, SMTT(20)
  <2> QED
    BY <2>1, <2>3 DEF NamesAt
<1>6. \A k \in 1 .. Len(r) : NamesAt(r, k) =>
        \/ k = 1
        \/ /\ k - (p + 1) \in 1 .. Len(q) /\ NamesAt(q, k - (p + 1))
           /\ q[k - (p + 1)].of = r[k].of
  <2> SUFFICES ASSUME NEW k \in 1 .. Len(r), NamesAt(r, k), k # 1
               PROVE  /\ k - (p + 1) \in 1 .. Len(q) /\ NamesAt(q, k - (p + 1))
                      /\ q[k - (p + 1)].of = r[k].of
    OBVIOUS
  <2> DEFINE j == k - (p + 1)
  <2>1. j \in 1 .. Len(q) /\ j + (p + 1) = k
    <3>1. ~(k \in 2 .. p + 1) /\ k \in Nat /\ p \in Nat /\ k <= Len(r)
      BY <1>1, <1>2
    <3>2. Len(q) = Len(r) - (p + 1)
      OBVIOUS
    <3>3. Len(q) \in Nat /\ Len(r) \in Nat /\ 1 <= k /\ p >= 2
      BY <1>1
    <3>4. k # 1
      OBVIOUS
    <3>5. k > p + 1
      BY <3>1, <3>3, <3>4
    <3>6. k - (p + 1) >= 1 /\ k - (p + 1) <= Len(q) /\ k - (p + 1) + (p + 1) = k
      BY <3>1, <3>2, <3>3, <3>5, SMTT(20)
    <3> HIDE DEF q, r
    <3>7. j \in Int
      BY <3>1
    <3> QED
      BY <3>3, <3>6, <3>7
  <2> HIDE DEF j
  <2>2. q[j] = r[k]
    BY <2>1, <1>5
  <2> QED
    BY <2>1, <2>2 DEF j, NamesAt
<1> DEFINE z == Len(yielded')
<1>0. z \in Nat /\ y <= z
  BY <1>1
<1>7. \A k \in 1 .. Len(q) : NamesAt(q, k) =>
        /\ Index(q[k].of) \in z + 1 .. Passed /\ sent[Index(q[k].of)] = q[k].of
  <2> SUFFICES ASSUME NEW k \in 1 .. Len(q), NamesAt(q, k)
               PROVE  /\ Index(q[k].of) \in z + 1 .. Passed
                      /\ sent[Index(q[k].of)] = q[k].of
    OBVIOUS
  <2>1. /\ Index(q[k].of) \in y + 1 .. Passed /\ sent[Index(q[k].of)] = q[k].of
        /\ NamesAt(r, k + (p + 1)) /\ k + (p + 1) \in 1 .. Len(r)
    BY <1>5 DEF UnparsedInOrder, InSent
  <2>2. CASE NamesAt(r, 1) /\ r[1].of # Done
    <3>1. Index(r[1].of) = y + 1
      BY <1>1, <2>2, FirstIsNext
    <3>2. Index(r[1].of) < Index(q[k].of)
      <4>1. 1 \in 1 .. Len(r) /\ 1 < k + (p + 1)
        BY <1>1
      <4> QED
        BY <1>5, <2>1, <2>2, <4>1 DEF UnparsedInOrder, Increasing
    <3>3. z = y + 1 /\ y \in Nat /\ Passed \in Nat
      BY <1>1, <2>2 DEF z
    <3>4. \A i \in y + 1 .. Passed : y + 1 < i => i \in z + 1 .. Passed
      BY <3>3
    <3> QED
      BY <2>1, <3>1, <3>2, <3>4
  <2>3. CASE ~(NamesAt(r, 1) /\ r[1].of # Done)
    BY <2>1, <2>3
  <2> QED
    BY <2>2, <2>3
<1> HIDE DEF z
<1>8. InSent(Unparsed)'
  BY <1>4, <1>7 DEF InSent, NamesAt, z
<1>9. Increasing(Unparsed)'
  <2> SUFFICES ASSUME NEW k \in 1 .. Len(q), NEW l \in 1 .. Len(q), k < l,
                      NamesAt(q, k), NamesAt(q, l)
               PROVE  Index(q[k].of) < Index(q[l].of)
    BY <1>4 DEF Increasing, NamesAt
  <2>1. k + (p + 1) < l + (p + 1)
    BY <1>1
  <2> QED
    BY <1>5, <2>1 DEF UnparsedInOrder, Increasing
<1>10. NoGap(Unparsed)'
  <2> SUFFICES ASSUME NEW l \in 1 .. Len(q), NamesAt(q, l),
                      NEW n \in z + 1 .. Index(q[l].of)
               PROVE  \E k \in 1 .. l : NamesAt(q, k) /\ Index(q[k].of) = n
    BY <1>4 DEF NoGap, NamesAt, z
  <2> DEFINE m == l + (p + 1)
  <2>1. m \in 1 .. Len(r) /\ NamesAt(r, m) /\ Index(r[m].of) = Index(q[l].of)
    BY <1>5
  <2>2. n \in y + 1 .. Index(r[m].of)
    BY <1>1, <1>0, <2>1
  <2>3. PICK i \in 1 .. m : NamesAt(r, i) /\ Index(r[i].of) = n
    BY <2>1, <2>2 DEF UnparsedInOrder, NoGap
  <2>4. i # 1
    <3>1. CASE NamesAt(r, 1) /\ r[1].of # Done
      <4>1. Index(r[1].of) = y + 1 /\ z = y + 1
        BY <1>1, <3>1, FirstIsNext DEF z
      <4> QED
        BY <1>1, <2>3, <4>1
    <3>2. CASE NamesAt(r, 1) /\ r[1].of = Done
      <4>1. Index(r[1].of) < Index(r[m].of) /\ Index(r[1].of) = Len(sent)
        <5>1. 1 \in 1 .. Len(r) /\ 1 < m
          <6>1. Len(r) \in Nat /\ p \in Nat /\ l \in Nat /\ 1 <= l /\ m = l + (p + 1)
            BY <1>1
          <6>2. m \in 1 .. Len(r)
            BY <2>1
          <6> HIDE DEF m, r
          <6> QED
            BY <6>1, <6>2, SMTT(20)
        <5> QED
          BY <2>1, <3>2, <5>1 DEF UnparsedInOrder, Increasing, Index
      <4>2. Index(r[m].of) <= Passed /\ Passed <= Len(sent)
        <5>1. Index(r[m].of) \in y + 1 .. Passed
          BY <2>1 DEF UnparsedInOrder, InSent
        <5>2. Passed <= Len(sent)
          BY DEF Passed, StreamTyped
        <5> QED
          BY <5>1, <5>2, <1>1
      <4>3. Index(r[m].of) \in Nat
        <5>1. Index(r[m].of) \in y + 1 .. Passed
          BY <2>1 DEF UnparsedInOrder, InSent
        <5> QED
          BY <1>1, <5>1
      <4> QED
        BY <1>1, <4>1, <4>2, <4>3
    <3> QED
      BY <2>3, <3>1, <3>2
  <2>5. i \in 1 .. Len(r)
    BY <2>1, <2>3
  <2>6. /\ i - (p + 1) \in 1 .. Len(q) /\ NamesAt(q, i - (p + 1))
        /\ q[i - (p + 1)].of = r[i].of
    BY <1>6, <2>3, <2>4, <2>5
  <2>7. i - (p + 1) \in 1 .. l
    BY <2>3, <2>6
  <2> QED
    BY <2>3, <2>6, <2>7
<1>11. conn # "broken" => AllThere(Unparsed)'
  <2> SUFFICES ASSUME conn # "broken", NEW n \in z + 1 .. Passed, sent[n] # Done
               PROVE  \E k \in 1 .. Len(q) : NamesAt(q, k) /\ q[k].of = sent[n]
    BY <1>4 DEF AllThere, NamesAt, z
  <2>1. n \in y + 1 .. Passed
    BY <1>1, <1>0
  <2>2. PICK i \in 1 .. Len(r) : NamesAt(r, i) /\ r[i].of = sent[n]
    BY <2>1 DEF UnparsedInOrder, AllThere
  <2>3. i # 1
    <3>1. ASSUME i = 1 PROVE FALSE
      <4>1. Index(r[1].of) = y + 1 /\ z = y + 1 /\ sent[y + 1] = r[1].of
        BY <1>1, <2>2, <3>1, FirstIsNext DEF z
      <4>2. Index(sent[n]) = n
        <5>1. n \in 1 .. Len(sent)
          <6>1. Passed <= Len(sent)
            BY DEF Passed, StreamTyped
          <6>2. y \in Nat /\ Passed \in Nat /\ Len(sent) \in Nat
            BY <1>1
          <6> HIDE DEF y
          <6> QED
            BY <2>1, <6>1, <6>2
        <5> QED
          BY <5>1 DEF SentNumbered, Index
      <4> QED
        BY <1>1, <2>2, <3>1, <4>1, <4>2
    <3> QED
      BY <3>1
  <2>4. /\ i - (p + 1) \in 1 .. Len(q) /\ NamesAt(q, i - (p + 1))
        /\ q[i - (p + 1)].of = r[i].of
    BY <1>6, <2>2, <2>3
  <2> QED
    BY <2>2, <2>4
<1> QED
  BY <1>3, <1>8, <1>9, <1>10, <1>11 DEF UnparsedInOrder

LEMMA ExtractKeeps ==
  ASSUME StreamInv, Extract
  PROVE  StreamInv'
<1> USE DEF StreamInv
<1> DEFINE p == HeadOf(buffer)
           block == SubSeq(buffer, 1, p - 1)
           item == Parsed(block)
<1>1. /\ parser = "polling"
      /\ UNCHANGED <<task, event, sent, channel, receiver, conn, wire, erred>>
  BY DEF Extract, taskVars, wireVars
<1>2. /\ buffer \in Seq(Parts) /\ Framed(buffer) /\ buffer # <<>>
      /\ p \in 2 .. Len(buffer) - 1 /\ p = HeadOf(Unparsed)
      /\ Unparsed # <<>> /\ Unparsed[1] = buffer[1]
      /\ Yield(item) /\ buffer' = Rest(p)
  BY BufferFramed, CutAtHead DEF Extract
<1>3. /\ block \in Seq(Parts) /\ Len(block) = p - 1 /\ block # <<>>
      /\ \A k \in 1 .. p - 1 : block[k] = buffer[k]
      /\ buffer' \in Seq(Parts) /\ Len(buffer') = Len(buffer) - (p + 1)
      /\ \A k \in 1 .. Len(buffer') : buffer'[k] = buffer[k + (p + 1)]
  <2>1. Len(buffer) \in Nat /\ p \in Nat /\ p >= 2 /\ p <= Len(buffer) - 1
    BY <1>2
  <2> HIDE DEF p
  <2>2. block \in Seq(Parts) /\ Len(block) = p - 1
    BY <1>2, <2>1
  <2>3. \A k \in 1 .. p - 1 : block[k] = buffer[k]
    BY <1>2, <2>1
  <2>4. /\ buffer' \in Seq(Parts) /\ Len(buffer') = Len(buffer) - (p + 1)
        /\ \A k \in 1 .. Len(buffer') : buffer'[k] = buffer[(p + 2) + k - 1]
    <3>1. buffer' = SubSeq(buffer, p + 2, Len(buffer)) /\ buffer \in Seq(Parts)
      BY <1>2 DEF Rest
    <3>2. p + 2 \in 1 .. Len(buffer) + 1
      BY <2>1
    <3> QED
      BY <2>1, <3>1, <3>2
  <2>5. \A k \in 1 .. Len(buffer') : (p + 2) + k - 1 = k + (p + 1)
    BY <2>1, <2>4
  <2>6. block # <<>>
    BY <2>1, <2>2
  <2> QED
    BY <2>2, <2>3, <2>4, <2>5, <2>6
<1>4. Framed(block) /\ block[1] = buffer[1] /\ HeadOf(block) = p
  <2>1. block[1] = buffer[1]
    BY <1>2, <1>3
  <2>2. Similar(block, buffer)
    <3> HIDE DEF block, p
    <3>1. \A k \in 1 .. Len(block) : block[k] = buffer[k] /\ k \in 1 .. Len(buffer)
      BY <1>2, <1>3
    <3>2. \A k \in 1 .. Len(block) : block[k].part = "newline" => block[k].good
      BY <1>2, <3>1, NewlineFollows DEF NL, Part
    <3> QED
      BY <1>2, <1>3, <3>1, <3>2 DEF Similar
  <2> QED
    BY <1>2, <1>3, <2>1, <2>2, SimilarFramed DEF HeadOf
<1> HIDE DEF block
<1>5. /\ item # Nothing =>
           /\ NamesAt(Unparsed, 1) /\ Unparsed[1].of \in Answers
           /\ item \in Items /\ item.text = Unparsed[1].of.text
           /\ item.kind = "error" <=> Unparsed[1].of.kind = "error"
           /\ item.kind = "truncated" => Len(block) < 3
      /\ NamesAt(Unparsed, 1) /\ Unparsed[1].of # Done => item # Nothing
  <2>1. Len(block) <= HeadOf(block)
    BY <1>2, <1>3, <1>4
  <2>2. block[1] = Unparsed[1]
    BY <1>2, <1>4
  <2>3. NamesAt(Unparsed, 1) /\ Unparsed[1].of # Done => Len(block) = 3
    BY <1>2, <1>3 DEF NamesAt, HeadOf, HeadSize
  <2> QED
    BY <1>3, <1>4, <2>1, <2>2, <2>3, ParsedBlock DEF NamesAt
<1>6. item # Nothing => item.kind # "truncated"
  BY <1>2, <1>3, <1>5, EventsApart DEF NamesAt, HeadOf, HeadSize
<1> HIDE DEF item, p
<1>7. /\ item = Nothing => UNCHANGED <<parser, yielded>>
      /\ item # Nothing => parser' = "idle" /\ yielded' = Append(yielded, item)
  BY <1>2 DEF Yield
<1>8. /\ Yields' /\ yielded' \in Seq(Items)
      /\ IF NamesAt(Unparsed, 1) /\ Unparsed[1].of # Done
           THEN Len(yielded') = Len(yielded) + 1
           ELSE Len(yielded') = Len(yielded)
  <2>1. CASE item = Nothing
    <3>1. Yields'
      BY <1>1, <1>2, <1>7, <2>1 DEF Yields, Passed
    <3> QED
      BY <1>5, <1>7, <2>1, <3>1 DEF StreamTyped
  <2>2. CASE item # Nothing
    <3>1. /\ NamesAt(Unparsed, 1) /\ Unparsed[1].of \in Answers
          /\ Unparsed[1].of # Done
      BY <1>5, <2>2, EventsApart
    <3> QED
      BY <1>1, <1>2, <1>5, <1>6, <1>7, <2>2, <3>1, ItemKeeps
  <2> QED
    BY <2>1, <2>2
<1>9. StreamTyped'
  BY <1>1, <1>3, <1>7, <1>8 DEF StreamTyped
<1>10. /\ Len(Unparsed') = Len(Unparsed) - (p + 1) /\ p \in 2 .. Len(Unparsed) - 1
       /\ \A k \in 1 .. Len(Unparsed') : Unparsed'[k] = Unparsed[k + (p + 1)]
  <2>1. /\ wire \in Seq(Parts) /\ wire' = wire
        /\ Unparsed = buffer \o wire /\ Unparsed' = buffer' \o wire
        /\ Len(buffer) \in Nat /\ Len(wire) \in Nat /\ Len(buffer') \in Nat
        /\ p \in Nat /\ 2 <= p /\ p <= Len(buffer) - 1
        /\ Len(buffer') = Len(buffer) - (p + 1)
    <3>1. wire \in Seq(Parts) /\ wire' = wire /\ Len(wire) \in Nat
      BY <1>1, <1>2 DEF StreamTyped
    <3>2. Unparsed = buffer \o wire /\ Unparsed' = buffer' \o wire
      BY <3>1 DEF Unparsed
    <3>3. Len(buffer) \in Nat /\ Len(buffer') \in Nat
      BY <1>2, <1>3
    <3>4. p \in Nat /\ 2 <= p /\ p <= Len(buffer) - 1
      BY <1>2, <1>3
    <3> QED
      BY <1>3, <3>1, <3>2, <3>3, <3>4
  <2>2. /\ Len(Unparsed) = Len(buffer) + Len(wire)
        /\ \A k \in 1 .. Len(buffer) + Len(wire) :
             Unparsed[k] = IF k <= Len(buffer) THEN buffer[k]
                                               ELSE wire[k - Len(buffer)]
    BY <1>2, <2>1, ConcatProperties
  <2>3. /\ Len(Unparsed') = Len(buffer') + Len(wire)
        /\ \A k \in 1 .. Len(buffer') + Len(wire) :
             Unparsed'[k] = IF k <= Len(buffer') THEN buffer'[k]
                                                 ELSE wire[k - Len(buffer')]
    BY <1>3, <2>1, ConcatProperties
  <2>4. /\ Len(Unparsed') = Len(Unparsed) - (p + 1)
        /\ p \in 2 .. Len(Unparsed) - 1
    BY <2>1, <2>2, <2>3
  <2>5. ASSUME NEW k \in 1 .. Len(Unparsed')
        PROVE  Unparsed'[k] = Unparsed[k + (p + 1)]
    <3> DEFINE i == k + (p + 1)
    <3>0. k \in 1 .. Len(buffer') + Len(wire)
      BY <2>3
    <3>1. i \in 1 .. Len(buffer) + Len(wire)
      BY <2>1, <3>0
    <3>2. CASE k <= Len(buffer')
      <4>1. Unparsed'[k] = buffer'[k] /\ buffer'[k] = buffer[i]
        BY <1>3, <2>1, <2>3, <3>0, <3>2
      <4>2. i <= Len(buffer)
        BY <2>1, <3>2
      <4> HIDE DEF i
      <4>3. Unparsed[i] = buffer[i]
        BY <2>2, <3>1, <4>2
      <4> QED
        BY <4>1, <4>3 DEF i
    <3>3. CASE k > Len(buffer')
      <4>1. Unparsed'[k] = wire[k - Len(buffer')]
        BY <2>1, <2>3, <3>0, <3>3
      <4>2. ~(i <= Len(buffer)) /\ i - Len(buffer) = k - Len(buffer')
        BY <2>1, <3>3
      <4> HIDE DEF i
      <4>3. Unparsed[i] = wire[k - Len(buffer')]
        BY <2>2, <3>1, <4>2
      <4> QED
        BY <4>1, <4>3 DEF i
    <3> QED
      BY <2>1, <3>2, <3>3, <3>0
  <2> QED
    BY <2>4, <2>5
<1>11. UnparsedFramed' /\ UnparsedInOrder'
  BY <1>1, <1>2, <1>8, <1>9, <1>10, HeadRemoved
<1>12. SentNumbered' /\ ChannelHolds'
  BY <1>1 DEF SentNumbered, ChannelHolds, Passed
<1>13. EndsWell'
  BY <1>1, <1>7 DEF EndsWell
<1> QED
  BY <1>8, <1>9, <1>11, <1>12, <1>13

\* The end of the connection: what the buffer still holds is the beginning of
\* one block, and nothing if the response was complete.
LEMMA EofKeeps ==
  ASSUME StreamInv, Eof
  PROVE  StreamInv'
<1> USE DEF StreamInv
<1>1. /\ parser = "polling" /\ Cut(buffer) = {} /\ wire = <<>> /\ StreamEnded
      /\ Remainder
      /\ UNCHANGED <<task, event, sent, channel, receiver, conn, wire, erred>>
  BY DEF Eof, Reading, taskVars, wireVars
<1>2. /\ buffer \in Seq(Parts) /\ Framed(buffer)
      /\ Len(buffer) <= HeadOf(buffer) \/ buffer = <<>>
      /\ buffer # <<>> => Unparsed # <<>> /\ Unparsed[1] = buffer[1]
  BY <1>1, BufferFramed, CutAtHead
<1>3. Unparsed = buffer
  BY <1>1, <1>2 DEF Unparsed
<1>4. conn # "broken" => buffer = <<>>
  <2> SUFFICES ASSUME conn # "broken", buffer # <<>> PROVE FALSE
    OBVIOUS
  <2>1. /\ Len(buffer) > 1 /\ Len(buffer) \in Nat
        /\ buffer[Len(buffer)].part = "newline"
        /\ buffer[Len(buffer) - 1].part = "newline"
    BY <1>2, <1>3 DEF UnparsedFramed, Complete
  <2>2. buffer[Len(buffer)] = NL /\ buffer[Len(buffer) - 1] = NL
    BY <1>2, <2>1, NewlineFollows
  <2>3. Len(buffer) - 1 \in Cut(buffer)
    <3>1. (Len(buffer) - 1) + 1 = Len(buffer)
      BY <2>1
    <3> QED
      BY <2>1, <2>2, <3>1 DEF Cut
  <2> QED
    BY <1>1, <2>3
<1> DEFINE item == Parsed(buffer)
<1>5. item # Nothing =>
        /\ buffer # <<>> /\ NamesAt(buffer, 1) /\ buffer[1].of \in Answers
        /\ item \in Items /\ item.text = buffer[1].of.text
        /\ item.kind = "error" <=> buffer[1].of.kind = "error"
  BY <1>2, ParsedBlock
<1>6. CASE item = Nothing
  <2>1. parser' = "ended" /\ UNCHANGED <<buffer, yielded>>
    BY <1>1, <1>6 DEF Remainder
  <2>2. UnparsedFramed' /\ UnparsedInOrder' /\ Unparsed' = Unparsed
    BY <1>1, <2>1, UnparsedAlone
  <2>3. StreamTyped'
    BY <1>1, <2>1 DEF StreamTyped
  <2>4. SentNumbered' /\ ChannelHolds' /\ Yields'
    BY <1>1, <2>1, <2>2 DEF SentNumbered, ChannelHolds, Passed, Yields
  <2>5. ASSUME ~erred
        PROVE  /\ conn = "finished" /\ Len(yielded) = Len(sent) - 1
               /\ sent[Len(sent)] = Done
    <3>1. conn = "finished" /\ buffer = <<>> /\ channel = <<>> /\ task = "ended"
      BY <1>1, <1>4, <2>5 DEF StreamEnded, ChannelHolds
    <3>2. /\ receiver /\ sent # <<>> /\ sent[Len(sent)] = Done
      BY <3>1 DEF ChannelHolds, SentNumbered, StreamTyped
    <3>3. /\ Passed = Len(sent) /\ Len(sent) \in Nat /\ Len(sent) > 0
          /\ Len(yielded) \in Nat
      BY <3>1, <3>2 DEF Passed, StreamTyped
    <3>4. \A n \in Len(yielded) + 1 .. Len(sent) : sent[n] = Done
      <4>1. AllThere(buffer) /\ Len(buffer) = 0
        BY <1>3, <3>1 DEF UnparsedInOrder
      <4> QED
        BY <3>3, <4>1 DEF AllThere
    <3>5. Len(yielded) + 1 >= Len(sent)
      <4> SUFFICES ASSUME Len(yielded) + 1 < Len(sent) PROVE FALSE
        BY <3>3
      <4> DEFINE n == Len(yielded) + 1
      <4>1. n \in 1 .. Len(sent) /\ sent[n] = Done /\ n # Len(sent)
        BY <3>3, <3>4
      <4> HIDE DEF n
      <4> QED
        BY <4>1 DEF SentNumbered
    <3>6. Len(yielded) <= Len(sent) /\ Len(yielded) # Len(sent)
      <4>1. Len(yielded) > 0 => Len(yielded) \in 1 .. Len(yielded)
        BY <3>3
      <4> QED
        BY <3>2, <3>3, <4>1 DEF Yields
    <3> QED
      BY <3>1, <3>2, <3>3, <3>5, <3>6
  <2>6. EndsWell'
    BY <1>1, <2>1, <2>5 DEF EndsWell
  <2> QED
    BY <2>2, <2>3, <2>4, <2>6
<1>7. CASE item # Nothing
  <2> HIDE DEF item
  <2>1. parser' = "idle" /\ yielded' = Append(yielded, item) /\ buffer' = <<>>
    BY <1>1, <1>7 DEF Remainder, Yield, item
  <2>2. conn = "broken" /\ erred
    BY <1>1, <1>4, <1>5, <1>7 DEF StreamEnded
  <2>3. Unparsed' = <<>>
    BY <1>1, <2>1 DEF Unparsed
  <2>4. Yields' /\ yielded' \in Seq(Items)
    BY <1>1, <1>2, <1>3, <1>5, <1>7, <2>1, <2>2, <2>3, ItemKeeps
  <2>5. StreamTyped'
    <3>1. <<>> \in Seq(Parts)
      OBVIOUS
    <3> QED
      BY <1>1, <2>1, <2>4, <3>1 DEF StreamTyped
  <2>6. UnparsedFramed'
    BY <1>1, <2>2, <2>3 DEF UnparsedFramed, Framed
  <2>7. UnparsedInOrder'
    BY <1>1, <2>2, <2>3 DEF UnparsedInOrder, InSent, Increasing, NoGap
  <2>8. SentNumbered' /\ ChannelHolds' /\ EndsWell'
    BY <1>1, <2>1 DEF SentNumbered, ChannelHolds, Passed, EndsWell
  <2> QED
    BY <2>4, <2>5, <2>6, <2>7, <2>8
<1> QED
  BY <1>6, <1>7

LEMMA StreamStep ==
  ASSUME StreamInv, SseNext
  PROVE  StreamInv'
BY TranslateKeeps, SendEventKeeps, ForwardKeeps, FinishKeeps, NoticeKeeps,
   BreakKeeps, PollKeeps, DropKeeps, ExtractKeeps, ReadKeeps, ReadErrorKeeps,
   EofKeeps DEF SseNext, Server, Connection, Parser

\* Of the client's own steps only the answer of the streaming route starts the
\* task; the others leave the stream alone.
LEMMA StreamNext == StreamInv /\ [Next]_vars => StreamInv'
<1> SUFFICES ASSUME StreamInv, [Next]_vars PROVE StreamInv'
  OBVIOUS
<1>1. CASE UNCHANGED sseVars
  <2>1. UNCHANGED <<task, event, sent, channel, receiver, conn, wire, parser, buffer,
                    yielded, erred>>
    BY <1>1 DEF sseVars, taskVars, wireVars, parserVars
  <2>2. UnparsedFramed' /\ UnparsedInOrder' /\ Unparsed' = Unparsed
    BY <2>1, UnparsedAlone
  <2> QED
    BY <2>1, <2>2 DEF StreamInv, StreamTyped, SentNumbered, ChannelHolds, Passed,
                      Yields, EndsWell
<1>2. CASE ServerSteps
  BY <1>1, <1>2 DEF ServerSteps, Handle, Translated, TaskOfNobody
<1>3. CASE ClientSteps
  <2>1. UNCHANGED sseVars \/ Start(request.texts)
    BY <1>3 DEF ClientSteps, SendRequest, Lost, Answered, Success, Sleep
  <2> QED
    BY <1>1, <2>1, StartKeeps
<1>4. CASE Stream
  BY <1>4, StreamStep DEF Stream
<1> QED
  BY <1>1, <1>2, <1>3, <1>4 DEF Next, vars

LEMMA StreamInvariance == Spec => []StreamInv
<1>1. Init => StreamInv
  BY StreamInit DEF Init
<1> QED
  BY <1>1, StreamNext, PTL DEF Spec

\* How many events there are: one for each text and done, unless the engine has
\* panicked.
Counted ==
  /\ texts \in Nat
  /\ task = "none" => sent = <<>>
  /\ task = "working" => Len(sent) < texts
  /\ task = "sending" => IF event = Done THEN panicked \/ Len(sent) = texts
                         ELSE Len(sent) < texts
  /\ task = "ended" /\ sent # <<>> /\ sent[Len(sent)] = Done =>
       panicked \/ Len(sent) = texts + 1

LEMMA CountedAlone ==
  ASSUME Counted, UNCHANGED taskVars
  PROVE  Counted'
BY DEF Counted, taskVars

LEMMA CountedStep ==
  ASSUME StreamInv, Counted, SseNext
  PROVE  Counted'
<1>1. /\ sent \in Seq(Sendable) /\ Len(sent) \in Nat /\ event \in Sendable
      /\ texts \in Nat
  BY DEF StreamInv, StreamTyped, Counted
<1>2. CASE Translate
  <2>1. /\ task = "working" /\ task' = "sending" /\ UNCHANGED <<texts, sent>>
        /\ (event' = Done /\ panicked') \/ event' # Done
    BY <1>2 DEF Translate, Sending, Panicked, Event, Done
  <2> QED
    BY <1>1, <2>1 DEF Counted
<1>3. CASE SendEvent
  <2>1. /\ task = "sending" /\ UNCHANGED <<texts, panicked>>
    BY <1>3 DEF SendEvent
  <2>2. CASE UNCHANGED sent /\ task' = "ended"
    <3>1. sent # <<>> => sent[Len(sent)] # Done
      <4>1. sent # <<>> => Len(sent) \in 1 .. Len(sent)
        BY <1>1
      <4> QED
        BY <2>1, <4>1 DEF StreamInv, SentNumbered
    <3> QED
      BY <1>1, <2>1, <2>2, <3>1 DEF Counted
  <2>3. CASE sent' = Append(sent, event) /\ Proceed
    <3>1. Len(sent') = Len(sent) + 1 /\ sent' # <<>> /\ sent'[Len(sent')] = event
      BY <1>1, <2>3
    <3>2. CASE event = Done
      BY <1>1, <2>1, <2>3, <3>1, <3>2 DEF Counted, Proceed
    <3>3. CASE event # Done /\ Len(sent) + 1 = texts
      BY <1>1, <2>1, <2>3, <3>1, <3>3 DEF Counted, Proceed, Sending
    <3>4. CASE event # Done /\ Len(sent) + 1 # texts
      BY <1>1, <2>1, <2>3, <3>1, <3>4 DEF Counted, Proceed
    <3> QED
      BY <3>2, <3>3, <3>4
  <2> QED
    BY <1>3, <2>2, <2>3 DEF SendEvent
<1>4. CASE UNCHANGED taskVars
  BY <1>4, CountedAlone
<1> QED
  BY <1>2, <1>3, <1>4
     DEF SseNext, Server, Connection, Parser, Forward, Finish, Notice, Break, Poll,
         Drop, Extract, Read, ReadError, Eof

\* A stream starts with the texts of a request that was not refused.
LEMMA CountedNext == Inv /\ StreamInv /\ Counted /\ [Next]_vars => Counted'
<1> SUFFICES ASSUME Inv, StreamInv, Counted, [Next]_vars PROVE Counted'
  OBVIOUS
<1>1. CASE UNCHANGED sseVars
  BY <1>1, CountedAlone DEF sseVars
<1>2. CASE Start(request.texts) /\ answer[attempt] = "success"
  <2>1. Refusal = "none"
    BY <1>2 DEF Inv, Typed, HandlersFit, Fits, Errors, HandlerStates
  <2>2. request.texts \in Nat /\ request.texts # 0
    BY <2>1, RequestsTyped DEF Inv, Typed, Refusal
  <2>3. /\ task = "none" /\ task' = "working" /\ texts' = request.texts
        /\ sent' = sent
    BY <1>2 DEF Start
  <2>4. sent' = <<>>
    BY <2>3 DEF Counted
  <2>5. Len(sent') < texts'
    BY <2>2, <2>3, <2>4
  <2> QED
    BY <2>2, <2>3, <2>4, <2>5 DEF Counted
<1>3. CASE Stream
  BY <1>3, CountedStep DEF Stream
<1>4. CASE ServerSteps
  BY <1>1, <1>4 DEF ServerSteps, Handle, Translated, TaskOfNobody
<1>5. CASE ClientSteps
  <2>1. UNCHANGED sseVars \/ (Start(request.texts) /\ answer[attempt] = "success")
    BY <1>5 DEF ClientSteps, SendRequest, Lost, Answered, Success, Sleep
  <2> QED
    BY <1>1, <1>2, <2>1
<1> QED
  BY <1>1, <1>3, <1>4, <1>5 DEF Next, vars

LEMMA CountedInvariance == Spec => []Counted
<1>1. Init => Counted
  BY DEF Init, SseInit, Counted
<1> QED
  BY <1>1, InvInit, InvNext, StreamInvariance, CountedNext, PTL DEF Spec

\* However the bytes are cut into chunks and whatever is lost, the consumer gets
\* the items of the request's texts in their order, and one cut short only after
\* a read error and as the last one (stream.rs:19-55).
THEOREM StreamInOrder == Spec => []InOrder
<1>1. StreamInv => InOrder
  <2> SUFFICES ASSUME StreamInv PROVE InOrder
    OBVIOUS
  <2>1. /\ yielded \in Seq(Items) /\ Len(yielded) \in Nat
        /\ sent \in Seq(Sendable) /\ Len(sent) \in Nat /\ Len(channel) \in Nat
    BY DEF StreamInv, StreamTyped
  <2> SUFFICES ASSUME NEW j \in 1 .. Len(yielded)
               PROVE  /\ j <= Len(sent) /\ sent[j].kind # "done"
                      /\ yielded[j].text = sent[j].text
                      /\ (yielded[j].kind = "error") = (sent[j].kind = "error")
                      /\ yielded[j].kind = "truncated" => erred /\ j = Len(yielded)
    BY <2>1 DEF InOrder
  <2>2. /\ j <= Passed /\ sent[j] # Done /\ yielded[j].text = j
        /\ yielded[j].kind = "error" <=> sent[j].kind = "error"
        /\ yielded[j].kind = "truncated" => erred /\ j = Len(yielded)
    BY DEF StreamInv, Yields
  <2>3. j \in 1 .. Len(sent)
    BY <2>1, <2>2 DEF Passed
  <2>4. sent[j] \in Answers /\ sent[j].text = j
    BY <2>1, <2>2, <2>3 DEF StreamInv, SentNumbered, Sendable
  <2> QED
    BY <2>2, <2>3, <2>4 DEF Answers
<1> QED
  BY <1>1, StreamInvariance, PTL

\* A stream that ends without a read error has yielded one item for each text of
\* the request, whatever the chunks and wherever the connection was lost, unless
\* the engine has panicked; then it has all that the server sent before done
\* (stream.rs:9-10, translate.rs:161-174).
THEOREM StreamComplete == Spec => []EndIsEverything
<1>1. StreamInv /\ Counted => EndIsEverything
  <2> SUFFICES ASSUME StreamInv, Counted, parser = "ended", ~erred
               PROVE  /\ Len(yielded) = Len(sent) - 1 /\ sent[Len(sent)] = Done
                      /\ Len(yielded) = texts \/ panicked
    BY DEF EndIsEverything
  <2>1. /\ conn = "finished" /\ task = "ended"
        /\ Len(yielded) = Len(sent) - 1 /\ sent[Len(sent)] = Done
    BY DEF StreamInv, EndsWell, ChannelHolds
  <2>2. sent # <<>> /\ texts \in Nat /\ Len(sent) \in Nat /\ Len(yielded) \in Nat
    BY <2>1 DEF StreamInv, StreamTyped, ChannelHolds, SentNumbered, Counted
  <2>3. panicked \/ Len(sent) = texts + 1
    BY <2>1, <2>2 DEF Counted
  <2> QED
    BY <2>1, <2>2, <2>3
<1> QED
  BY <1>1, StreamInvariance, CountedInvariance, PTL
===============================================================================
