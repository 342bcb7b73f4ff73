------------------------------ MODULE ClientCall ------------------------------
(***************************************************************************)
(* One call of the HTTP client, from its first attempt to its result:        *)
(* TranslatorClient::with_retry (src/translator-api-client/src/client.rs)    *)
(* against the server's handlers of /translate and /translate/stream         *)
(* (src/translator-api/src/routes/translate.rs).  When an attempt at a       *)
(* stream succeeds, SseStream takes over.                                    *)
(***************************************************************************)
EXTENDS SseStream, FiniteSets

CONSTANTS
  Requests,     \* the requests a caller may make, see RequestsTyped
  MaxRetries,   \* retry.max_retries
  BaseBackoff,  \* retry.base_backoff, in milliseconds
  MaxBackoff,   \* retry.max_backoff
  Jitter,       \* the values of the jitter, at most 999
  AllLanguages, \* how many languages "all" stands for
  MaxTexts,     \* max_texts_per_request
  MaxWorkItems  \* max_work_items_per_request

ASSUME RetryNatural ==
  MaxRetries \in Nat /\ BaseBackoff \in Nat /\ MaxBackoff \in Nat
ASSUME JitterRange == Jitter \subseteq 0 .. 999
ASSUME LimitsTyped ==
  AllLanguages \in Nat /\ MaxTexts \in Nat /\ MaxWorkItems \in Nat
ASSUME RequestsTyped ==
  Requests \subseteq [stream : BOOLEAN, texts : Nat, langs : Nat,
                      all : BOOLEAN, known : BOOLEAN]

VARIABLES
  request,  \* the request of this call
  attempt,  \* the loop's variable
  call,     \* where the call is, see CallStates
  causes,   \* the errors of the attempts so far
  waited,   \* the milliseconds slept so far
  handler,  \* for each attempt, where the server is with it
  answer    \* for each attempt, the answer on its way to the client

callVars == <<request, attempt, call, causes, waited>>
serverVars == <<handler, answer>>
vars == <<callVars, serverVars, sseVars>>

Attempts == 0 .. MaxRetries
Returned == {"ok", "failed", "exhausted"}

Init ==
  /\ SseInit
  /\ request \in Requests
  /\ attempt = 0 /\ call = "sending" /\ causes = <<>> /\ waited = 0
  /\ handler = [a \in Attempts |-> "none"]
  /\ answer = [a \in Attempts |-> "none"]

-----------------------------------------------------------------------------
(* The server's handlers *)

\* The languages of a request; "all" counts as all of them only by itself.
NLangs == IF request.all THEN AllLanguages ELSE request.langs

\* validate_request, then the parsing of the language codes.
Refusal ==
  IF request.texts = 0 THEN "unsupported"
  ELSE IF request.texts > MaxTexts \/ request.texts * NLangs > MaxWorkItems
  THEN "too_long"
  ELSE IF ~request.known THEN "unsupported" ELSE "none"

\* What the work then is: every text in each of these languages, twice if a
\* code is named twice.
Resolved == IF request.all THEN AllLanguages ELSE request.langs

\* ApiError::into_response
TooLongIsInternal(error) ==  \* mutant
  CASE error = "unsupported" -> 400
    [] error = "unavailable" -> 429
    [] OTHER -> 500
Status(error) ==
  CASE error = "unsupported" -> 400
    [] error = "too_long" -> 413
    [] error = "unavailable" -> 429
    [] OTHER -> 500

Reply(a, what, next) ==
  /\ handler' = [handler EXCEPT ![a] = next]
  /\ answer' = [answer EXCEPT ![a] = what]

\* A request is refused, or its work starts: a stream answers before its first
\* text, a batch after the engine.
Handle(a) ==
  /\ handler[a] = "sent"
  /\ CASE Refusal # "none" -> Reply(a, Refusal, "refused")
       [] Refusal = "none" /\ request.stream -> Reply(a, "success", "streaming")
       [] OTHER -> Reply(a, "none", "translating")
  /\ UNCHANGED <<callVars, sseVars>>

\* The engine returns, whether or not anybody still waits for the answer.
Translated(a) ==
  /\ handler[a] = "translating"
  /\ \E result \in {"success", "unavailable", "failed"} :
       Reply(a, result, "done")
  /\ UNCHANGED <<callVars, sseVars>>

Abandoned(a) == a < attempt \/ call \notin {"waiting", "streaming"}

\* The task of a stream that nobody reads ends at its next event.
TaskOfNobody(a) ==
  /\ handler[a] = "streaming" /\ Abandoned(a)
  /\ handler' = [handler EXCEPT ![a] = "done"]
  /\ UNCHANGED <<answer, callVars, sseVars>>

-----------------------------------------------------------------------------
(* The client *)

\* ClientError::is_retryable; "transport" stands for a refused or lost
\* connection and a timeout, "body" for a success whose body cannot be read.
RetryUnreadable(cause) ==  \* mutant
  \/ cause \in {"transport", "body"}
  \/ cause \notin {"transport", "body"} /\ Status(cause) \in {429, 500, 502, 503, 504}
Retryable(cause) ==
  \/ cause = "transport"
  \/ /\ cause \notin {"transport", "body"}
     /\ Status(cause) \in {429, 500, 502, 503, 504}

\* RetryConfig::backoff_duration
Smaller(m, n) == IF m <= n THEN m ELSE n
Capped(n) == Smaller(BaseBackoff * 2 ^ Smaller(n, 16), MaxBackoff)
JitterUncapped(n, jitter) ==  \* mutant
  Capped(n) + (BaseBackoff * 2 ^ Smaller(n, 16) * jitter) \div 2000
Backoff(n, jitter) == Capped(n) + (Capped(n) * jitter) \div 2000

LastTry == attempt = MaxRetries

\* The Err arm of the loop.
Failed(cause) ==
  /\ causes' = Append(causes, cause)
  /\ \/ /\ ~Retryable(cause) \/ LastTry
        /\ call' = IF attempt > 0 THEN "exhausted" ELSE "failed"
        /\ UNCHANGED waited
     \/ /\ Retryable(cause) /\ ~LastTry
        /\ call' = "backoff"
        /\ \E jitter \in Jitter : waited' = waited + Backoff(attempt, jitter)

\* An attempt sends its request, or finds nobody to connect to.
SendRequest ==
  /\ call = "sending"
  /\ \/ /\ handler' = [handler EXCEPT ![attempt] = "sent"]
        /\ call' = "waiting"
        /\ UNCHANGED <<causes, waited>>
     \/ Failed("transport") /\ UNCHANGED handler
  /\ UNCHANGED <<request, attempt, answer, sseVars>>

NoTimeLimit ==  \* mutant
  /\ call = "waiting" /\ handler[attempt] \notin {"sent", "translating"}
  /\ Failed("transport")
  /\ UNCHANGED <<request, attempt, serverVars, sseVars>>

\* The connection is lost or the time limit passes; the server is not told.
Lost ==
  /\ call = "waiting"
  /\ Failed("transport")
  /\ UNCHANGED <<request, attempt, serverVars, sseVars>>

\* A success: the stream begins, or the body is read, which may still fail.
Success ==
  /\ answer[attempt] = "success"
  /\ IF request.stream
       THEN /\ Start(request.texts)
            /\ call' = "streaming" /\ UNCHANGED <<causes, waited>>
       ELSE /\ UNCHANGED sseVars
            /\ \/ call' = "ok" /\ UNCHANGED <<causes, waited>>
               \/ Failed("body")

Answered ==
  /\ call = "waiting" /\ answer[attempt] # "none"
  /\ \/ Success
     \/ /\ answer[attempt] # "success"
        /\ Failed(answer[attempt]) /\ UNCHANGED sseVars
  /\ UNCHANGED <<request, attempt, serverVars>>

NextAttempt == attempt' = attempt + 1

Sleep ==
  /\ call = "backoff" /\ call' = "sending"
  /\ NextAttempt
  /\ UNCHANGED <<request, causes, waited, serverVars, sseVars>>

Stream ==
  /\ call = "streaming" /\ SseNext
  /\ UNCHANGED <<callVars, serverVars>>

ServerSteps == \E a \in Attempts : Handle(a) \/ Translated(a) \/ TaskOfNobody(a)
ClientSteps == SendRequest \/ Lost \/ Answered \/ Sleep

Next == ServerSteps \/ ClientSteps \/ Stream

Spec == Init /\ [][Next]_vars

\* The client alone drives its attempts: its time limit needs no server.
FairSpec == Spec /\ WF_vars(ClientSteps) /\ SseFairness

-----------------------------------------------------------------------------
(* Properties *)

Errors ==
  {"transport", "body", "unsupported", "too_long", "unavailable", "failed"}
Permanent == {"body", "unsupported", "too_long"}

\* What has been slept is the matter of PausesBounded.
TypeOK ==
  /\ request \in Requests /\ attempt \in Attempts
  /\ call \in {"sending", "waiting", "backoff", "streaming"} \cup Returned
  /\ causes \in Seq(Errors) /\ Len(causes) \in {attempt, attempt + 1}
  /\ handler \in [Attempts -> {"none", "sent", "refused", "translating",
                               "streaming", "done"}]
  /\ answer \in [Attempts -> {"none", "success"} \cup Errors]

\* An overload, a failure of the engine and one of the connection are sent again
\* until all attempts are used; what the server refuses for the request's own
\* sake, and an answer that came but cannot be read, is final.  The line is drawn
\* by the kind of the error: a thread that has ended for good answers 500 and is
\* asked again in vain (client.rs:196-220, the client's error.rs:24-30, the
\* server's error.rs:9-34).
RetriedWhenTransient ==
  /\ \A k \in 1 .. Len(causes) - 1 : causes[k] \notin Permanent
  /\ call \in {"failed", "exhausted"} /\ causes[Len(causes)] \notin Permanent
       => Len(causes) = MaxRetries + 1

\* The pauses: the first is base_backoff and half as much again at most, the
\* others max_backoff and half as much again (retry.rs:25-40); none is shorter
\* than the first, and each error but the last one is followed by one.
Pauses == attempt + (IF call = "backoff" THEN 1 ELSE 0)
First == Smaller(BaseBackoff, MaxBackoff)
PausesBounded ==
  /\ waited >= Pauses * First
  /\ Pauses > 0 => 2 * waited <= 3 * (First + (Pauses - 1) * MaxBackoff)

\* The attempts that the engine works for or that it has answered, given up or
\* not, and those whose answer the client did not get.
Worked ==
  {a \in Attempts :
     handler[a] \in {"translating", "streaming"} \/ answer[a] = "success"}
Unanswered == {a \in Attempts : a + 1 \in DOMAIN causes /\ causes[a + 1] = "transport"}

\* Together they are worth the server's limit for one request, and once more for
\* each answer that was lost: a request that was translated is repeated for no
\* other reason (translate.rs:62-79 and 89, client.rs:196-220).
WorkBounded ==
  Cardinality(Worked) * (request.texts * Resolved)
    <= (1 + Cardinality(Unanswered)) * MaxWorkItems

\* A call returns or turns into a stream, even when the server never answers
\* (client.rs:73-77).
CallReturns == <>(call \in Returned \cup {"streaming"})
==============================================================================
