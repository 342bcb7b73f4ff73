------------------------------ MODULE ApiServer ------------------------------
(***************************************************************************)
(* The HTTP server as its clients see it (src/translator-api/src): it loads  *)
(* the model, then it listens.  /health and /languages are answered on one   *)
(* of tokio's workers; translations and detections go to tokio's pool of     *)
(* blocking threads, where they stay when the client has gone.               *)
(*                                                                          *)
(* What a translation does is TranslationService's matter: here it may take  *)
(* for ever, as one does that the scheduler has stranded.                    *)
(***************************************************************************)
EXTENDS Integers, Sequences, FiniteSets

CONSTANTS
  Requests,        \* the requests that clients may send, each once
  Route,           \* where each one goes: "translate", "detect" or "static"
  Workers,         \* tokio's worker threads
  BlockingThreads  \* tokio's limit of blocking threads

ASSUME RoutesKnown ==
  IsFiniteSet(Requests) /\ Route \in [Requests -> {"translate", "detect", "static"}]
ASSUME ThreadsPositive == Workers \in Nat \ {0} /\ BlockingThreads \in Nat \ {0}

VARIABLES
  server,  \* "loading", "listening" or "exited"
  call,    \* each request as its client sees it
  job,     \* each request as the server sees it
  pool     \* the jobs that wait for a blocking thread, oldest first

apiVars == <<server, call, job, pool>>

ApiInit ==
  /\ server = "loading" /\ pool = <<>>
  /\ call = [r \in Requests |-> "unsent"]
  /\ job = [r \in Requests |-> "none"]

-----------------------------------------------------------------------------
(* The process *)

\* The engine is there and the port is bound.
Listen ==
  /\ server = "loading" /\ server' = "listening"
  /\ UNCHANGED <<call, job, pool>>

\* No model, no port, or the process is killed: jobs and connections are lost.
Exit ==
  /\ server # "exited" /\ server' = "exited"
  /\ job' = [r \in Requests |-> IF job[r] = "none" THEN "none" ELSE "over"]
  /\ pool' = <<>>
  /\ UNCHANGED call

-----------------------------------------------------------------------------
(* The handlers *)

RunOnWorker(r) == "worker"  \* mutant
\* Who computes the answer: the handler itself, or spawn_blocking.
Place(r) == IF Route[r] = "static" THEN "worker" ELSE "blocking"

Occupied(place) == {r \in Requests : job[r] = "running" /\ Place(r) = place}

\* A worker takes the request, though its client may have gone meanwhile.
Handle(r) ==
  /\ server = "listening"
  /\ job[r] = "none" /\ call[r] \in {"sent", "timed_out", "closed"}
  /\ Cardinality(Occupied("worker")) < Workers
  /\ IF Place(r) = "worker"
       THEN job' = [job EXCEPT ![r] = "running"] /\ UNCHANGED pool
       ELSE job' = [job EXCEPT ![r] = "queued"] /\ pool' = Append(pool, r)
  /\ UNCHANGED <<server, call>>

\* The connection is closed before the handler has begun.
Drop(r) ==
  /\ server = "listening"
  /\ job[r] = "none" /\ call[r] \in {"timed_out", "closed"}
  /\ job' = [job EXCEPT ![r] = "over"]
  /\ UNCHANGED <<server, call, pool>>

StartJob ==
  /\ pool # <<>> /\ Cardinality(Occupied("blocking")) < BlockingThreads
  /\ job' = [job EXCEPT ![Head(pool)] = "running"]
  /\ pool' = Tail(pool)
  /\ UNCHANGED <<server, call>>

\* An answer, an error of the engine, or a panic, which is an error too; nobody
\* gets it if the client has gone.
Finish(r) ==
  /\ job[r] = "running"
  /\ job' = [job EXCEPT ![r] = "over"]
  /\ IF call[r] = "sent"
       THEN \E answer \in (IF Route[r] = "static" THEN {"ok"} ELSE {"ok", "error"}) :
              call' = [call EXCEPT ![r] = answer]
       ELSE UNCHANGED call
  /\ UNCHANGED <<server, pool>>

ServerSteps ==
  Listen \/ Exit \/ StartJob \/ \E r \in Requests : Handle(r) \/ Drop(r) \/ Finish(r)

\* Workers and blocking threads run; of the jobs only a translation may take for
\* ever, because it waits for the scheduler without a time limit.
ApiFairness ==
  /\ WF_apiVars(StartJob)
  /\ WF_apiVars(\E r \in Requests : Handle(r))
  /\ WF_apiVars(\E r \in Requests : Route[r] # "translate" /\ Finish(r))

-----------------------------------------------------------------------------
(* What a client does *)

\* A request reaches a server that listens; otherwise it is refused.
Send(r) ==
  /\ call[r] = "unsent"
  /\ IF server = "listening"
       THEN call' = [call EXCEPT ![r] = "sent"] /\ UNCHANGED job
       ELSE /\ call' = [call EXCEPT ![r] = "error"]
            /\ job' = [job EXCEPT ![r] = "over"]
  /\ UNCHANGED <<server, pool>>

\* The client's time limit for a whole request passes; the server is not told.
TimeOut(r) ==
  /\ call[r] = "sent"
  /\ call' = [call EXCEPT ![r] = "timed_out"]
  /\ UNCHANGED <<server, job, pool>>

\* The connection is gone with the process.
Reset(r) ==
  /\ call[r] = "sent" /\ server = "exited"
  /\ call' = [call EXCEPT ![r] = "error"]
  /\ job' = [job EXCEPT ![r] = "over"]
  /\ UNCHANGED <<server, pool>>

Returned == {"ok", "error", "timed_out"}

\* The client has read the outcome, and keeps nothing of the request.
Close(r) ==
  /\ call[r] \in Returned
  /\ call' = [call EXCEPT ![r] = "closed"]
  /\ UNCHANGED <<server, job, pool>>

-----------------------------------------------------------------------------

\* The server still has to do with a request, or will have.
Active(r) ==
  /\ server = "listening"
  /\ \/ job[r] \in {"queued", "running"}
     \/ job[r] = "none" /\ call[r] \in {"sent", "timed_out", "closed"}

ApiTypeOK ==
  /\ server \in {"loading", "listening", "exited"}
  /\ call \in [Requests -> {"unsent", "sent", "closed"} \cup Returned]
  /\ job \in [Requests -> {"none", "queued", "running", "over"}]
  /\ pool \in Seq(Requests)

\* The server gets done with /health and /languages however many translations
\* run for ever: no handler computes on a worker (translate.rs:89,
\* detect_language.rs:30).
StaticRoutesAnswer ==
  \A r \in Requests : Route[r] = "static" => (Active(r) ~> ~Active(r))

\* It gets done with a detection too, unless translations that never end occupy
\* all blocking threads; they are served in the order of their arrival.
DetectionsAnswer ==
  \/ <>[](Cardinality({r \in Occupied("blocking") : Route[r] = "translate"})
         = BlockingThreads)
  \/ \A r \in Requests : Route[r] = "detect" => (Active(r) ~> ~Active(r))

=============================================================================
