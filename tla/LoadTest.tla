------------------------------- MODULE LoadTest -------------------------------
(***************************************************************************)
(* The load test (src/translator-api-client/src/bin/load_test.rs) against    *)
(* the server: scenario after scenario, each with sequential warm-up         *)
(* requests and then a task per request, of which a semaphore lets a few run *)
(* at a time.  Its client has a time limit and makes no second attempt.      *)
(***************************************************************************)
EXTENDS ApiServer

CONSTANTS
  Scenarios,   \* the routes to be tested, in this order
  Warmup,      \* --warmup
  Count,       \* --requests
  Concurrency, \* --concurrency
  Others       \* requests of other clients, such as a health probe

ASSUME ScenariosKnown == Scenarios \in Seq({"translate", "detect", "static"})
ASSUME CountsNatural == Warmup \in Nat /\ Count \in Nat /\ Concurrency \in Nat

\* The warm-up requests of a scenario come before the measured ones.
Own == (DOMAIN Scenarios) \X (1 .. Warmup + Count)
ASSUME RequestsOfScenarios ==
  /\ Requests = Own \cup Others /\ Own \cap Others = {}
  /\ \A r \in Own : Route[r] = Scenarios[r[1]]

VARIABLES
  scenario,   \* the scenario that runs, or one more than there are
  phase,      \* "warmup" or "load"
  warm,       \* how many warm-up requests have returned
  warned,     \* the scenarios with a warning about a warm-up request
  task,       \* the task of each measured request
  permits,    \* what the semaphore has left
  latencies,  \* how many latencies each scenario has collected
  errors      \* how many errors

loadVars == <<scenario, phase, warm, warned, task, permits, latencies, errors>>
vars == <<apiVars, loadVars>>

WarmUps(s) == {r \in Own : r[1] = s /\ r[2] <= Warmup}
Measured(s) == {r \in Own : r[1] = s /\ r[2] > Warmup}

Init ==
  /\ ApiInit
  /\ scenario = 1 /\ phase = "warmup" /\ warm = 0 /\ warned = {}
  /\ task = [r \in Requests |-> "none"] /\ permits = 0
  /\ latencies = [s \in DOMAIN Scenarios |-> 0]
  /\ errors = [s \in DOMAIN Scenarios |-> 0]

-----------------------------------------------------------------------------

AnswersOnly(r) == call[r] = "error"  \* mutant
\* execute_request returns an error.
Failed(r) == call[r] # "ok"

WarmingUp == scenario \in DOMAIN Scenarios /\ phase = "warmup"

SendWarmUp ==
  /\ WarmingUp /\ warm < Warmup
  /\ Send(<<scenario, warm + 1>>)
  /\ UNCHANGED loadVars

\* A failure is a warning, and the warm-up goes on.
WarmUpReturns ==
  LET r == <<scenario, warm + 1>> IN
    /\ WarmingUp /\ warm < Warmup /\ Close(r)
    /\ warm' = warm + 1
    /\ warned' = IF Failed(r) THEN warned \cup {scenario} ELSE warned
    /\ UNCHANGED <<scenario, phase, task, permits, latencies, errors>>

\* All tasks are spawned at once.
Spawn ==
  /\ WarmingUp /\ warm = Warmup
  /\ phase' = "load" /\ permits' = Concurrency
  /\ task' = [r \in Requests |-> IF r \in Measured(scenario) THEN "waiting" ELSE task[r]]
  /\ UNCHANGED <<apiVars, scenario, warm, warned, latencies, errors>>

Acquire(r) ==
  /\ task[r] = "waiting" /\ permits > 0
  /\ task' = [task EXCEPT ![r] = "running"]
  /\ permits' = permits - 1
  /\ Send(r)
  /\ UNCHANGED <<scenario, phase, warm, warned, latencies, errors>>

KeepPermit == permits  \* mutant
\* The task drops its permit whatever came back.
Released == permits + 1

\* The task ends and join_next returns it; an error has a latency too.
Join(r) ==
  /\ task[r] = "running" /\ Close(r)
  /\ task' = [task EXCEPT ![r] = "joined"]
  /\ permits' = Released
  /\ latencies' = [latencies EXCEPT ![scenario] = @ + 1]
  /\ errors' = [errors EXCEPT ![scenario] = IF Failed(r) THEN @ + 1 ELSE @]
  /\ UNCHANGED <<scenario, phase, warm, warned>>

\* The join set is empty: the scenario's results are printed.
Report ==
  /\ scenario \in DOMAIN Scenarios /\ phase = "load"
  /\ \A r \in Measured(scenario) : task[r] = "joined"
  /\ scenario' = scenario + 1 /\ phase' = "warmup" /\ warm' = 0
  /\ UNCHANGED <<apiVars, warned, task, permits, latencies, errors>>

\* Another client, for which nobody else waits.
OtherClient ==
  /\ \E r \in Others : Send(r) \/ Close(r)
  /\ UNCHANGED loadVars

\* The network, and the clients' time limits.
Network ==
  /\ \E r \in Requests : TimeOut(r) \/ Reset(r)
  /\ UNCHANGED loadVars

ClientSteps ==
  \/ SendWarmUp \/ WarmUpReturns \/ Spawn \/ Report \/ Network
  \/ \E r \in Requests : Acquire(r) \/ Join(r)

Next == ClientSteps \/ OtherClient \/ (ServerSteps /\ UNCHANGED loadVars)

Spec == Init /\ [][Next]_vars

\* The load test goes on by itself, and its time limits pass.
FairSpec == Spec /\ WF_vars(ClientSteps) /\ ApiFairness

-----------------------------------------------------------------------------

TypeOK ==
  /\ ApiTypeOK
  /\ scenario \in 1 .. Len(Scenarios) + 1 /\ phase \in {"warmup", "load"}
  /\ warm \in 0 .. Warmup /\ warned \subseteq DOMAIN Scenarios
  /\ task \in [Requests -> {"none", "waiting", "running", "joined"}]
  /\ permits \in 0 .. Concurrency
  /\ latencies \in [DOMAIN Scenarios -> 0 .. Count]
  /\ errors \in [DOMAIN Scenarios -> 0 .. Count]

\* A report counts every request once, and what it leaves to the server shows: a
\* request that still occupies the server while later scenarios are measured is
\* one of the report's errors, or a warning (load_test.rs:244, 274-283).  While a
\* scenario is measured, the server has to do with no more of its requests than
\* --concurrency and the errors so far.
ReportsTellTheRest ==
  \A s \in DOMAIN Scenarios :
    LET active == Cardinality({r \in Measured(s) : Active(r)}) IN
      /\ s < scenario => latencies[s] = Count /\ active <= errors[s]
      /\ active <= Concurrency + errors[s]
      /\ s < scenario \/ (s = scenario /\ phase = "load") =>
           s \in warned \/ ~\E r \in WarmUps(s) : Active(r)

\* With at least one permit every scenario is reported, whether or not the server
\* ever answers: each request ends by its time limit at the latest.
EveryScenarioReported ==
  Concurrency > 0 => <>(scenario = Len(Scenarios) + 1)

=============================================================================
