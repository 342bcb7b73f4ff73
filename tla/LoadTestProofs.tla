---------------------------- MODULE LoadTestProofs ----------------------------
(***************************************************************************)
(* Theorems about LoadTest, for any scenarios, any numbers of requests and   *)
(* permits, and any threads of the server.                                   *)
(***************************************************************************)
EXTENDS LoadTest, TLAPS, FiniteSetTheorems, FunctionTheorems

\* What the client has seen of a request agrees with what the server does.
Agreement ==
  \A r \in Requests :
    /\ call[r] = "unsent" => job[r] = "none"
    /\ call[r] \in {"ok", "error"} => job[r] = "over"
    /\ job[r] \in {"queued", "running"} => server = "listening"
    /\ job[r] = "none" /\ call[r] # "unsent" => server # "loading"

\* The pool holds the queued jobs, each one once.
Pooled ==
  \A i \in 1 .. Len(pool) :
    /\ job[pool[i]] = "queued"
    /\ \A j \in 1 .. Len(pool) : pool[i] = pool[j] => i = j

ApiInv == ApiTypeOK /\ Agreement /\ Pooled

\* A request that its client has closed is never taken up again, and only the
\* client sends and closes.
Fading ==
  \A r \in Requests :
    /\ call[r] = "closed" => call'[r] = "closed"
    /\ call[r] = "closed" /\ Active(r)' => Active(r)

Mild ==
  \A r \in Requests :
    {call[r], call'[r]} \cap {"unsent", "closed"} # {} => call'[r] = call[r]

Now(s) == s = scenario /\ phase = "load"
With(s, state) == {r \in Measured(s) : task[r] = state}
Left(s) == {r \in Measured(s) : task[r] = "joined" /\ Active(r)}

Types ==
  /\ scenario \in 1 .. Len(Scenarios) + 1 /\ phase \in {"warmup", "load"}
  /\ phase = "load" => scenario \in DOMAIN Scenarios
  /\ warm \in 0 .. Warmup /\ (phase = "load" => warm = Warmup)
  /\ warned \subseteq DOMAIN Scenarios
  /\ task \in [Requests -> {"none", "waiting", "running", "joined"}]
  /\ permits \in 0 .. Concurrency
  /\ latencies \in [DOMAIN Scenarios -> Nat]
  /\ errors \in [DOMAIN Scenarios -> Nat]

\* Only the scenario that is measured has tasks that go on; earlier ones have
\* joined all of theirs, later ones have none.
Tasks ==
  \A r \in Requests :
    IF r \in Own /\ r[2] > Warmup
    THEN /\ r[1] < scenario => task[r] = "joined"
         /\ r[1] >= scenario /\ ~Now(r[1]) => task[r] = "none"
         /\ Now(r[1]) => task[r] # "none"
         /\ task[r] \in {"none", "waiting"} => call[r] = "unsent"
         /\ task[r] = "running" => call[r] \notin {"unsent", "closed"}
         /\ task[r] = "joined" => call[r] = "closed"
    ELSE task[r] = "none"

WarmUpsClosed ==
  \A r \in Own :
    r[2] <= Warmup =>
      /\ r[1] < scenario \/ (r[1] = scenario /\ r[2] <= warm) => call[r] = "closed"
      /\ call[r] = "closed" /\ Active(r) => r[1] \in warned

Counts ==
  \A s \in DOMAIN Scenarios :
    /\ latencies[s] = Cardinality(With(s, "joined"))
    /\ Cardinality(Left(s)) <= errors[s] /\ errors[s] <= latencies[s]
    /\ Now(s) => Cardinality(With(s, "running")) + permits = Concurrency

Inv == ApiInv /\ Types /\ Tasks /\ WarmUpsClosed /\ Counts

-----------------------------------------------------------------------------
(* The server *)

LEMMA PoolFacts ==
  ASSUME ApiInv
  PROVE  /\ Len(pool) \in Nat /\ \A i \in 1 .. Len(pool) : pool[i] \in Requests
         /\ pool # <<>> => /\ Len(pool) >= 1 /\ Head(pool) = pool[1]
                           /\ Tail(pool) \in Seq(Requests)
                           /\ Len(Tail(pool)) = Len(pool) - 1
                           /\ \A i \in 1 .. Len(pool) - 1 : Tail(pool)[i] = pool[i + 1]
         /\ \A r \in Requests :
              /\ Append(pool, r) \in Seq(Requests) /\ Len(Append(pool, r)) = Len(pool) + 1
              /\ Append(pool, r)[Len(pool) + 1] = r
              /\ \A i \in 1 .. Len(pool) : Append(pool, r)[i] = pool[i]
<1>1. pool \in Seq(Requests)
  BY DEF ApiInv, ApiTypeOK
<1> QED  BY <1>1

LEMMA ServerStep ==
  ASSUME ApiInv, ServerSteps
  PROVE  ApiInv' /\ Fading /\ Mild
<1> USE DEF ApiInv
<1>1. CASE Listen
  BY <1>1 DEF Listen, ApiTypeOK, Agreement, Pooled, Fading, Mild, Active
<1>2. CASE Exit
  BY <1>2 DEF Exit, ApiTypeOK, Agreement, Pooled, Fading, Mild, Active
<1>3. CASE StartJob
  <2>1. pool # <<>> /\ job' = [job EXCEPT ![pool[1]] = "running"] /\ pool' = Tail(pool)
        /\ UNCHANGED <<server, call>> /\ pool[1] \in Requests /\ job[pool[1]] = "queued"
    BY <1>3, PoolFacts DEF StartJob, Pooled
  <2>2. ApiTypeOK'
    BY <2>1, PoolFacts DEF ApiTypeOK
  <2>3. Agreement'
    BY <2>1 DEF ApiTypeOK, Agreement
  <2>4. Pooled'
    <3>1. \A i \in 1 .. Len(pool) - 1 : i + 1 \in 1 .. Len(pool) /\ i + 1 # 1
      BY PoolFacts
    <3>2. \A i \in 1 .. Len(pool) - 1 : pool[i + 1] # pool[1]
      BY <2>1, <3>1, PoolFacts DEF Pooled
    <3>3. ASSUME NEW i \in 1 .. Len(pool')
          PROVE  /\ i \in 1 .. Len(pool) - 1 /\ pool'[i] = pool[i + 1]
                 /\ job'[pool'[i]] = "queued"
      BY <2>1, <3>1, <3>2, PoolFacts DEF Pooled, ApiTypeOK
    <3>4. ASSUME NEW i \in 1 .. Len(pool'), NEW j \in 1 .. Len(pool'), pool'[i] = pool'[j]
          PROVE  i = j
      <4>1. pool[i + 1] = pool[j + 1]
        BY <3>3, <3>4
      <4>2. i + 1 = j + 1
        BY <3>1, <3>3, <4>1 DEF Pooled
      <4> QED  BY <4>2
    <3> QED  BY <3>3, <3>4 DEF Pooled
  <2>5. Fading /\ Mild
    BY <2>1 DEF Fading, Mild, Active, ApiTypeOK
  <2> QED  BY <2>2, <2>3, <2>4, <2>5
<1>4. ASSUME NEW r \in Requests, Handle(r)
      PROVE  ApiInv' /\ Fading /\ Mild
  <2>1. /\ server = "listening" /\ job[r] = "none" /\ UNCHANGED <<server, call>>
        /\ call[r] \in {"sent", "timed_out", "closed"}
        /\ \/ job' = [job EXCEPT ![r] = "running"] /\ pool' = pool
           \/ job' = [job EXCEPT ![r] = "queued"] /\ pool' = Append(pool, r)
    BY <1>4 DEF Handle
  <2>2. ApiTypeOK'
    BY <2>1, PoolFacts DEF ApiTypeOK
  <2>3. Agreement'
    BY <2>1 DEF ApiTypeOK, Agreement
  <2>4. \A i \in 1 .. Len(pool) : pool[i] # r
    BY <2>1 DEF Pooled
  <2>5. CASE pool' = pool
    BY <2>1, <2>2, <2>3, <2>4, <2>5, PoolFacts DEF Pooled, Fading, Mild, Active, ApiTypeOK
  <2>6. CASE job' = [job EXCEPT ![r] = "queued"] /\ pool' = Append(pool, r)
    <3>1. Pooled'
      BY <2>4, <2>6, PoolFacts DEF Pooled, ApiTypeOK
    <3> QED  BY <2>1, <2>2, <2>3, <3>1 DEF Fading, Mild, Active, ApiTypeOK
  <2> QED  BY <2>1, <2>5, <2>6
<1>5. ASSUME NEW r \in Requests, Drop(r)
      PROVE  ApiInv' /\ Fading /\ Mild
  <2>1. \A i \in 1 .. Len(pool) : pool[i] # r /\ job'[pool[i]] = job[pool[i]]
    BY <1>5, PoolFacts DEF Drop, Pooled, ApiTypeOK
  <2> QED
    BY <1>5, <2>1 DEF Drop, ApiTypeOK, Agreement, Pooled, Fading, Mild, Active
<1>6. ASSUME NEW r \in Requests, Finish(r)
      PROVE  ApiInv' /\ Fading /\ Mild
  <2>1. \A i \in 1 .. Len(pool) : pool[i] # r /\ job'[pool[i]] = job[pool[i]]
    BY <1>6, PoolFacts DEF Finish, Pooled, ApiTypeOK
  <2>2. /\ job[r] = "running" /\ job' = [job EXCEPT ![r] = "over"]
        /\ UNCHANGED <<server, pool>>
        /\ \/ call' = call
           \/ /\ call[r] = "sent"
              /\ \E a \in {"ok", "error"} : call' = [call EXCEPT ![r] = a]
    BY <1>6 DEF Finish
  <2>3. ApiTypeOK' /\ Agreement' /\ Pooled'
    BY <2>1, <2>2 DEF ApiTypeOK, Agreement, Pooled, Returned
  <2>4. Fading /\ Mild
    BY <2>2 DEF ApiTypeOK, Fading, Mild, Active
  <2> QED  BY <2>3, <2>4
<1> QED  BY <1>1, <1>2, <1>3, <1>4, <1>5, <1>6 DEF ServerSteps

LEMMA ClientStep ==
  ASSUME ApiInv, NEW r \in Requests, Send(r) \/ TimeOut(r) \/ Reset(r) \/ Close(r)
  PROVE  /\ ApiInv' /\ Fading
         /\ \A q \in Requests : q # r => call'[q] = call[q] /\ job'[q] = job[q]
         /\ server' = server
         /\ TimeOut(r) \/ Reset(r) => Mild
         /\ Send(r) => call[r] = "unsent" /\ call'[r] \in {"sent", "error"}
         /\ Close(r) => call[r] \in Returned /\ call'[r] = "closed" /\ job' = job
<1> USE DEF ApiInv
<1>1. /\ UNCHANGED <<server, pool>>
      /\ \A q \in Requests : q # r => call'[q] = call[q] /\ job'[q] = job[q]
      /\ call[r] \in {"unsent", "sent"} \cup Returned
  BY DEF Send, TimeOut, Reset, Close, ApiTypeOK
<1>2. \A i \in 1 .. Len(pool) : job'[pool[i]] = job[pool[i]]
  <2>1. CASE Send(r)
    BY <1>1, <2>1, PoolFacts DEF Send, Agreement, Pooled
  <2>2. CASE Reset(r)
    <3>1. Len(pool) = 0
      <4> SUFFICES ASSUME 1 \in 1 .. Len(pool)  PROVE FALSE
        BY PoolFacts
      <4> QED  BY <2>2, PoolFacts DEF Reset, Pooled, Agreement
    <3> QED  BY <3>1
  <2> QED  BY <2>1, <2>2 DEF TimeOut, Close
<1>3. ApiTypeOK'
  BY <1>1 DEF Send, TimeOut, Reset, Close, ApiTypeOK, Returned
<1>4. Agreement'
  BY <1>1 DEF Send, TimeOut, Reset, Close, ApiTypeOK, Agreement, Returned
<1>5. Pooled'
  BY <1>1, <1>2 DEF Pooled
<1>6. Fading
  BY <1>1 DEF Fading, Active, Returned
<1>7. TimeOut(r) \/ Reset(r) => Mild
  BY <1>1 DEF TimeOut, Reset, Mild, ApiTypeOK
<1>8. /\ Send(r) => call[r] = "unsent" /\ call'[r] \in {"sent", "error"}
      /\ Close(r) => call[r] \in Returned /\ call'[r] = "closed" /\ job' = job
  BY DEF Send, Close, ApiTypeOK
<1> QED  BY <1>1, <1>3, <1>4, <1>5, <1>6, <1>7, <1>8

-----------------------------------------------------------------------------
(* The sets that are counted *)

LEMMA OwnFacts ==
  /\ Len(Scenarios) \in Nat /\ DOMAIN Scenarios = 1 .. Len(Scenarios)
  /\ Own \subseteq Requests
  /\ \A r \in Own : /\ r[1] \in DOMAIN Scenarios /\ r[2] \in 1 .. Warmup + Count
                    /\ r = <<r[1], r[2]>>
  /\ Own \cap Others = {} /\ Requests = Own \cup Others
BY ScenariosKnown, RequestsOfScenarios DEF Own

LEMMA Finiteness ==
  ASSUME NEW s, NEW state
  PROVE  /\ IsFiniteSet(Measured(s)) /\ IsFiniteSet(With(s, state)) /\ IsFiniteSet(Left(s))
         /\ Cardinality(Measured(s)) \in Nat /\ Cardinality(With(s, state)) \in Nat
         /\ Cardinality(Left(s)) \in Nat
         /\ Cardinality(With(s, state)) <= Cardinality(Measured(s))
<1>1. IsFiniteSet(Requests) /\ Measured(s) \subseteq Requests
  BY RoutesKnown, OwnFacts DEF Measured
<1>2. IsFiniteSet(Measured(s))
  BY <1>1, FS_Subset
<1>3. With(s, state) \in SUBSET Measured(s) /\ Left(s) \in SUBSET Measured(s)
  BY DEF With, Left
<1>4. /\ IsFiniteSet(With(s, state)) /\ IsFiniteSet(Left(s))
      /\ Cardinality(With(s, state)) <= Cardinality(Measured(s))
  BY <1>2, <1>3, FS_Subset
<1> QED  BY <1>2, <1>4, FS_CardinalityType

LEMMA MeasuredCount ==
  ASSUME NEW s \in DOMAIN Scenarios
  PROVE  Cardinality(Measured(s)) = Count
<1> DEFINE I == Warmup + 1 .. Warmup + Count
           f == [k \in I |-> <<s, k>>]
<1>1. IsFiniteSet(I) /\ Cardinality(I) = Count
  BY CountsNatural, FS_Interval
<1>2. \A k \in I : <<s, k>> \in Measured(s)
  BY CountsNatural DEF Measured, Own
<1>3. \A r \in Measured(s) : r[2] \in I /\ r = <<s, r[2]>>
  BY CountsNatural, OwnFacts DEF Measured
<1>4. f \in [I -> Measured(s)] /\ \A a, b \in I : f[a] = f[b] => a = b
  BY <1>2
<1>5. \A r \in Measured(s) : \E k \in I : f[k] = r
  BY <1>3
<1> HIDE DEF f, I
<1>6. f \in Bijection(I, Measured(s))
  BY <1>4, <1>5, Fun_IsBij
<1>7. ExistsBijection(I, Measured(s))
  BY <1>6 DEF ExistsBijection
<1> QED  BY <1>1, <1>7, FS_Bijection

\* A set of counted requests that has only lost members.
LEMMA FewerLeft ==
  ASSUME NEW s, Left(s)' \subseteq Left(s), IsFiniteSet(Left(s))
  PROVE  Cardinality(Left(s)') <= Cardinality(Left(s))
<1> DEFINE new == Left(s)'
<1>1. new \in SUBSET Left(s)
  OBVIOUS
<1> HIDE DEF new
<1>2. Cardinality(new) <= Cardinality(Left(s))
  BY <1>1, FS_Subset
<1> QED  BY <1>2 DEF new

-----------------------------------------------------------------------------
(* The steps *)

LEMMA InitInv ==
  Init => Inv
<1> SUFFICES ASSUME Init  PROVE Inv
  OBVIOUS
<1> USE DEF Init, ApiInit
<1>1. ApiInv
  BY DEF ApiInv, ApiTypeOK, Agreement, Pooled
<1>2. Types
  BY OwnFacts, CountsNatural DEF Types
<1>3. Tasks
  BY OwnFacts DEF Tasks, Now
<1>4. WarmUpsClosed
  BY OwnFacts DEF WarmUpsClosed
<1>5. Counts
  <2>1. \A s : With(s, "joined") = {} /\ Left(s) = {}
    BY OwnFacts DEF With, Left, Measured
  <2>2. Cardinality({}) = 0
    BY FS_EmptySet
  <2>3. \A s : Cardinality(With(s, "joined")) = 0 /\ Cardinality(Left(s)) = 0 /\ ~Now(s)
    BY <2>1, <2>2 DEF Now
  <2>4. \A s \in DOMAIN Scenarios : latencies[s] = 0 /\ errors[s] = 0
    OBVIOUS
  <2> HIDE DEF Init
  <2> QED  BY <2>3, <2>4 DEF Counts
<1> QED  BY <1>1, <1>2, <1>3, <1>4, <1>5 DEF Inv

\* A step that leaves the tasks and the counts alone, and the measured requests
\* to the server and the network.
LEMMA Quiet ==
  ASSUME Inv, ApiInv', Types', WarmUpsClosed', Fading,
         UNCHANGED <<scenario, phase, task, permits, latencies, errors>>,
         \A r \in Own : r[2] > Warmup /\ {call[r], call'[r]} \cap {"unsent", "closed"} # {}
                          => call'[r] = call[r]
  PROVE  Inv'
<1>1. Tasks'
  BY OwnFacts DEF Inv, Tasks, Now, Fading
<1>2. Counts'
  <2>1. \A s, state : With(s, state)' = With(s, state)
    BY DEF With, Measured
  <2>2. \A s : Left(s)' \subseteq Left(s)
    BY OwnFacts DEF Inv, Tasks, Left, Measured, Fading
  <2>3. \A s \in DOMAIN Scenarios : Cardinality(Left(s)') <= Cardinality(Left(s))
    BY <2>2, Finiteness, FewerLeft
  <2>4. \A s \in DOMAIN Scenarios : Cardinality(Left(s)') \in Nat
    <3> TAKE s \in DOMAIN Scenarios
    <3>1. IsFiniteSet(Left(s)')
      BY <2>2, Finiteness, FS_Subset
    <3> QED  BY <3>1, FS_CardinalityType
  <2>5. ASSUME NEW s \in DOMAIN Scenarios
        PROVE  /\ latencies'[s] = Cardinality(With(s, "joined")')
               /\ Cardinality(Left(s)') <= errors'[s] /\ errors'[s] <= latencies'[s]
               /\ Now(s)' => Cardinality(With(s, "running")') + permits' = Concurrency
    <3>1. errors[s] \in Nat /\ Cardinality(Left(s)) \in Nat
      BY Finiteness DEF Inv, Types
    <3>2. Cardinality(Left(s)) <= errors[s]
      BY DEF Inv, Counts
    <3>3. Cardinality(Left(s)') <= errors'[s]
      BY <2>3, <2>4, <3>1, <3>2
    <3>4. latencies[s] = Cardinality(With(s, "joined")) /\ errors[s] <= latencies[s]
      BY DEF Inv, Counts
    <3>5. Now(s) => Cardinality(With(s, "running")) + permits = Concurrency
      BY DEF Inv, Counts
    <3>6. Now(s)' = Now(s)
      BY DEF Now
    <3> QED  BY <2>1, <3>3, <3>4, <3>5, <3>6
  <2> QED  BY <2>5 DEF Counts
<1> QED  BY <1>1, <1>2 DEF Inv

LEMMA ServerInv ==
  Inv /\ ServerSteps /\ UNCHANGED loadVars => Inv'
<1> SUFFICES ASSUME Inv, ServerSteps, UNCHANGED loadVars  PROVE Inv'
  OBVIOUS
<1>1. ApiInv' /\ Fading /\ Mild
  BY ServerStep DEF Inv
<1>2. Types'
  BY DEF Inv, Types, loadVars
<1>3. WarmUpsClosed'
  BY <1>1, OwnFacts DEF Inv, WarmUpsClosed, Fading, Mild, loadVars
<1> QED  BY <1>1, <1>2, <1>3, OwnFacts, Quiet DEF Mild, loadVars

LEMMA NetworkInv ==
  Inv /\ (Network \/ OtherClient) => Inv'
<1> SUFFICES ASSUME Inv, Network \/ OtherClient  PROVE Inv'
  OBVIOUS
<1>1. UNCHANGED loadVars
  BY DEF Network, OtherClient
<1>2. PICK r \in Requests : TimeOut(r) \/ Reset(r) \/ (r \in Others /\ (Send(r) \/ Close(r)))
  BY OwnFacts DEF Network, OtherClient
<1>3. ApiInv' /\ Fading
  BY <1>2, ClientStep DEF Inv
<1>4. \A q \in Own : {call[q], call'[q]} \cap {"unsent", "closed"} # {} => call'[q] = call[q]
  <2>1. CASE TimeOut(r) \/ Reset(r)
    BY <2>1, ClientStep, OwnFacts DEF Inv, Mild
  <2>2. CASE r \in Others /\ (Send(r) \/ Close(r))
    BY <2>2, ClientStep, OwnFacts DEF Inv
  <2> QED  BY <1>2, <2>1, <2>2
<1>5. Types'
  BY <1>1 DEF Inv, Types, loadVars
<1>6. WarmUpsClosed'
  BY <1>1, <1>3, <1>4, OwnFacts DEF Inv, WarmUpsClosed, Fading, loadVars
<1> QED  BY <1>1, <1>3, <1>4, <1>5, <1>6, Quiet DEF loadVars

LEMMA WarmUpInv ==
  Inv /\ (SendWarmUp \/ WarmUpReturns) => Inv'
<1> SUFFICES ASSUME Inv, SendWarmUp \/ WarmUpReturns  PROVE Inv'
  OBVIOUS
<1>1. PICK r \in Own : r = <<scenario, warm + 1>>
  <2>1. warm \in 0 .. Warmup /\ warm < Warmup /\ scenario \in DOMAIN Scenarios
    BY DEF SendWarmUp, WarmUpReturns, WarmingUp, Inv, Types
  <2>2. warm + 1 \in 1 .. Warmup + Count
    BY <2>1, CountsNatural
  <2> QED  BY <2>1, <2>2 DEF Own
<1>r. /\ r[1] = scenario /\ r[2] = warm + 1 /\ r[2] <= Warmup /\ r \in Requests
      /\ warm \in Nat /\ warm < Warmup /\ scenario \in DOMAIN Scenarios /\ phase = "warmup"
  BY <1>1, OwnFacts, CountsNatural
     DEF SendWarmUp, WarmUpReturns, WarmingUp, Inv, Types
<1>2. Send(r) \/ Close(r)
  BY <1>1 DEF SendWarmUp, WarmUpReturns
<1>3. ApiInv' /\ Fading
  BY <1>r, <1>2, ClientStep DEF Inv
<1>4. \A q \in Requests : q # r => call'[q] = call[q] /\ job'[q] = job[q]
  BY <1>r, <1>2, ClientStep DEF Inv
<1>5. \A q \in Own : q[1] = scenario /\ q[2] = warm + 1 => q = r
  BY <1>1, OwnFacts
<1>6. UNCHANGED <<scenario, phase, task, permits, latencies, errors>>
  BY DEF SendWarmUp, WarmUpReturns, loadVars
<1>7. Types' /\ WarmUpsClosed'
  <2>1. CASE SendWarmUp
    <3>1. Send(r) /\ UNCHANGED loadVars
      BY <1>1, <2>1 DEF SendWarmUp
    <3>2. call'[r] # "closed"
      BY <1>r, <3>1, ClientStep DEF Inv
    <3>3. WarmUpsClosed'
      BY <1>r, <1>3, <1>4, <3>1, <3>2, OwnFacts DEF Inv, WarmUpsClosed, Fading, loadVars
    <3> QED  BY <3>1, <3>3 DEF Inv, Types, loadVars
  <2>2. CASE WarmUpReturns
    <3>1. /\ Close(r) /\ warm' = warm + 1
          /\ warned' = IF Failed(r) THEN warned \cup {scenario} ELSE warned
      BY <1>1, <2>2 DEF WarmUpReturns
    <3>2. call[r] \in Returned /\ call'[r] = "closed" /\ job' = job
      BY <1>r, <3>1, ClientStep DEF Inv
    <3>3. call[r] = "ok" => ~Active(r)'
      BY <1>r, <3>2 DEF Inv, ApiInv, Agreement, Active
    <3>4. Active(r)' => r[1] \in warned'
      BY <1>r, <3>1, <3>3 DEF Failed
    <3>5. warned \subseteq warned' /\ warned' \subseteq DOMAIN Scenarios
      BY <1>r, <3>1 DEF Inv, Types
    <3>6. Types'
      BY <1>r, <1>6, <3>1, <3>5, CountsNatural DEF Inv, Types
    <3>7. ASSUME NEW q \in Own, q[2] <= Warmup
          PROVE  /\ q[1] < scenario' \/ (q[1] = scenario' /\ q[2] <= warm')
                      => call'[q] = "closed"
                 /\ call'[q] = "closed" /\ Active(q)' => q[1] \in warned'
      <4>1. CASE q = r
        BY <3>2, <3>4, <4>1
      <4>2. CASE q # r
        <5>1. call'[q] = call[q] /\ q[2] \in Nat
          BY <1>4, <4>2, OwnFacts, CountsNatural
        <5>2. q[1] = scenario /\ q[2] <= warm + 1 => q[2] <= warm
          BY <1>r, <1>5, <4>2, <5>1
        <5>3. q[1] < scenario \/ (q[1] = scenario /\ q[2] <= warm) => call[q] = "closed"
          BY <3>7 DEF Inv, WarmUpsClosed
        <5>4. call[q] = "closed" /\ Active(q) => q[1] \in warned
          BY <3>7 DEF Inv, WarmUpsClosed
        <5>5. call'[q] = "closed" /\ Active(q)' => call[q] = "closed" /\ Active(q)
          BY <1>3, <5>1, OwnFacts DEF Fading
        <5> QED  BY <1>6, <3>1, <3>5, <5>1, <5>2, <5>3, <5>4, <5>5
      <4> QED  BY <4>1, <4>2
    <3> QED  BY <3>6, <3>7 DEF WarmUpsClosed
  <2> QED  BY <2>1, <2>2
<1>8. \A q \in Own : q[2] > Warmup => q # r /\ call'[q] = call[q]
  BY <1>r, <1>4, OwnFacts, CountsNatural
<1> QED  BY <1>3, <1>6, <1>7, <1>8, Quiet

\* A request whose task goes on belongs to the scenario that is measured.
LEMMA OfThisScenario ==
  ASSUME Inv, NEW r \in Requests, task[r] \in {"waiting", "running"}
  PROVE  /\ r \in Measured(scenario) /\ r \in Own /\ r[2] > Warmup /\ r[1] = scenario
         /\ scenario \in DOMAIN Scenarios /\ phase = "load"
<1>1. r \in Own /\ r[2] > Warmup
  BY DEF Inv, Tasks
<1>2. r[1] \in Int /\ scenario \in Int
  BY <1>1, OwnFacts DEF Inv, Types
<1>3. Now(r[1])
  BY <1>1, <1>2 DEF Inv, Tasks
<1> QED  BY <1>1, <1>3, OwnFacts DEF Now, Measured

LEMMA SpawnInv ==
  Inv /\ Spawn => Inv'
<1> SUFFICES ASSUME Inv, Spawn  PROVE Inv'
  OBVIOUS
<1>1. /\ scenario \in DOMAIN Scenarios /\ phase = "warmup" /\ warm = Warmup
      /\ phase' = "load" /\ permits' = Concurrency
      /\ task' = [r \in Requests |-> IF r \in Measured(scenario) THEN "waiting" ELSE task[r]]
      /\ UNCHANGED <<server, call, job, pool, scenario, warm, warned, latencies, errors>>
  BY DEF Spawn, WarmingUp, apiVars
<1>2. ApiInv'
  BY <1>1 DEF Inv, ApiInv, ApiTypeOK, Agreement, Pooled
<1>3. Types'
  BY <1>1, CountsNatural DEF Inv, Types
<1>4. Tasks'
  BY <1>1, OwnFacts DEF Inv, Tasks, Now, Measured, Types
<1>5. WarmUpsClosed'
  BY <1>1 DEF Inv, WarmUpsClosed, Active
<1>6. \A r \in Measured(scenario) : task[r] = "none" /\ task'[r] = "waiting" /\ r \in Requests
  BY <1>1, OwnFacts DEF Inv, Tasks, Now, Measured, Types
<1>7. \A s : With(s, "joined")' = With(s, "joined") /\ Left(s)' = Left(s)
  <2>1. \A s : \A r \in Measured(s) : task'[r] = "joined" <=> task[r] = "joined"
    BY <1>1, <1>6, OwnFacts DEF Measured
  <2> QED  BY <1>1, <2>1 DEF With, Left, Active, Measured
<1>8. With(scenario, "running")' = {}
  BY <1>1, <1>6 DEF With, Measured
<1>9. Counts'
  <2>1. Cardinality(With(scenario, "running")') + permits' = Concurrency
    <3>1. Cardinality({}) = 0
      BY FS_EmptySet
    <3> QED  BY <1>1, <1>8, <3>1, CountsNatural
  <2>2. \A s : Now(s)' => s = scenario
    BY <1>1 DEF Now
  <2>3. ASSUME NEW s \in DOMAIN Scenarios
        PROVE  /\ latencies'[s] = Cardinality(With(s, "joined")')
               /\ Cardinality(Left(s)') <= errors'[s] /\ errors'[s] <= latencies'[s]
    BY <1>1, <1>7 DEF Inv, Counts
  <2>4. \A s : Now(s)' => Cardinality(With(s, "running")') + permits' = Concurrency
    <3> TAKE s
    <3>1. CASE s = scenario
      BY <1>1, <2>1, <3>1
    <3> QED  BY <2>2, <3>1
  <2> QED  BY <2>3, <2>4 DEF Counts
<1> QED  BY <1>2, <1>3, <1>4, <1>5, <1>9 DEF Inv

LEMMA ReportInv ==
  Inv /\ Report => Inv'
<1> SUFFICES ASSUME Inv, Report  PROVE Inv'
  OBVIOUS
<1>1. /\ scenario \in DOMAIN Scenarios /\ phase = "load"
      /\ \A r \in Measured(scenario) : task[r] = "joined"
      /\ scenario' = scenario + 1 /\ phase' = "warmup" /\ warm' = 0
      /\ UNCHANGED <<server, call, job, pool, warned, task, permits, latencies, errors>>
  BY DEF Report, apiVars
<1>2. ApiInv'
  BY <1>1 DEF Inv, ApiInv, ApiTypeOK, Agreement, Pooled
<1>3. Types'
  BY <1>1, CountsNatural, OwnFacts DEF Inv, Types
<1>4. Tasks'
  <2>1. ASSUME NEW r \in Requests, r \in Own, r[2] > Warmup
        PROVE  /\ r[1] < scenario + 1 => task[r] = "joined"
               /\ r[1] >= scenario + 1 => task[r] = "none"
    <3>1. r[1] \in Int /\ scenario \in Int
      BY <1>1, <2>1, OwnFacts
    <3>2. r[1] = scenario => task[r] = "joined"
      BY <1>1, <2>1 DEF Measured
    <3> QED  BY <1>1, <2>1, <3>1, <3>2 DEF Inv, Tasks, Now
  <2> QED  BY <1>1, <2>1 DEF Inv, Tasks, Now
<1>5. WarmUpsClosed'
  <2>1. warm = Warmup
    BY <1>1 DEF Inv, Types
  <2>2. ASSUME NEW r \in Own, r[2] <= Warmup,
               r[1] < scenario + 1 \/ (r[1] = scenario + 1 /\ r[2] <= 0)
        PROVE  call[r] = "closed"
    <3>1. r[1] \in Int /\ scenario \in Int /\ r[2] \in Int /\ r[2] >= 1
      BY <1>1, OwnFacts, CountsNatural
    <3>2. r[1] < scenario \/ (r[1] = scenario /\ r[2] <= warm)
      BY <2>1, <2>2, <3>1
    <3> QED  BY <2>2, <3>2 DEF Inv, WarmUpsClosed
  <2> QED  BY <1>1, <2>2 DEF Inv, WarmUpsClosed, Active
<1>6. Counts'
  <2>1. \A s, state : With(s, state)' = With(s, state) /\ Left(s)' = Left(s)
    BY <1>1 DEF With, Left, Active, Measured
  <2> QED  BY <1>1, <2>1 DEF Inv, Counts, Now
<1> QED  BY <1>2, <1>3, <1>4, <1>5, <1>6 DEF Inv

LEMMA AcquireInv ==
  ASSUME Inv, NEW r \in Requests, Acquire(r)
  PROVE  Inv'
<1>1. /\ task[r] = "waiting" /\ permits > 0 /\ Send(r)
      /\ task' = [task EXCEPT ![r] = "running"] /\ permits' = permits - 1
      /\ UNCHANGED <<scenario, phase, warm, warned, latencies, errors>>
  BY DEF Acquire
<1>2. /\ r \in Measured(scenario) /\ r \in Own /\ r[2] > Warmup /\ r[1] = scenario
      /\ scenario \in DOMAIN Scenarios /\ phase = "load"
  BY <1>1, OfThisScenario
<1>3. /\ ApiInv' /\ Fading /\ call[r] = "unsent" /\ call'[r] \in {"sent", "error"}
      /\ \A q \in Requests : q # r => call'[q] = call[q]
  BY <1>1, ClientStep DEF Inv
<1>4. \A q \in Requests : q # r => task'[q] = task[q]
  BY <1>1 DEF Inv, Types
<1>5. task'[r] = "running"
  BY <1>1 DEF Inv, Types
<1>6. Types'
  BY <1>1, <1>2, CountsNatural DEF Inv, Types
<1>7. Tasks'
  BY <1>1, <1>2, <1>3, <1>4, <1>5, OwnFacts DEF Inv, Tasks, Now
<1>8. WarmUpsClosed'
  BY <1>1, <1>2, <1>3, OwnFacts, CountsNatural DEF Inv, WarmUpsClosed, Fading
<1>9. \A s : With(s, "joined")' = With(s, "joined")
  BY <1>1, <1>4, <1>5, OwnFacts DEF With, Measured
<1>10. \A s : Left(s)' \subseteq Left(s)
  BY <1>3, <1>4, <1>5, OwnFacts DEF Inv, Tasks, Left, Measured, Fading
<1>11. With(scenario, "running")' = With(scenario, "running") \cup {r}
  BY <1>1, <1>2, <1>4, <1>5, OwnFacts DEF With, Measured
<1>12. Cardinality(With(scenario, "running")') + permits' = Concurrency
  <2>1. r \notin With(scenario, "running")
    BY <1>1 DEF With
  <2>2. Cardinality(With(scenario, "running")') = Cardinality(With(scenario, "running")) + 1
    BY <1>11, <2>1, Finiteness, FS_AddElement
  <2>3. Cardinality(With(scenario, "running")) + permits = Concurrency
    BY <1>2 DEF Inv, Counts, Now
  <2>4. Cardinality(With(scenario, "running")) \in Nat /\ permits \in Nat
    BY Finiteness, CountsNatural DEF Inv, Types
  <2> QED  BY <1>1, <2>2, <2>3, <2>4
<1>13. Counts'
  <2>1. ASSUME NEW s \in DOMAIN Scenarios
        PROVE  Cardinality(Left(s)') <= errors[s]
    <3>1. Cardinality(Left(s)') <= Cardinality(Left(s)) /\ Cardinality(Left(s)') \in Nat
      <4>1. IsFiniteSet(Left(s)')
        BY <1>10, Finiteness, FS_Subset
      <4> QED  BY <1>10, <4>1, Finiteness, FewerLeft, FS_CardinalityType
    <3>2. Cardinality(Left(s)) <= errors[s] /\ Cardinality(Left(s)) \in Nat /\ errors[s] \in Nat
      BY Finiteness DEF Inv, Counts, Types
    <3> QED  BY <3>1, <3>2
  <2>2. \A s : Now(s)' => s = scenario
    BY <1>1 DEF Now
  <2>3. \A s \in DOMAIN Scenarios :
          latencies[s] = Cardinality(With(s, "joined")) /\ errors[s] <= latencies[s]
    BY DEF Inv, Counts
  <2> QED  BY <1>1, <1>9, <1>12, <2>1, <2>2, <2>3 DEF Counts
<1> QED  BY <1>3, <1>6, <1>7, <1>8, <1>13 DEF Inv

LEMMA JoinInv ==
  ASSUME Inv, NEW r \in Requests, Join(r)
  PROVE  Inv'
<1>1. /\ task[r] = "running" /\ Close(r)
      /\ task' = [task EXCEPT ![r] = "joined"] /\ permits' = permits + 1
      /\ latencies' = [latencies EXCEPT ![scenario] = @ + 1]
      /\ errors' = [errors EXCEPT ![scenario] = IF Failed(r) THEN @ + 1 ELSE @]
      /\ UNCHANGED <<scenario, phase, warm, warned>>
  BY DEF Join, Released
<1>2. /\ r \in Measured(scenario) /\ r \in Own /\ r[2] > Warmup /\ r[1] = scenario
      /\ scenario \in DOMAIN Scenarios /\ phase = "load"
  BY <1>1, OfThisScenario
<1>3. /\ ApiInv' /\ Fading /\ call[r] \in Returned /\ call'[r] = "closed" /\ job' = job
      /\ \A q \in Requests : q # r => call'[q] = call[q]
  BY <1>1, ClientStep DEF Inv
<1>4. task'[r] = "joined" /\ \A q \in Requests : q # r => task'[q] = task[q]
  BY <1>1 DEF Inv, Types
<1>5. With(scenario, "running") = With(scenario, "running")' \cup {r}
      /\ r \notin With(scenario, "running")'
      /\ With(scenario, "joined")' = With(scenario, "joined") \cup {r}
      /\ r \notin With(scenario, "joined")
  BY <1>1, <1>2, <1>4, OwnFacts DEF With, Measured
<1>6. /\ Cardinality(With(scenario, "running")) = Cardinality(With(scenario, "running")') + 1
      /\ Cardinality(With(scenario, "running")') \in Nat
  <2>1. IsFiniteSet(With(scenario, "running")')
    <3>1. With(scenario, "running")' \subseteq With(scenario, "running")
      BY <1>5
    <3> QED  BY <3>1, Finiteness, FS_Subset
  <2> QED  BY <1>5, <2>1, FS_AddElement, FS_CardinalityType
<1>7. Cardinality(With(scenario, "joined")') = Cardinality(With(scenario, "joined")) + 1
  BY <1>5, Finiteness, FS_AddElement
<1>8. Cardinality(With(scenario, "running")) + permits = Concurrency
  BY <1>2 DEF Inv, Counts, Now
<1>9. permits \in Nat /\ Cardinality(With(scenario, "joined")) \in Nat
  BY Finiteness, CountsNatural DEF Inv, Types
<1>10. Types'
  <2>1. permits' \in 0 .. Concurrency
    BY <1>1, <1>6, <1>8, <1>9, CountsNatural
  <2>2. latencies' \in [DOMAIN Scenarios -> Nat] /\ errors' \in [DOMAIN Scenarios -> Nat]
    BY <1>1, <1>2 DEF Inv, Types
  <2> QED  BY <1>1, <2>1, <2>2 DEF Inv, Types
<1>11. Tasks'
  BY <1>1, <1>2, <1>3, <1>4, OwnFacts DEF Inv, Tasks, Now
<1>12. WarmUpsClosed'
  <2>1. \A q \in Own : q[2] <= Warmup => q # r
    BY <1>2, OwnFacts, CountsNatural
  <2> QED  BY <1>1, <1>3, <2>1, OwnFacts DEF Inv, WarmUpsClosed, Fading
<1>13. \A s : s # scenario => /\ With(s, "joined")' = With(s, "joined")
                              /\ Left(s)' \subseteq Left(s)
  <2>1. \A s : s # scenario => r \notin Measured(s)
    BY <1>2 DEF Measured
  <2>2. \A s : \A q \in Measured(s) : q \in Requests /\ (task[q] = "joined" => call[q] = "closed")
    BY OwnFacts DEF Inv, Tasks, Measured
  <2> QED  BY <1>3, <1>4, <2>1, <2>2 DEF With, Left, Measured, Fading
<1>14. /\ Left(scenario)' \subseteq Left(scenario) \cup {r}
       /\ ~Failed(r) => Left(scenario)' \subseteq Left(scenario)
  <2>1. call[r] = "ok" => ~Active(r)'
    BY <1>3 DEF Inv, ApiInv, Agreement, Active
  <2>2. \A q \in Measured(scenario) : q \in Requests /\ (task[q] = "joined" => call[q] = "closed")
    BY OwnFacts DEF Inv, Tasks, Measured
  <2>3. \A q \in Left(scenario)' : q # r => q \in Left(scenario)
    BY <1>1, <1>3, <1>4, <2>2 DEF Left, Measured, Fading
  <2> QED  BY <2>1, <2>3 DEF Failed, Left
<1>15. Cardinality(Left(scenario)') <= errors'[scenario] /\ errors'[scenario] <= latencies'[scenario]
       /\ latencies'[scenario] = Cardinality(With(scenario, "joined")')
  <2> DEFINE L == Left(scenario)
             new == Left(scenario)'
             n == Cardinality(L)
  <2>1. /\ IsFiniteSet(L) /\ n \in Nat /\ n <= errors[scenario]
        /\ errors[scenario] <= latencies[scenario]
        /\ latencies[scenario] = Cardinality(With(scenario, "joined"))
        /\ errors[scenario] \in Nat /\ latencies[scenario] \in Nat
    BY <1>2, Finiteness DEF Inv, Counts, Types
  <2>2. /\ latencies'[scenario] = latencies[scenario] + 1
        /\ errors'[scenario] = IF Failed(r) THEN errors[scenario] + 1 ELSE errors[scenario]
    BY <1>1, <1>2 DEF Inv, Types
  <2>3. new \subseteq L \cup {r} /\ (~Failed(r) => new \subseteq L)
    BY <1>14
  <2> HIDE DEF L, new
  <2>4. IsFiniteSet(L \cup {r}) /\ Cardinality(L \cup {r}) \in {n, n + 1}
    BY <2>1, FS_AddElement
  <2>5. IsFiniteSet(new) /\ Cardinality(new) \in Nat /\ Cardinality(new) <= n + 1
        /\ (~Failed(r) => Cardinality(new) <= n)
    <3>1. Cardinality(new) <= Cardinality(L \cup {r}) /\ IsFiniteSet(new)
      BY <2>3, <2>4, FS_Subset
    <3>2. ~Failed(r) => Cardinality(new) <= Cardinality(L)
      BY <2>1, <2>3, FS_Subset
    <3>3. Cardinality(new) \in Nat
      BY <3>1, FS_CardinalityType
    <3> QED  BY <2>1, <2>4, <3>1, <3>2, <3>3
  <2>6. Cardinality(new) <= errors'[scenario] /\ errors'[scenario] <= latencies'[scenario]
    <3> HIDE DEF n
    <3> QED  BY <2>1, <2>2, <2>5
  <2> QED  BY <1>7, <2>1, <2>2, <2>6 DEF new
<1>16. Counts'
  <2>1. ASSUME NEW s \in DOMAIN Scenarios, s # scenario
        PROVE  /\ latencies'[s] = Cardinality(With(s, "joined")')
               /\ Cardinality(Left(s)') <= errors'[s] /\ errors'[s] <= latencies'[s]
    <3>1. latencies'[s] = latencies[s] /\ errors'[s] = errors[s]
      BY <1>1, <2>1 DEF Inv, Types
    <3>2. Cardinality(Left(s)') <= Cardinality(Left(s)) /\ Cardinality(Left(s)') \in Nat
      <4>1. Left(s)' \subseteq Left(s)
        BY <1>13, <2>1
      <4>2. IsFiniteSet(Left(s)')
        BY <4>1, Finiteness, FS_Subset
      <4> QED  BY <4>1, <4>2, Finiteness, FewerLeft, FS_CardinalityType
    <3>3. /\ Cardinality(Left(s)) <= errors[s] /\ errors[s] <= latencies[s]
          /\ Cardinality(Left(s)) \in Nat /\ errors[s] \in Nat
          /\ latencies[s] = Cardinality(With(s, "joined"))
      BY Finiteness DEF Inv, Counts, Types
    <3>4. Cardinality(Left(s)') <= errors'[s]
      BY <3>1, <3>2, <3>3
    <3> QED  BY <1>13, <2>1, <3>1, <3>3, <3>4
  <2>2. Cardinality(With(scenario, "running")') + permits' = Concurrency
    BY <1>1, <1>6, <1>8, <1>9, CountsNatural
  <2>3. \A s : Now(s)' => Cardinality(With(s, "running")') + permits' = Concurrency
    <3> TAKE s
    <3>1. CASE s = scenario
      BY <1>1, <2>2, <3>1
    <3>2. Now(s)' => s = scenario
      BY <1>1 DEF Now
    <3> QED  BY <3>1, <3>2
  <2>4. ASSUME NEW s \in DOMAIN Scenarios
        PROVE  /\ latencies'[s] = Cardinality(With(s, "joined")')
               /\ Cardinality(Left(s)') <= errors'[s] /\ errors'[s] <= latencies'[s]
    <3>1. CASE s = scenario
      BY <1>1, <1>15, <3>1
    <3> QED  BY <2>1, <3>1
  <2> QED  BY <2>3, <2>4 DEF Counts
<1> QED  BY <1>3, <1>10, <1>11, <1>12, <1>16 DEF Inv

LEMMA NextInv ==
  Inv /\ [Next]_vars => Inv'
<1> SUFFICES ASSUME Inv, [Next]_vars  PROVE Inv'
  OBVIOUS
<1>1. CASE UNCHANGED vars
  <2>1. UNCHANGED <<server, call, job, pool, scenario, phase, warm, warned, task, permits,
                    latencies, errors>>
    BY <1>1 DEF vars, apiVars, loadVars
  <2>2. ApiInv' /\ Types' /\ WarmUpsClosed' /\ Fading
    BY <2>1 DEF Inv, ApiInv, ApiTypeOK, Agreement, Pooled, Types, WarmUpsClosed, Active, Fading
  <2> QED  BY <2>1, <2>2, Quiet
<1> QED  BY <1>1, ServerInv, NetworkInv, WarmUpInv, SpawnInv, ReportInv, AcquireInv, JoinInv
         DEF Next, ClientSteps

LEMMA InvHolds ==
  Spec => []Inv
<1> QED  BY InitInv, NextInv, PTL DEF Spec

-----------------------------------------------------------------------------
(* The theorems *)

\* Variables stay in their types: no scenario collects more latencies or errors
\* than it has requests, and no permit appears that --concurrency does not give.
THEOREM LoadTyping ==
  Spec => []TypeOK
<1>1. ASSUME Inv  PROVE TypeOK
  <2>1. \A s \in DOMAIN Scenarios : latencies[s] \in 0 .. Count /\ errors[s] \in 0 .. Count
    <3> TAKE s \in DOMAIN Scenarios
    <3>1. /\ latencies[s] = Cardinality(With(s, "joined")) /\ errors[s] <= latencies[s]
          /\ latencies[s] \in Nat /\ errors[s] \in Nat
      BY <1>1 DEF Inv, Counts, Types
    <3>2. Cardinality(With(s, "joined")) <= Count
      BY Finiteness, MeasuredCount
    <3> QED  BY <3>1, <3>2, CountsNatural
  <2>2. latencies \in [DOMAIN Scenarios -> 0 .. Count] /\ errors \in [DOMAIN Scenarios -> 0 .. Count]
    BY <1>1, <2>1 DEF Inv, Types
  <2> QED  BY <1>1, <2>2 DEF Inv, ApiInv, Types, TypeOK
<1> QED  BY <1>1, InvHolds, PTL

\* Every report is complete and tells what the scenario has left to the server
\* (load_test.rs:244, 274-283): requests that still occupy it are errors of the
\* report or warnings, and a measured scenario occupies it with no more requests
\* than --concurrency and its errors so far.
THEOREM ReportsComplete ==
  Spec => []ReportsTellTheRest
<1>1. ASSUME Inv, NEW s \in DOMAIN Scenarios
      PROVE  LET active == Cardinality({r \in Measured(s) : Active(r)}) IN
               /\ s < scenario => latencies[s] = Count /\ active <= errors[s]
               /\ active <= Concurrency + errors[s]
               /\ s < scenario \/ (s = scenario /\ phase = "load") =>
                    s \in warned \/ ~\E r \in WarmUps(s) : Active(r)
  <2> DEFINE A == {r \in Measured(s) : Active(r)}
  <2>1. /\ errors[s] \in Nat /\ Cardinality(Left(s)) <= errors[s]
        /\ latencies[s] = Cardinality(With(s, "joined"))
        /\ IsFiniteSet(Left(s)) /\ IsFiniteSet(With(s, "running"))
        /\ Cardinality(Left(s)) \in Nat /\ Cardinality(With(s, "running")) \in Nat
        /\ scenario \in Int /\ s \in Int
    BY <1>1, Finiteness, OwnFacts DEF Inv, Counts, Types
  <2>2. \A r \in Measured(s) : r \in Requests /\ r \in Own /\ r[2] > Warmup /\ r[1] = s
    BY OwnFacts DEF Measured
  <2>3. A \subseteq Left(s) \cup With(s, "running")
    <3> SUFFICES ASSUME NEW r \in Measured(s), Active(r)
                 PROVE  task[r] \in {"joined", "running"}
      BY DEF Left, With
    <3>1. call[r] # "unsent"
      BY <1>1, <2>2 DEF Active, Inv, ApiInv, Agreement
    <3>2. task[r] \in {"none", "waiting", "running", "joined"}
      BY <1>1, <2>2 DEF Inv, Types
    <3> QED  BY <1>1, <2>2, <3>1, <3>2 DEF Inv, Tasks
  <2>4. Cardinality(With(s, "running")) <= Concurrency
    <3>1. CASE Now(s)
      <4>1. Cardinality(With(s, "running")) + permits = Concurrency /\ permits \in Nat
        BY <1>1, <3>1, CountsNatural DEF Inv, Counts, Types
      <4> QED  BY <2>1, <4>1, CountsNatural
    <3>2. CASE ~Now(s)
      <4>1. With(s, "running") = {}
        BY <1>1, <2>1, <2>2, <3>2 DEF Inv, Tasks, With
      <4>2. Cardinality({}) = 0
        BY FS_EmptySet
      <4> QED  BY <4>1, <4>2, CountsNatural
    <3> QED  BY <3>1, <3>2
  <2> DEFINE U == Left(s) \cup With(s, "running")
             a == Cardinality(A)
  <2>5. IsFiniteSet(U) /\ Cardinality(U) <= Cardinality(Left(s)) + Cardinality(With(s, "running"))
        /\ Cardinality(U) \in Nat
    <3>1. IsFiniteSet(U) /\ IsFiniteSet(Left(s) \cap With(s, "running"))
          /\ Cardinality(U) = Cardinality(Left(s)) + Cardinality(With(s, "running"))
                              - Cardinality(Left(s) \cap With(s, "running"))
      BY <2>1, FS_Union, FS_Intersection
    <3>2. Cardinality(Left(s) \cap With(s, "running")) \in Nat /\ Cardinality(U) \in Nat
      BY <3>1, FS_CardinalityType
    <3> HIDE DEF U
    <3> QED  BY <2>1, <3>1, <3>2
  <2> HIDE DEF A, U
  <2>6. IsFiniteSet(A) /\ a \in Nat /\ a <= Cardinality(U)
    <3>1. A \in SUBSET U
      BY <2>3 DEF U
    <3> QED  BY <2>5, <3>1, FS_Subset, FS_CardinalityType
  <2> HIDE DEF a
  <2>7. a <= Concurrency + errors[s]
    BY <2>1, <2>4, <2>5, <2>6, CountsNatural
  <2>8. ASSUME s < scenario  PROVE latencies[s] = Count /\ a <= errors[s]
    <3>1. \A r \in Measured(s) : task[r] = "joined"
      BY <1>1, <2>2, <2>8 DEF Inv, Tasks
    <3>2. With(s, "joined") = Measured(s)
      BY <3>1 DEF With
    <3>3. A \in SUBSET Left(s)
      BY <3>1 DEF Left, A
    <3>4. a <= Cardinality(Left(s))
      BY <2>1, <3>3, FS_Subset DEF a
    <3> QED  BY <2>1, <2>6, <3>2, <3>4, MeasuredCount
  <2>9. ASSUME s < scenario \/ Now(s), NEW r \in WarmUps(s), Active(r)
        PROVE  s \in warned
    <3>1. r \in Own /\ r[1] = s /\ r[2] <= Warmup
      BY DEF WarmUps
    <3>2. Now(s) => warm = Warmup
      BY <1>1 DEF Inv, Types, Now
    <3> QED  BY <1>1, <2>9, <3>1, <3>2 DEF Inv, WarmUpsClosed, Now
  <2> QED  BY <2>7, <2>8, <2>9 DEF a, A, Now
<1>2. Inv => ReportsTellTheRest
  BY <1>1 DEF ReportsTellTheRest
<1> QED  BY <1>2, InvHolds, PTL

=============================================================================
