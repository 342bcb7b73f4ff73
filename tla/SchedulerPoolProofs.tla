-------------------------- MODULE SchedulerPoolProofs --------------------------
(***************************************************************************)
(* The scheduler thread implements WorkPool for every value of the constants, *)
(* and with at most two rounds of the slots no item is stranded, lost or      *)
(* overtaken.                                                                *)
(***************************************************************************)
EXTENDS SchedulerPool, SchedulerProofs

-----------------------------------------------------------------------------
(* carry_over when the load is bounded *)

LEMMA FewItems ==
  ASSUME NEW T, NEW seq \in Seq(T), NEW U, IsFiniteSet(U), ItemsIn(seq) \subseteq U,
         DistinctItems(seq)
  PROVE  Len(seq) <= Cardinality(U)
<1>1. Len(seq) \in Nat /\ \A j \in 1 .. Len(seq) : seq[j].item \in U
  BY LenProperties DEF ItemsIn
<1>2. Cardinality(U) \in Nat
  BY FS_CardinalityType
<1> DEFINE n == Len(seq)
<1>3. IsFiniteSet(1 .. n) /\ Cardinality(1 .. n) = n
  <2>1. n \in Nat
    BY <1>1
  <2> HIDE DEF n
  <2>2. /\ IsFiniteSet(1 .. n)
        /\ Cardinality(1 .. n) = IF 1 > n THEN 0 ELSE n - 1 + 1
    BY <2>1, FS_Interval
  <2> QED  BY <2>1, <2>2
<1> DEFINE f == [j \in 1 .. Len(seq) |-> seq[j].item]
<1>4. f \in [1 .. Len(seq) -> U]
  BY <1>1
<1>5. CASE Cardinality(U) < Len(seq)
  <2>1. \E j, k \in 1 .. Len(seq) : j # k /\ f[j] = f[k]
    <3> HIDE DEF f
    <3> QED  BY <1>3, <1>4, <1>5, FS_PigeonHole
  <2> QED  BY <2>1 DEF DistinctItems
<1> QED  BY <1>1, <1>2, <1>5

\* carry_over never holds more than one round of the slots, it is empty when the
\* thread waits, and what remains of it after a fill finds an active slot.
CarryInv ==
  /\ Len(carry) <= NSlots
  /\ pc = "accumulate" \/ (pc = "dispatch" /\ Active = {}) => carry = <<>>
  /\ pc \in {"collect", "build", "assign"} /\ after = "dispatch" /\ carry # <<>>
       => Active # {}

LEMMA NextCarry ==
  LightLoad /\ PoolInv /\ OneHolder /\ CarryInv /\ [Next]_vars => CarryInv'
<1> SUFFICES ASSUME LightLoad, TypeOK, BatchFits, OneHolder, CarryInv, [Next]_vars
             PROVE  CarryInv'
  BY DEF PoolInv
<1> USE DEF queueVars, collectVars, batchVars, slotVars
<1>0. NSlots \in Nat \ {0} /\ Len(carry) \in Nat
  BY SlotsPositive, LenProperties DEF TypeOK
<1>1. CASE EndThread
  <2>1. carry' = <<>> /\ Len(<<>>) = 0 /\ pc' = "stopped"
    BY <1>1, EmptySeq DEF EndThread
  <2> QED  BY <1>0, <2>1 DEF CarryInv
<1>2. CASE UNCHANGED <<carry, after, slots>> /\ pc' = pc
  BY <1>2 DEF CarryInv, Active
<1>3. ASSUME NEW next, StartFill(next)
      PROVE  CarryInv'
  <2> DEFINE n == Cardinality(EmptySlots)
  <2>1. n \in Nat /\ n = NSlots - Cardinality(Active) /\ Cardinality(Active) \in Nat
    BY CountSlots DEF TypeOK
  <2>2. FromCarry(n) \in 0 .. Len(carry) /\ (FromCarry(n) = n \/ FromCarry(n) = Len(carry))
    BY <1>0, <2>1 DEF FromCarry
  <2>3. carry' = SubSeq(carry, FromCarry(n) + 1, Len(carry))
    BY <1>3 DEF StartFill, CarryLeft
  <2> HIDE DEF n
  <2>4. Len(carry') = Len(carry) - FromCarry(n) /\ carry' \in Seq(PendingPrefill)
    BY <2>2, <2>3, TakeAndDrop DEF TypeOK
  <2>5. Len(carry') <= NSlots
    BY <1>0, <2>2, <2>4 DEF CarryInv
  <2>6. carry' # <<>> => Active # {}
    <3>1. ASSUME carry' # <<>>, Active = {} PROVE FALSE
      <4>1. Cardinality(Active) = 0
        BY <3>1, FS_EmptySet
      <4>2. n = NSlots
        BY <1>0, <2>1, <4>1
      <4>3. Len(carry') # 0
        BY <2>4, <3>1, EmptySeq
      <4> QED  BY <1>0, <2>2, <2>4, <4>2, <4>3 DEF CarryInv
    <3> QED  BY <3>1
  <2>7. Active' = Active /\ pc' = "collect"
    BY <1>3 DEF StartFill, Active
  <2> QED  BY <2>5, <2>6, <2>7 DEF CarryInv
<1>4. CASE AccumulateDone
  <2>1. pc' \in {"fill", "build"} /\ after' = "fill" /\ pc = "accumulate"
    BY <1>4 DEF AccumulateDone
  <2>2. Len(carry') <= NSlots
    <3>1. CASE Overflow
      <4>1. Len(pending) \in Nat /\ Len(pending) > NSlots
        BY <3>1, LenProperties DEF Overflow, TypeOK
      <4>2. /\ IsFiniteSet(submitted \ Answered)
            /\ Cardinality(submitted \ Answered) \in Nat
        BY ItemsFinite, FS_Subset, FS_CardinalityType DEF TypeOK
      <4>3. Len(pending) <= Cardinality(submitted \ Answered)
        <5>1. /\ pending \in Seq(PendingPrefill) /\ DistinctItems(pending)
              /\ ItemsIn(pending) \subseteq submitted \ Answered
          BY DEF TypeOK, OneHolder, HeldItems
        <5> QED  BY <4>2, <5>1, FewItems
      <4>4. Len(carry') = Len(pending) - NSlots
        <5>1. NSlots \in 0 .. Len(pending)
          BY <1>0, <4>1
        <5>2. carry' = SubSeq(pending, NSlots + 1, Len(pending))
          BY <1>4, <3>1 DEF AccumulateDone, Deferred
        <5> QED  BY <5>1, <5>2, TakeAndDrop DEF TypeOK
      <4> QED  BY <1>0, <4>1, <4>2, <4>3, <4>4 DEF LightLoad
    <3>2. CASE ~Overflow
      BY <1>4, <3>2 DEF AccumulateDone, CarryInv
    <3> QED  BY <3>1, <3>2
  <2> QED  BY <2>1, <2>2 DEF CarryInv
<1>5. CASE CreateContext \/ DecodeOk \/ DecodeFails
  <2>1. carry' = carry /\ pc' \in {"fill", "refill"}
    BY <1>5 DEF CreateContext, DecodeOk, DecodeFails
  <2> QED  BY <2>1 DEF CarryInv
<1>6. CASE CollectDone \/ PrefillOk \/ PrefillFails \/ AssignDone
  <2>1. /\ carry' = carry /\ after' = after /\ Active' = Active
        /\ pc \in {"collect", "build", "assign"}
        /\ pc' \in {after, "build", "assign"}
    BY <1>6 DEF CollectDone, PrefillOk, PrefillFails, AssignDone, Active
  <2> QED  BY <2>1 DEF CarryInv, TypeOK
<1>7. CASE AssignEntry
  <2>1. /\ carry' = carry /\ after' = after /\ pc' = pc /\ pc = "assign"
        /\ Active \subseteq Active'
    BY <1>7 DEF AssignEntry, DropEntry, Occupy, Active
  <2> QED  BY <2>1 DEF CarryInv
<1>8. CASE IdleReceive
  <2>1. carry' = carry /\ pc' = "accumulate" /\ pc = "dispatch" /\ Active = {}
    BY <1>8 DEF IdleReceive
  <2> QED  BY <2>1 DEF CarryInv
<1>9. CASE FillTop \/ Refill
  BY <1>3, <1>9 DEF FillTop, Refill
<1>10. CASE \/ Collect \/ Accumulate \/ Terminated \/ UNCHANGED vars \/ Callers
  BY <1>2, <1>10 DEF Collect, Accumulate, Terminated, vars, Callers, CloseChannel,
     Submit
<1>11. CASE BuildEntry
  BY <1>1, <1>2, <1>11 DEF BuildEntry
<1>12. CASE ContextFails \/ Panic \/ Shutdown
  BY <1>1, <1>12 DEF ContextFails, Panic, Shutdown
<1> QED
  BY <1>4, <1>5, <1>6, <1>7, <1>8, <1>9, <1>10, <1>11, <1>12 DEF Next, Thread

\* What the thread's books say while the load is bounded.
LoadInv == PoolInv /\ OneHolder /\ ReplyBound /\ (Overloaded \/ CarryInv)

LEMMA InitCarry == Init => CarryInv
BY EmptySeq, SlotsPositive DEF Init, CarryInv

LEMMA InitLoad == Init => LoadInv
BY InitCarry, InitTypes, InitPools, InitItems DEF LoadInv, PoolInv

LEMMA NextLoad == LoadInv /\ [Next]_vars => LoadInv'
<1> SUFFICES ASSUME LoadInv, [Next]_vars PROVE LoadInv'
  OBVIOUS
<1>1. (PoolInv /\ OneHolder /\ ReplyBound)'
  BY NextTypes, NextPools, NextFits, NextItems DEF LoadInv, PoolInv
<1>2. CASE ~Overloaded
  <2>1. submitted \ Answered \subseteq Items
    BY DEF LoadInv, PoolInv, TypeOK
  <2>2. /\ Cardinality(submitted \ Answered) <= Cardinality(Items)
        /\ Cardinality(submitted \ Answered) \in Nat /\ Cardinality(Items) \in Nat
    BY <2>1, ItemsFinite, FS_Subset, FS_CardinalityType
  <2>3. LightLoad
    BY <1>2, <2>2, SlotsPositive DEF LightLoad, Overloaded
  <2> QED  BY <1>1, <1>2, <2>3, NextCarry DEF LoadInv
<1> QED  BY <1>1, <1>2 DEF LoadInv, Overloaded

-----------------------------------------------------------------------------
(* Every step of the thread is a step of WorkPool, or none of it *)

\* A step of WorkPool or none of it, and no item disappears.
KeepingStep ==
  \/ UNCHANGED Pool!vars
  \/ Pool!Take \/ Pool!Refuse \/ Pool!Halt \/ Pool!Close
  \/ Pool!Finish /\ HeldItems = {}
  \/ \E S \in SUBSET HeldItems : Pool!Answer(S)
  \/ \E i \in Items : Pool!Submit(i)

\* A step that drops what carry_over still held.
LossyStep ==
  /\ Overloaded /\ ~CarryInv
  /\ Pool!Finish \/ \E S \in SUBSET HeldItems : Pool!Lose(S)

PoolMoves == UNCHANGED <<queue, open, submitted>> /\ pc # "stopped" /\ pc' # "stopped"

\* No item changes hands.
LEMMA StepSame ==
  ASSUME UNCHANGED <<queue, open, submitted, replies>>, HeldItems' = HeldItems,
         (pc # "stopped")' = (pc # "stopped")
  PROVE  UNCHANGED Pool!vars
BY DEF Pool!vars

\* The items of S get one result each.
LEMMA StepAnswer ==
  ASSUME PoolMoves, NEW S, S \subseteq HeldItems, HeldItems' = HeldItems \ S,
         NEW r \in [S -> Results],
         replies' = [i \in Items |-> IF i \in S THEN Append(replies[i], r[i])
                                                ELSE replies[i]],
         replies \in [Items -> Seq(Results)]
  PROVE  KeepingStep
<1>1. CASE S = {}
  <2>1. replies' = replies /\ HeldItems' = HeldItems
    BY <1>1
  <2> QED  BY <2>1, StepSame DEF PoolMoves, KeepingStep
<1>2. CASE S # {}
  <2>1. Pool!Answer(S)
    BY <1>2 DEF PoolMoves, Pool!Answer
  <2> QED  BY <2>1 DEF KeepingStep
<1> QED  BY <1>1, <1>2

LEMMA StepGone ==
  ASSUME EndThread, pc # "stopped"
  PROVE  Pool!Gone
<1>1. /\ Len(pending') = 0 /\ Len(carry') = 0 /\ Len(entries') = 0 /\ Active' = {}
      /\ queue' = <<>> /\ pc' = "stopped" /\ UNCHANGED <<open, submitted, replies>>
  BY EmptySeq DEF EndThread, Active
<1>2. HeldItems' = {}
  BY <1>1 DEF HeldItems, ItemsIn, ItemsOf
<1> QED  BY <1>1, <1>2 DEF Pool!Gone

LEMMA StepTokenize ==
  ASSUME LoadInv, Tokenize, UNCHANGED <<carry, entries, slots, open, submitted>>,
         pc # "stopped", pc' # "stopped"
  PROVE  KeepingStep
<1> DEFINE h == Head(queue)
<1>1. ItemsIn(carry)' = ItemsIn(carry) /\ ItemsIn(entries)' = ItemsIn(entries)
      /\ ItemsOf(Active)' = ItemsOf(Active)
  BY DEF ItemsIn, ItemsOf, Active
<1>2. CASE \E r \in Results : Reply(h, r) /\ UNCHANGED pending
  <2>1. HeldItems' = HeldItems
    BY <1>1, <1>2 DEF HeldItems
  <2>2. Pool!Refuse
    BY <1>2, <2>1 DEF Pool!Refuse, Tokenize, Reply
  <2> QED  BY <2>2 DEF KeepingStep
<1>3. CASE \E n \in PromptLens :
             /\ ~TooLong(n)
             /\ pending' = Append(pending, [item |-> h, len |-> n])
             /\ UNCHANGED replies
  <2>1. PICK n \in PromptLens :
          ~TooLong(n) /\ pending' = Append(pending, [item |-> h, len |-> n])
    BY <1>3
  <2>2. [item |-> h, len |-> n] \in PendingPrefill
    <3>1. n \in 1 .. MaxPrompt
      BY <2>1, PromptsNonempty, MaxPromptType DEF TooLong
    <3>2. h \in Items
      BY HeadTailProperties DEF Tokenize, LoadInv, PoolInv, TypeOK
    <3> QED  BY <3>1, <3>2 DEF PendingPrefill
  <2>3. ItemsIn(pending)' = ItemsIn(pending) \cup {h}
    BY <2>1, <2>2, AppendItems DEF LoadInv, PoolInv, TypeOK
  <2>4. HeldItems' = HeldItems \cup {h}
    BY <1>1, <2>3 DEF HeldItems
  <2>5. Pool!Take
    BY <1>3, <2>4 DEF Pool!Take, Tokenize
  <2> QED  BY <2>5 DEF KeepingStep
<1> QED  BY <1>2, <1>3 DEF Tokenize, Results

LEMMA StepCollect ==
  ASSUME LoadInv, FillTop \/ Refill \/ AccumulateDone
  PROVE  KeepingStep \/ LossyStep
<1> USE DEF queueVars, collectVars, batchVars, slotVars, LoadInv, PoolInv
<1>1. /\ UNCHANGED <<queue, open, submitted, entries, slots, replies>>
      /\ pc # "stopped" /\ pc' # "stopped"
  BY DEF FillTop, Refill, AccumulateDone, StartFill
<1>2. ItemsIn(entries)' = ItemsIn(entries) /\ ItemsOf(Active)' = ItemsOf(Active)
  BY <1>1 DEF ItemsIn, ItemsOf, Active
<1>3. Len(carry) \in Nat /\ Len(pending) \in Nat
  BY LenProperties DEF TypeOK
<1>4. ASSUME NEW next, StartFill(next), pc \in {"fill", "refill"}
      PROVE  KeepingStep
  <2> DEFINE n == Cardinality(EmptySlots)
             k == FromCarry(n)
  <2>1. n \in Nat
    BY CountSlots DEF TypeOK
  <2>2. k \in 0 .. Len(carry)
    BY <1>3, <2>1 DEF FromCarry
  <2>3. pending' = SubSeq(carry, 1, k) /\ carry' = SubSeq(carry, k + 1, Len(carry))
    BY <1>4 DEF StartFill, CarryLeft
  <2> HIDE DEF n, k
  <2>4. ItemsIn(pending') \cup ItemsIn(carry') = ItemsIn(carry)
    BY <2>2, <2>3, SplitItems DEF TypeOK, OneHolder
  <2>5. ItemsIn(pending) = {}
    <3>1. Len(pending) = 0
      BY <1>4, EmptySeq DEF BatchFits
    <3> QED  BY <3>1 DEF ItemsIn
  <2>6. HeldItems' = HeldItems
    BY <1>2, <2>4, <2>5 DEF HeldItems
  <2> QED  BY <1>1, <2>6, StepSame DEF KeepingStep
<1>5. CASE AccumulateDone /\ ~Overflow
  <2>1. UNCHANGED <<pending, carry>>
    BY <1>5 DEF AccumulateDone
  <2>2. HeldItems' = HeldItems
    BY <1>2, <2>1 DEF HeldItems, ItemsIn
  <2> QED  BY <1>1, <2>2, StepSame DEF KeepingStep
<1>6. CASE AccumulateDone /\ Overflow
  <2>1. NSlots \in 0 .. Len(pending)
    BY <1>3, <1>6, SlotsPositive DEF Overflow
  <2>2. /\ pending' = SubSeq(pending, 1, NSlots)
        /\ carry' = SubSeq(pending, NSlots + 1, Len(pending))
    BY <1>6 DEF AccumulateDone, Deferred
  <2>3. ItemsIn(pending') \cup ItemsIn(carry') = ItemsIn(pending)
    BY <2>1, <2>2, SplitItems DEF TypeOK, OneHolder
  <2>4. HeldItems' = HeldItems \ ItemsIn(carry)
    BY <1>2, <2>3 DEF HeldItems, OneHolder
  <2>5. CASE ItemsIn(carry) = {}
    <3>1. HeldItems' = HeldItems
      BY <2>4, <2>5
    <3> QED  BY <1>1, <3>1, StepSame DEF KeepingStep
  <2>6. CASE ItemsIn(carry) # {}
    <3>1. carry # <<>>
      <4>1. carry = <<>> => Len(carry) = 0
        BY EmptySeq
      <4> QED  BY <2>6, <4>1 DEF ItemsIn
    <3>2. Overloaded /\ ~CarryInv
      BY <1>6, <3>1 DEF CarryInv, AccumulateDone
    <3>3. ItemsIn(carry) \subseteq HeldItems
      BY DEF HeldItems
    <3>4. Pool!Lose(ItemsIn(carry))
      BY <1>1, <2>4, <2>6, <3>2, <3>3 DEF Pool!Lose
    <3> QED  BY <3>2, <3>3, <3>4 DEF LossyStep
  <2> QED  BY <2>5, <2>6
<1> QED  BY <1>4, <1>5, <1>6 DEF FillTop, Refill

\* One item gets one result.
LEMMA StepReply ==
  ASSUME PoolMoves, TypeOK, NEW i \in HeldItems, NEW x \in Results, Reply(i, x),
         HeldItems' = HeldItems \ {i}
  PROVE  KeepingStep
<1> DEFINE r == [j \in {i} |-> x]
<1>1. replies' = [j \in Items |-> IF j \in {i} THEN Append(replies[j], r[j])
                                               ELSE replies[j]]
  BY DEF Reply, TypeOK
<1>2. r \in [{i} -> Results] /\ {i} \subseteq HeldItems
  OBVIOUS
<1> HIDE DEF r
<1> QED  BY <1>1, <1>2, StepAnswer DEF TypeOK

LEMMA StepBuild ==
  ASSUME LoadInv, BuildEntry
  PROVE  KeepingStep
<1> USE DEF queueVars, collectVars, batchVars, slotVars, LoadInv, PoolInv
<1> DEFINE p == Head(pending)
<1>1. pending \in Seq(PendingPrefill) /\ pending # <<>> /\ DistinctItems(pending)
  BY DEF TypeOK, OneHolder, BuildEntry
<1>2. /\ p.item \in ItemsIn(pending) /\ p \in PendingPrefill
      /\ ItemsIn(Tail(pending)) = ItemsIn(pending) \ {p.item}
  BY <1>1, TailItems, HeadTailProperties
<1>3. free # {} /\ batchTokens + p.len <= NCtx
  BY PoolInvSuffices DEF BuildEntry, ResourcesSuffice
<1>4. ~(batchTokens + p.len > NCtx)
  <2>1. batchTokens \in Nat /\ p.len \in Nat /\ NCtx \in Nat
    BY <1>2, MaxPromptType, SlotsPositive, BudgetsNatural
       DEF TypeOK, PendingPrefill, NCtx
  <2> QED  BY <1>3, <2>1
<1>5. PICK q \in free : entries' = Append(entries,
                              [item |-> p.item, len |-> p.len, seq |-> q])
  BY <1>3, <1>4 DEF BuildEntry
<1>6. /\ pending' = Tail(pending) /\ pc = "build"
      /\ UNCHANGED <<pc, queue, open, submitted, carry, slots, replies>>
  BY <1>3, <1>4 DEF BuildEntry
<1>7. ItemsIn(entries)' = ItemsIn(entries) \cup {p.item}
  <2>1. [item |-> p.item, len |-> p.len, seq |-> q] \in PrefillEntry
    BY <1>2 DEF PendingPrefill, PrefillEntry, TypeOK
  <2> QED  BY <1>5, <2>1, AppendItems DEF TypeOK
<1>8. ItemsIn(pending)' = ItemsIn(pending) \ {p.item}
  BY <1>2, <1>6
<1>9. ItemsIn(carry)' = ItemsIn(carry) /\ ItemsOf(Active)' = ItemsOf(Active)
  BY <1>6 DEF ItemsIn, ItemsOf, Active
<1>10. HeldItems' = HeldItems
  BY <1>2, <1>7, <1>8, <1>9 DEF HeldItems
<1> QED  BY <1>6, <1>10, StepSame DEF KeepingStep

LEMMA StepPrefillFails ==
  ASSUME LoadInv, PrefillFails
  PROVE  KeepingStep
<1> USE DEF queueVars, collectVars, batchVars, slotVars, LoadInv, PoolInv
<1> DEFINE S == ItemsIn(entries)
           r == [i \in S |-> "model"]
<1>1. UNCHANGED <<queue, open, submitted, pending, carry, slots>> /\ Len(entries') = 0
  BY EmptySeq DEF PrefillFails
<1>2. /\ ItemsIn(pending)' = ItemsIn(pending) /\ ItemsIn(carry)' = ItemsIn(carry)
      /\ ItemsIn(entries)' = {} /\ ItemsOf(Active)' = ItemsOf(Active)
  BY <1>1 DEF ItemsIn, ItemsOf, Active
<1>3. HeldItems' = HeldItems \ S /\ S \subseteq HeldItems
  BY <1>2 DEF HeldItems, OneHolder
<1>4. replies' = [i \in Items |-> IF i \in S THEN Append(replies[i], r[i])
                                             ELSE replies[i]]
  BY DEF PrefillFails, ItemsIn
<1>5. r \in [S -> Results]
  BY DEF Results
<1>6. PoolMoves
  BY <1>1 DEF PoolMoves, PrefillFails, TypeOK
<1> HIDE DEF r, S
<1> QED  BY <1>3, <1>4, <1>5, <1>6, StepAnswer DEF TypeOK

LEMMA StepAssign ==
  ASSUME LoadInv, AssignEntry
  PROVE  KeepingStep
<1> USE DEF queueVars, collectVars, batchVars, slotVars, LoadInv, PoolInv
<1> DEFINE e == Head(entries)
<1>1. entries \in Seq(PrefillEntry) /\ entries # <<>> /\ DistinctItems(entries)
  BY DEF TypeOK, OneHolder, AssignEntry
<1>2. /\ e.item \in ItemsIn(entries)
      /\ ItemsIn(Tail(entries)) = ItemsIn(entries) \ {e.item}
  BY <1>1, TailItems
<1>3. /\ UNCHANGED <<queue, open, submitted, pending, carry>>
      /\ entries' = Tail(entries) /\ pc = "assign" /\ pc' = pc
  BY DEF AssignEntry
<1>4. /\ ItemsIn(pending)' = ItemsIn(pending) /\ ItemsIn(carry)' = ItemsIn(carry)
      /\ ItemsIn(entries)' = ItemsIn(entries) \ {e.item}
  BY <1>2, <1>3
<1>5. ASSUME NEW x \in Results, DropEntry(e, x)
      PROVE  KeepingStep
  <2>1. ItemsOf(Active)' = ItemsOf(Active)
    BY <1>5 DEF DropEntry, ItemsOf, Active
  <2>2. HeldItems' = HeldItems \ {e.item} /\ e.item \in HeldItems
    BY <1>2, <1>4, <2>1 DEF HeldItems, OneHolder
  <2>3. PoolMoves /\ Reply(e.item, x)
    BY <1>3, <1>5 DEF PoolMoves, DropEntry
  <2> QED  BY <2>2, <2>3, StepReply
<1>6. ASSUME NEW s \in EmptySlots, UNCHANGED replies,
             slots' = Occupy(s, [item |-> e.item, seq |-> e.seq,
                                 pos |-> e.len, out |-> 1])
      PROVE  KeepingStep
  <2>1. /\ Active' = Active \cup {s} /\ slots'[s].item = e.item
        /\ \A t \in Active : slots'[t] = slots[t]
    BY <1>6 DEF Occupy, Active, EmptySlots
  <2>2. ItemsOf(Active)' = ItemsOf(Active) \cup {e.item}
    BY <2>1 DEF ItemsOf
  <2>3. HeldItems' = HeldItems
    BY <1>2, <1>4, <2>2 DEF HeldItems
  <2> QED  BY <1>3, <1>6, <2>3, StepSame DEF KeepingStep
<1> QED  BY <1>5, <1>6 DEF AssignEntry, Results

LEMMA StepDecode ==
  ASSUME LoadInv, DecodeOk \/ DecodeFails
  PROVE  KeepingStep
<1> USE DEF queueVars, collectVars, batchVars, slotVars, LoadInv, PoolInv
<1>1. /\ UNCHANGED <<queue, open, submitted, pending, carry, entries>> /\ PoolMoves
  BY DEF DecodeOk, DecodeFails, PoolMoves
<1>2. /\ ItemsIn(pending)' = ItemsIn(pending) /\ ItemsIn(carry)' = ItemsIn(carry)
      /\ ItemsIn(entries)' = ItemsIn(entries)
  BY <1>1
<1>3. ASSUME NEW done \in SUBSET Active, NEW bad \in SUBSET Active,
             Active' = Active \ done,
             \A s \in Active \ done : slots'[s].item = slots[s].item,
             replies' = [i \in Items |-> IF i \in ItemsOf(done)
                           THEN Append(replies[i], IF i \in ItemsOf(bad) THEN "model"
                                                                        ELSE "ok")
                           ELSE replies[i]]
      PROVE  KeepingStep
  <2> DEFINE S == ItemsOf(done)
             r == [i \in S |-> IF i \in ItemsOf(bad) THEN "model" ELSE "ok"]
  <2>1. ItemsOf(Active)' = {slots[s].item : s \in Active \ done}
    BY <1>3 DEF ItemsOf
  <2>2. \A s \in Active \ done : slots[s].item \notin ItemsOf(done)
    BY DEF ItemsOf, OneHolder
  <2>3. ItemsOf(Active)' = ItemsOf(Active) \ S /\ S \subseteq ItemsOf(Active)
    BY <2>1, <2>2 DEF ItemsOf
  <2>4. HeldItems' = HeldItems \ S /\ S \subseteq HeldItems
    BY <1>2, <2>3 DEF HeldItems, OneHolder
  <2>5. r \in [S -> Results]
    BY DEF Results
  <2>6. replies' = [i \in Items |-> IF i \in S THEN Append(replies[i], r[i])
                                               ELSE replies[i]]
    BY <1>3
  <2> HIDE DEF r, S
  <2> QED  BY <1>1, <2>4, <2>5, <2>6, StepAnswer DEF TypeOK
<1>4. CASE DecodeOk
  <2>1. PICK done \in SUBSET Active : \E bad \in SUBSET done :
          /\ slots' = [s \in Active \ done |->
                         [slots[s] EXCEPT !.pos = @ + 1, !.out = @ + 1]]
          /\ replies' = [i \in Items |->
                IF i \in ItemsOf(bad) THEN Append(replies[i], "model")
                ELSE IF i \in ItemsOf(done) THEN Append(replies[i], "ok")
                ELSE replies[i]]
    BY <1>4 DEF DecodeOk
  <2>2. PICK bad \in SUBSET done :
          replies' = [i \in Items |->
                IF i \in ItemsOf(bad) THEN Append(replies[i], "model")
                ELSE IF i \in ItemsOf(done) THEN Append(replies[i], "ok")
                ELSE replies[i]]
    BY <2>1
  <2>3. ItemsOf(bad) \subseteq ItemsOf(done)
    BY DEF ItemsOf
  <2>4. replies' = [i \in Items |-> IF i \in ItemsOf(done)
                      THEN Append(replies[i], IF i \in ItemsOf(bad) THEN "model" ELSE "ok")
                      ELSE replies[i]]
    BY <2>2, <2>3
  <2>5. Active' = Active \ done
    BY <2>1 DEF Active
  <2>6. \A s \in Active \ done : slots'[s].item = slots[s].item
    BY <2>1 DEF TypeOK, Slot
  <2> QED  BY <1>3, <2>4, <2>5, <2>6
<1>5. CASE DecodeFails
  <2>1. Active' = Active \ Active
    BY <1>5 DEF DecodeFails, Active
  <2>2. replies' = [i \in Items |-> IF i \in ItemsOf(Active)
                      THEN Append(replies[i],
                                  IF i \in ItemsOf(Active) THEN "model" ELSE "ok")
                      ELSE replies[i]]
    BY <1>5 DEF DecodeFails
  <2> QED  BY <1>3, <2>1, <2>2
<1> QED  BY <1>4, <1>5

\* The thread ends early only with a fault; it ends by itself with nothing to do.
LEMMA StepEnd ==
  ASSUME LoadInv, ContextFails \/ Panic \/ Shutdown
  PROVE  KeepingStep \/ LossyStep
<1> USE DEF LoadInv, PoolInv
<1>1. Pool!Gone
  BY StepGone DEF ContextFails, Panic, Shutdown
<1>2. CASE ContextFails \/ Panic
  BY <1>1, <1>2 DEF ContextFails, Panic, KeepingStep, Pool!Halt
<1>3. CASE Shutdown
  <2>1. /\ pc = "dispatch" /\ Active = {} /\ pending = <<>> /\ entries = <<>>
        /\ Len(<<>>) = 0
    BY <1>3, EmptySeq DEF Shutdown, BatchFits
  <2>2. /\ ItemsIn(pending) = {} /\ ItemsIn(entries) = {} /\ ItemsOf(Active) = {}
        /\ ItemsIn(<<>>) = {}
    BY <2>1 DEF ItemsIn, ItemsOf
  <2>3. HeldItems = {} \/ (Overloaded /\ ~CarryInv)
    BY <2>1, <2>2 DEF CarryInv, HeldItems
  <2>4. Pool!Finish
    BY <1>1, <1>3, <2>3 DEF Pool!Finish, Shutdown
  <2> QED  BY <2>3, <2>4 DEF KeepingStep, LossyStep
<1> QED  BY <1>2, <1>3

LEMMA NextPool ==
  ASSUME LoadInv, [Next]_vars
  PROVE  KeepingStep \/ LossyStep
<1> USE DEF queueVars, collectVars, batchVars, slotVars
<1>1. CASE UNCHANGED <<queue, open, submitted, pending, carry, entries, slots, replies>>
           /\ (pc # "stopped")' = (pc # "stopped")
  <2>1. UNCHANGED <<ItemsIn(pending), ItemsIn(carry), ItemsIn(entries), ItemsOf(Active)>>
    BY <1>1 DEF ItemsIn, ItemsOf, Active
  <2>2. HeldItems' = HeldItems
    BY <2>1 DEF HeldItems
  <2> QED  BY <1>1, <2>2, StepSame DEF KeepingStep
<1>2. CASE Collect \/ IdleReceive \/ Accumulate
  BY <1>2, StepTokenize DEF Collect, IdleReceive, Accumulate
<1>3. CASE FillTop \/ Refill \/ AccumulateDone
  BY <1>3, StepCollect
<1>4. CASE BuildEntry
  BY <1>4, StepBuild
<1>5. CASE PrefillFails
  BY <1>5, StepPrefillFails
<1>6. CASE AssignEntry
  BY <1>6, StepAssign
<1>7. CASE DecodeOk \/ DecodeFails
  BY <1>7, StepDecode
<1>8. CASE ContextFails \/ Panic \/ Shutdown
  BY <1>8, StepEnd
<1>9. CASE Callers
  <2>1. UNCHANGED <<pending, carry, entries, slots, replies, pc>>
    BY <1>9 DEF Callers, CloseChannel, Submit
  <2>2. UNCHANGED <<ItemsIn(pending), ItemsIn(carry), ItemsIn(entries), ItemsOf(Active)>>
    BY <2>1 DEF ItemsIn, ItemsOf, Active
  <2>3. HeldItems' = HeldItems
    BY <2>2 DEF HeldItems
  <2>4. CASE CloseChannel
    <3>1. Pool!Close
      BY <2>1, <2>3, <2>4 DEF CloseChannel, Pool!Close
    <3> QED  BY <3>1 DEF KeepingStep
  <2>5. ASSUME NEW i \in Items, Submit(i) PROVE KeepingStep
    <3>1. Pool!Submit(i)
      BY <2>1, <2>3, <2>5 DEF Submit, Pool!Submit, Pool!Room
    <3> QED  BY <3>1 DEF KeepingStep
  <2> QED  BY <1>9, <2>4, <2>5 DEF Callers
<1>10. CASE CreateContext \/ CollectDone \/ PrefillOk \/ AssignDone \/ Terminated
            \/ UNCHANGED vars
  <2>1. UNCHANGED <<queue, open, submitted, carry, entries, slots, replies, pending>>
    BY <1>10 DEF CreateContext, CollectDone, PrefillOk, AssignDone, Terminated, vars
  <2>2. (pc # "stopped")' = (pc # "stopped")
    BY <1>10 DEF CreateContext, CollectDone, PrefillOk, AssignDone, Terminated, vars,
       LoadInv, PoolInv, TypeOK
  <2> QED  BY <1>1, <2>1, <2>2
<1> QED
  BY <1>2, <1>3, <1>4, <1>5, <1>6, <1>7, <1>8, <1>9, <1>10 DEF Next, Thread

LEMMA InitPool == Init => Pool!Init
<1> SUFFICES ASSUME Init PROVE Pool!Init
  OBVIOUS
<1>1. Len(pending) = 0 /\ Len(carry) = 0 /\ Len(entries) = 0 /\ Active = {}
  BY EmptySeq DEF Init, Active
<1>2. HeldItems = {}
  BY <1>1 DEF HeldItems, ItemsIn, ItemsOf
<1> QED  BY <1>2 DEF Init, Pool!Init

\* The scheduler thread implements WorkPool, whatever the number of items and
\* slots, the budgets and the faults: it loses items only when overloaded.
THEOREM Refinement == Spec => PoolSpec
<1>1. Init => LoadInv
  BY InitLoad
<1>2. LoadInv /\ [Next]_vars => LoadInv'
  BY NextLoad
<1>3. LoadInv /\ [Next]_vars => [Pool!Next]_(Pool!vars)
  BY NextPool DEF KeepingStep, LossyStep, Pool!Next, Pool!Thread
<1>4. Init => Pool!Init
  BY InitPool
<1> QED  BY <1>1, <1>2, <1>3, <1>4, PTL DEF Spec, PoolSpec, Pool!Spec

-----------------------------------------------------------------------------
(* What follows for the items *)

\* Appending one result makes an item answered, and nothing else does.
LEMMA AnsweredBy ==
  ASSUME TypeOK, NEW S, S \subseteq Items, NEW r \in [S -> Results],
         replies' = [i \in Items |-> IF i \in S THEN Append(replies[i], r[i])
                                                ELSE replies[i]]
  PROVE  Answered' = Answered \cup S
<1>1. ASSUME NEW i \in S PROVE replies'[i] # <<>>
  <2>1. replies[i] \in Seq(Results) /\ r[i] \in Results
    BY DEF TypeOK
  <2>2. Len(Append(replies[i], r[i])) = Len(replies[i]) + 1 /\ Len(replies[i]) \in Nat
    BY <2>1, AppendProperties, LenProperties
  <2>3. Len(replies'[i]) # 0
    BY <2>2
  <2> QED  BY <2>3, EmptySeq
<1>2. Answered' = {i \in Items : replies'[i] # <<>>}
  BY DEF Answered
<1> QED  BY <1>1, <1>2 DEF Answered

LEMMA NextAccounted ==
  ASSUME LoadInv, NoSilentDrop, KeepingStep
  PROVE  NoSilentDrop'
<1> USE DEF LoadInv, PoolInv
<1>1. CASE UNCHANGED Pool!vars \/ Pool!Close
  <2>1. UNCHANGED <<queue, submitted, replies>> /\ HeldItems' = HeldItems
        /\ (pc' # "stopped" => pc # "stopped")
    BY <1>1 DEF Pool!vars, Pool!Close
  <2> QED  BY <2>1 DEF NoSilentDrop, QueuedItems, Answered
<1>2. CASE Pool!Take \/ Pool!Refuse
  <2> DEFINE h == Head(queue)
  <2>1. /\ queue # <<>> /\ queue' = Tail(queue) /\ submitted' = submitted
        /\ pc # "stopped"
    BY <1>2 DEF Pool!Take, Pool!Refuse
  <2>2. h \in QueuedItems /\ QueuedItems' = QueuedItems \ {h} /\ h \in Items
    BY <2>1, TailQueue, ItemTypes DEF TypeOK, OneHolder
  <2>3. HeldItems' \cup Answered' = HeldItems \cup Answered \cup {h}
    <3>1. CASE Pool!Take
      BY <3>1 DEF Pool!Take, Answered
    <3>2. CASE Pool!Refuse
      <4>1. PICK r \in Results : replies' = [replies EXCEPT ![h] = Append(@, r)]
        BY <3>2 DEF Pool!Refuse
      <4> DEFINE f == [i \in {h} |-> r]
      <4>2. f \in [{h} -> Results] /\ {h} \subseteq Items
        BY <2>2
      <4>3. replies' = [i \in Items |-> IF i \in {h} THEN Append(replies[i], f[i])
                                                     ELSE replies[i]]
        BY <4>1 DEF TypeOK
      <4> HIDE DEF f, h
      <4>4. Answered' = Answered \cup {h}
        BY <4>2, <4>3, AnsweredBy
      <4> QED  BY <3>2, <4>4 DEF Pool!Refuse
    <3> QED  BY <1>2, <3>1, <3>2
  <2> QED  BY <2>1, <2>2, <2>3 DEF NoSilentDrop
<1>3. ASSUME NEW S, S \subseteq HeldItems, Pool!Answer(S)
      PROVE  NoSilentDrop'
  <2>1. PICK r \in [S -> Results] :
          replies' = [i \in Items |-> IF i \in S THEN Append(replies[i], r[i])
                                                 ELSE replies[i]]
    BY <1>3 DEF Pool!Answer
  <2>2. S \subseteq Items
    BY <1>3, ItemTypes DEF HeldItems
  <2>3. Answered' = Answered \cup S
    BY <2>1, <2>2, AnsweredBy
  <2>4. /\ HeldItems' = HeldItems \ S /\ UNCHANGED <<queue, submitted>>
        /\ pc # "stopped"
    BY <1>3 DEF Pool!Answer
  <2> QED  BY <1>3, <2>3, <2>4 DEF NoSilentDrop, QueuedItems
<1>5. CASE Pool!Halt \/ Pool!Finish
  <2>1. ~(pc' # "stopped")
    BY <1>5 DEF Pool!Halt, Pool!Finish, Pool!Gone
  <2> QED  BY <2>1 DEF NoSilentDrop
<1>6. ASSUME NEW i \in Items, Pool!Submit(i) PROVE NoSilentDrop'
  <2>1. /\ queue' = Append(queue, i) /\ submitted' = submitted \cup {i}
        /\ HeldItems' = HeldItems /\ replies' = replies /\ pc # "stopped"
    BY <1>6 DEF Pool!Submit
  <2>2. /\ Len(queue) \in Nat /\ Len(queue') = Len(queue) + 1
        /\ \A j \in 1 .. Len(queue) : queue'[j] = queue[j]
        /\ queue'[Len(queue) + 1] = i
    BY <2>1, AppendProperties, LenProperties DEF TypeOK
  <2>3. /\ \A j \in 1 .. Len(queue') : j = Len(queue) + 1 \/ j \in 1 .. Len(queue)
        /\ \A j \in 1 .. Len(queue) : j \in 1 .. Len(queue')
        /\ Len(queue) + 1 \in 1 .. Len(queue')
    BY <2>2
  <2>4. QueuedItems' = QueuedItems \cup {i}
    BY <2>2, <2>3 DEF QueuedItems
  <2> QED  BY <2>1, <2>4 DEF NoSilentDrop, Answered
<1> QED
  BY <1>1, <1>2, <1>3, <1>5, <1>6 DEF KeepingStep

LEMMA InitAccounted == Init => NoSilentDrop
<1> SUFFICES ASSUME Init PROVE NoSilentDrop
  OBVIOUS
<1>1. /\ Len(queue) = 0 /\ Len(pending) = 0 /\ Len(carry) = 0 /\ Len(entries) = 0
      /\ Active = {} /\ submitted = {} /\ \A i \in Items : replies[i] = <<>>
  BY EmptySeq DEF Init, Active
<1> QED  BY <1>1 DEF NoSilentDrop, QueuedItems, HeldItems, ItemsIn, ItemsOf, Answered

\* As long as at most two rounds of the slots wait for an answer, every item that
\* was submitted is queued, held or answered while the thread lives.
THEOREM NothingLost == Spec /\ []LightLoad => []NoSilentDrop
<1>1. Init => LoadInv /\ CarryInv /\ NoSilentDrop
  BY InitLoad, InitCarry, InitAccounted
<1>2. LightLoad /\ LoadInv /\ CarryInv /\ NoSilentDrop /\ [Next]_vars
        => (LoadInv /\ CarryInv /\ NoSilentDrop)'
  <2> SUFFICES ASSUME LightLoad, LoadInv, CarryInv, NoSilentDrop, [Next]_vars
               PROVE  (LoadInv /\ CarryInv /\ NoSilentDrop)'
    OBVIOUS
  <2>1. LoadInv' /\ CarryInv'
    BY NextLoad, NextCarry DEF LoadInv
  <2>2. KeepingStep
    BY NextPool DEF LossyStep
  <2> QED  BY <2>1, <2>2, NextAccounted
<1> QED  BY <1>1, <1>2, PTL DEF Spec

\* Nor does the thread then block in recv while carry_over holds an item.
THEOREM NothingStranded == Spec /\ []LightLoad => []BlocksOnlyWithoutWork
<1>1. Init => LoadInv /\ CarryInv
  BY InitLoad, InitCarry
<1>2. LightLoad /\ LoadInv /\ CarryInv /\ [Next]_vars => (LoadInv /\ CarryInv)'
  BY NextLoad, NextCarry DEF LoadInv
<1>3. CarryInv => BlocksOnlyWithoutWork
  BY DEF CarryInv, BlocksOnlyWithoutWork
<1> QED  BY <1>1, <1>2, <1>3, PTL DEF Spec

-----------------------------------------------------------------------------
(* The order of the items that wait *)

LineItem(a) ==
  IF a <= Len(pending) THEN pending[a].item
  ELSE IF a <= Len(pending) + Len(carry) THEN carry[a - Len(pending)].item
  ELSE queue[a - (Len(pending) + Len(carry))]
Shape ==
  /\ Line \in Seq(Items)
  /\ Len(pending) \in Nat /\ Len(carry) \in Nat /\ Len(queue) \in Nat
  /\ Len(Line) = Len(pending) + Len(carry) + Len(queue)
  /\ \A a \in 1 .. Len(Line) : Line[a] = LineItem(a)

LEMMA LineShape == TypeOK => Shape
<1> SUFFICES ASSUME TypeOK PROVE Shape
  OBVIOUS
<1> DEFINE p == [j \in 1 .. Len(pending) |-> pending[j].item]
           c == [j \in 1 .. Len(carry) |-> carry[j].item]
<1>1. /\ Len(pending) \in Nat /\ Len(carry) \in Nat /\ Len(queue) \in Nat
      /\ \A j \in 1 .. Len(pending) : pending[j].item \in Items
      /\ \A j \in 1 .. Len(carry) : carry[j].item \in Items
      /\ queue \in Seq(Items)
  <2>1. /\ pending \in Seq(PendingPrefill) /\ carry \in Seq(PendingPrefill)
        /\ queue \in Seq(Items)
    BY DEF TypeOK
  <2>2. /\ \A j \in 1 .. Len(pending) : pending[j] \in PendingPrefill
        /\ \A j \in 1 .. Len(carry) : carry[j] \in PendingPrefill
    BY <2>1, ElementOfSeq
  <2> QED  BY <2>1, <2>2, LenProperties DEF PendingPrefill
<1>2. /\ p \in Seq(Items) /\ Len(p) = Len(pending)
      /\ c \in Seq(Items) /\ Len(c) = Len(carry)
  BY <1>1
<1>3. /\ \A j \in 1 .. Len(pending) : p[j] = pending[j].item
      /\ \A j \in 1 .. Len(carry) : c[j] = carry[j].item
  OBVIOUS
<1>4. Line = (p \o c) \o queue
  BY DEF Line
<1> HIDE DEF p, c
<1>5. /\ p \o c \in Seq(Items) /\ Len(p \o c) = Len(pending) + Len(carry)
      /\ \A a \in 1 .. Len(pending) + Len(carry) :
           (p \o c)[a] = IF a <= Len(pending) THEN p[a] ELSE c[a - Len(pending)]
  <2>1. /\ p \o c \in Seq(Items) /\ Len(p \o c) = Len(p) + Len(c)
        /\ \A a \in 1 .. Len(p) + Len(c) :
             (p \o c)[a] = IF a <= Len(p) THEN p[a] ELSE c[a - Len(p)]
    BY <1>2, ConcatProperties
  <2> QED  BY <1>2, <2>1
<1>6. /\ Line \in Seq(Items) /\ Len(Line) = Len(p \o c) + Len(queue)
      /\ \A a \in 1 .. Len(p \o c) + Len(queue) :
           Line[a] = IF a <= Len(p \o c) THEN (p \o c)[a]
                                         ELSE queue[a - Len(p \o c)]
  <2> DEFINE w == p \o c
  <2>1. w \in Seq(Items) /\ queue \in Seq(Items) /\ Line = w \o queue
    BY <1>1, <1>4, <1>5
  <2> HIDE DEF w
  <2>2. /\ Line \in Seq(Items) /\ Len(Line) = Len(w) + Len(queue)
        /\ \A a \in 1 .. Len(w) + Len(queue) :
             Line[a] = IF a <= Len(w) THEN w[a] ELSE queue[a - Len(w)]
    BY <2>1, ConcatProperties
  <2> QED  BY <2>2 DEF w
<1>7. ASSUME NEW a \in 1 .. Len(Line)
      PROVE  Line[a] = LineItem(a)
  <2>1. CASE a <= Len(pending)
    <3>1. a \in 1 .. Len(pending) /\ a \in 1 .. Len(p \o c)
      BY <1>1, <1>5, <1>6, <2>1
    <3>2. Line[a] = p[a]
      <4>1. Line[a] = (p \o c)[a]
        BY <1>1, <1>5, <1>6, <3>1
      <4> QED  BY <1>1, <1>5, <2>1, <3>1, <4>1
    <3> QED  BY <1>3, <2>1, <3>1, <3>2 DEF LineItem
  <2>2. CASE ~(a <= Len(pending)) /\ a <= Len(pending) + Len(carry)
    <3>1. a - Len(pending) \in 1 .. Len(carry) /\ a \in 1 .. Len(p \o c)
      BY <1>1, <1>5, <1>6, <2>2
    <3>2. Line[a] = c[a - Len(pending)]
      BY <1>5, <1>6, <2>2, <3>1
    <3> QED  BY <1>3, <2>2, <3>1, <3>2 DEF LineItem
  <2>3. CASE ~(a <= Len(pending)) /\ ~(a <= Len(pending) + Len(carry))
    BY <1>1, <1>5, <1>6, <2>3 DEF LineItem
  <2> QED  BY <2>1, <2>2, <2>3
<1> QED  BY <1>1, <1>5, <1>6, <1>7 DEF Shape

LEMMA LineShapeNext == TypeOK' => Shape'
BY LineShape, PTL

\* No item stands in it twice.
LEMMA LineDistinct ==
  ASSUME TypeOK, OneHolder
  PROVE  \A a, b \in 1 .. Len(Line) : Line[a] = Line[b] => a = b
<1> DEFINE n == Len(pending)
           m == Len(carry)
<1>1. ASSUME NEW a \in 1 .. Len(Line)
      PROVE  \/ a \in 1 .. n /\ Line[a] = pending[a].item /\ Line[a] \in ItemsIn(pending)
             \/ /\ a - n \in 1 .. m /\ a > n
                /\ Line[a] = carry[a - n].item /\ Line[a] \in ItemsIn(carry)
             \/ /\ a - (n + m) \in 1 .. Len(queue) /\ a > n + m
                /\ Line[a] = queue[a - (n + m)] /\ Line[a] \in QueuedItems
  <2>1. n \in Nat /\ m \in Nat /\ Len(queue) \in Nat /\ Len(Line) = n + m + Len(queue)
    BY LineShape DEF Shape
  <2>2. CASE a <= n
    <3>1. a \in 1 .. n /\ Line[a] = pending[a].item
      BY <2>1, <2>2, LineShape DEF Shape, LineItem
    <3> QED  BY <3>1 DEF ItemsIn
  <2>3. CASE ~(a <= n) /\ a <= n + m
    <3>1. a - n \in 1 .. m /\ a > n
      BY <2>1, <2>3
    <3>2. Line[a] = carry[a - n].item
      BY <2>3, LineShape DEF Shape, LineItem
    <3> QED  BY <3>1, <3>2 DEF ItemsIn
  <2>4. CASE ~(a <= n) /\ ~(a <= n + m)
    <3>1. a - (n + m) \in 1 .. Len(queue) /\ a > n + m
      BY <2>1, <2>4
    <3>2. Line[a] = queue[a - (n + m)]
      BY <2>4, LineShape DEF Shape, LineItem
    <3> QED  BY <3>1, <3>2 DEF QueuedItems
  <2> QED  BY <2>2, <2>3, <2>4
<1>2. /\ ItemsIn(pending) \cap ItemsIn(carry) = {}
      /\ QueuedItems \cap (ItemsIn(pending) \cup ItemsIn(carry)) = {}
  BY DEF OneHolder, HeldItems
<1>3. n \in Nat /\ m \in Nat /\ Len(queue) \in Nat /\ Len(Line) \in Nat
  BY LineShape, LenProperties DEF Shape
<1> SUFFICES ASSUME NEW a \in 1 .. Len(Line), NEW b \in 1 .. Len(Line),
                    Line[a] = Line[b]
             PROVE  a = b
  OBVIOUS
<1> HIDE DEF n, m
<1>4. CASE Line[a] \in ItemsIn(pending)
  <2>1. a \in 1 .. n /\ b \in 1 .. n /\ pending[a].item = pending[b].item
    BY <1>1, <1>2, <1>4
  <2> QED  BY <2>1 DEF OneHolder, DistinctItems, n
<1>5. CASE Line[a] \in ItemsIn(carry)
  <2>1. a - n \in 1 .. m /\ b - n \in 1 .. m /\ carry[a - n].item = carry[b - n].item
    BY <1>1, <1>2, <1>5
  <2>2. a - n = b - n
    BY <2>1 DEF OneHolder, DistinctItems, m
  <2> QED  BY <1>3, <2>2
<1>6. CASE Line[a] \in QueuedItems
  <2>1. /\ a - (n + m) \in 1 .. Len(queue) /\ b - (n + m) \in 1 .. Len(queue)
        /\ queue[a - (n + m)] = queue[b - (n + m)]
    BY <1>1, <1>2, <1>6
  <2>2. a - (n + m) = b - (n + m)
    BY <2>1 DEF OneHolder
  <2> QED  BY <1>3, <2>2
<1> QED  BY <1>1, <1>4, <1>5, <1>6

\* The new line is the old one, without the d items behind the first k, and
\* perhaps with new items at its end.
Follows(k, d) ==
  \A a \in 1 .. Len(Line') :
    LET b == IF a <= k THEN a ELSE a + d
    IN IF b <= Len(Line) THEN Line'[a] = Line[b]
                         ELSE \A c \in 1 .. Len(Line) : Line'[a] # Line[c]

InOrder == \A i, j \in Items : Precedes(i, j) => ~Precedes(j, i)'

LEMMA OrderStays ==
  ASSUME TypeOK, TypeOK', OneHolder, NEW k \in Nat, NEW d \in Nat, Follows(k, d)
  PROVE  InOrder
<1> SUFFICES ASSUME NEW i \in Items, NEW j \in Items, Precedes(i, j),
                    Precedes(j, i)'
             PROVE  FALSE
  BY DEF InOrder
<1>1. PICK a, b \in 1 .. Len(Line) : a < b /\ Line[a] = i /\ Line[b] = j
  BY DEF Precedes
<1>2. PICK x, y \in 1 .. Len(Line') : x < y /\ Line'[x] = j /\ Line'[y] = i
  BY DEF Precedes
<1>3. Len(Line) \in Nat /\ Len(Line') \in Nat
  <2>1. Line \in Seq(Items)
    BY LineShape DEF Shape
  <2>2. Line' \in Seq(Items)
    BY LineShapeNext DEF Shape
  <2> QED  BY <2>1, <2>2, LenProperties
<1> DEFINE u == IF x <= k THEN x ELSE x + d
           v == IF y <= k THEN y ELSE y + d
<1>4. u \in Nat /\ v \in Nat /\ 1 <= u /\ u < v
  BY <1>2, <1>3
<1>5. IF u <= Len(Line) THEN Line'[x] = Line[u]
                        ELSE \A c \in 1 .. Len(Line) : Line'[x] # Line[c]
  BY DEF Follows
<1>6. IF v <= Len(Line) THEN Line'[y] = Line[v]
                        ELSE \A c \in 1 .. Len(Line) : Line'[y] # Line[c]
  BY DEF Follows
<1> HIDE DEF u, v
<1>7. u \in 1 .. Len(Line) /\ Line[u] = j
  BY <1>1, <1>2, <1>3, <1>4, <1>5
<1>8. v \in 1 .. Len(Line) /\ Line[v] = i
  BY <1>1, <1>2, <1>3, <1>4, <1>6
<1>9. u = b /\ v = a
  BY <1>1, <1>7, <1>8, LineDistinct
<1> QED  BY <1>1, <1>3, <1>4, <1>9

LEMMA SameLine ==
  ASSUME TypeOK, TypeOK', OneHolder, Len(Line') = Len(Line),
         \A a \in 1 .. Len(Line) : Line'[a] = Line[a]
  PROVE  InOrder
<1>1. Len(Line) \in Nat
  BY LineShape, LenProperties DEF Shape
<1>2. Follows(0, 0)
  BY <1>1 DEF Follows
<1> QED  BY <1>2, OrderStays

LEMMA TailAt ==
  ASSUME NEW S, NEW seq \in Seq(S), seq # <<>>
  PROVE  /\ Tail(seq) \in Seq(S) /\ Len(seq) \in Nat \ {0}
         /\ Len(Tail(seq)) = Len(seq) - 1 /\ Head(seq) = seq[1]
         /\ \A j \in 1 .. Len(seq) - 1 : Tail(seq)[j] = seq[j + 1]
OBVIOUS

\* A list of prompts is cut in two, in front of the channel.
LEMMA SplitOrder ==
  ASSUME TypeOK, TypeOK', OneHolder, queue' = queue,
         NEW list \in Seq(PendingPrefill), NEW k \in 0 .. Len(list),
         \/ pending = list /\ carry = <<>>
         \/ pending = <<>> /\ carry = list,
         Len(pending') = k, \A j \in 1 .. k : pending'[j] = list[j],
         Len(carry') = Len(list) - k,
         \A j \in 1 .. Len(list) - k : carry'[j] = list[k + j]
  PROVE  InOrder
<1>1. Shape /\ Shape'
  BY LineShape, LineShapeNext
<1>2. /\ Len(list) \in Nat /\ k \in Nat /\ k <= Len(list)
      /\ Len(pending') = k /\ Len(carry') = Len(list) - k
      /\ \A j \in 1 .. k : pending'[j] = list[j]
      /\ \A j \in 1 .. Len(list) - k : carry'[j] = list[k + j]
  BY LenProperties
<1>3. /\ Len(pending) + Len(carry) = Len(list)
      /\ Len(Line) = Len(list) + Len(queue) /\ Len(queue) \in Nat
      /\ \A a \in 1 .. Len(Line) :
           Line[a] = IF a <= Len(list) THEN list[a].item ELSE queue[a - Len(list)]
  <2>1. CASE pending = list /\ carry = <<>>
    BY <1>1, <1>2, <2>1, EmptySeq DEF Shape, LineItem
  <2>2. CASE pending = <<>> /\ carry = list
    <3>1. /\ Len(pending) = 0 /\ Len(carry) = Len(list)
          /\ \A a \in 1 .. Len(Line) : a - 0 = a /\ ~(a <= 0)
      BY <1>1, <2>2, EmptySeq DEF Shape
    <3> QED  BY <1>1, <1>2, <2>2, <3>1 DEF Shape, LineItem
  <2> QED  BY <2>1, <2>2
<1>4. Len(Line') = Len(list) + Len(queue) /\ Len(pending') + Len(carry') = Len(list)
  <2>1. Len(Line') = Len(pending') + Len(carry') + Len(queue')
    BY <1>1 DEF Shape
  <2>2. Len(pending') + Len(carry') = Len(list) /\ Len(queue') = Len(queue)
    BY <1>2
  <2> QED  BY <2>1, <2>2
<1>5. ASSUME NEW a \in 1 .. Len(Line) PROVE Line'[a] = Line[a]
  <2>1. a \in 1 .. Len(Line') /\ a \in Nat /\ 1 <= a
    BY <1>2, <1>3, <1>4
  <2>2. Line'[a] = LineItem(a)'
    BY <1>1, <2>1 DEF Shape
  <2>3. CASE a <= k
    <3>1. LineItem(a)' = list[a].item
      BY <1>2, <2>1, <2>3 DEF LineItem
    <3> QED  BY <1>2, <1>3, <2>1, <2>2, <2>3, <3>1
  <2>4. CASE ~(a <= k) /\ a <= Len(list)
    <3> DEFINE j == a - k
    <3>1. j \in 1 .. Len(list) - k /\ k + j = a
      BY <1>2, <2>1, <2>4
    <3>2. LineItem(a)' = carry'[j].item
      <4>1. ~(a <= Len(pending')) /\ a <= Len(pending') + Len(carry')
            /\ a - Len(pending') = j
        BY <1>2, <1>4, <2>4
      <4> QED  BY <4>1 DEF LineItem
    <3> HIDE DEF j
    <3>3. LineItem(a)' = list[a].item
      BY <1>2, <3>1, <3>2
    <3> QED  BY <1>3, <2>2, <2>4, <3>3
  <2>5. CASE ~(a <= Len(list))
    <3>1. LineItem(a)' = queue[a - Len(list)]
      <4>1. ~(a <= Len(pending')) /\ ~(a <= Len(pending') + Len(carry'))
            /\ queue' = queue
        BY <1>2, <1>4, <2>1, <2>5
      <4> QED  BY <1>4, <4>1 DEF LineItem
    <3> QED  BY <1>3, <2>2, <2>5, <3>1
  <2> QED  BY <2>3, <2>4, <2>5
<1> QED  BY <1>3, <1>4, <1>5, SameLine

\* The next item is taken from the channel while carry_over is empty.
LEMMA TokenizeOrder ==
  ASSUME TypeOK, TypeOK', OneHolder, Tokenize, carry = <<>>, UNCHANGED carry
  PROVE  InOrder
<1>1. Shape /\ Shape' /\ Len(carry) = 0 /\ Len(carry') = 0
  BY LineShape, LineShapeNext, EmptySeq
<1>2. /\ queue' \in Seq(Items) /\ Len(queue) \in Nat \ {0}
      /\ Len(queue') = Len(queue) - 1 /\ Head(queue) = queue[1]
      /\ \A j \in 1 .. Len(queue) - 1 : queue'[j] = queue[j + 1]
  BY TailAt DEF TypeOK, Tokenize
<1> DEFINE n == Len(pending)
<1>3. /\ n \in Nat /\ Len(Line) = n + Len(queue)
      /\ \A a \in 1 .. Len(Line) :
           Line[a] = IF a <= n THEN pending[a].item ELSE queue[a - n]
  BY <1>1, <1>2 DEF Shape, LineItem
<1>4. /\ Len(Line') = Len(pending') + (Len(queue) - 1) /\ Len(pending') \in Nat
      /\ \A a \in 1 .. Len(Line') :
           Line'[a] = IF a <= Len(pending') THEN pending'[a].item
                                            ELSE queue'[a - Len(pending')]
  <2>1. Len(pending') \in Nat /\ Len(carry') = 0
        /\ Len(Line') = Len(pending') + (Len(queue) - 1)
    BY <1>1, <1>2 DEF Shape
  <2>2. ASSUME NEW a \in 1 .. Len(Line')
        PROVE  Line'[a] = IF a <= Len(pending') THEN pending'[a].item
                                                ELSE queue'[a - Len(pending')]
    <3>1. Line'[a] = LineItem(a)'
      BY <1>1 DEF Shape
    <3>2. Len(pending') + Len(carry') = Len(pending')
      BY <2>1
    <3> QED  BY <3>1, <3>2 DEF LineItem
  <2> QED  BY <2>1, <2>2
<1>5. CASE UNCHANGED pending
  <2> SUFFICES ASSUME NEW a \in 1 .. Len(Line')
               PROVE  LET b == IF a <= n THEN a ELSE a + 1
                      IN b \in 1 .. Len(Line) /\ Line'[a] = Line[b]
    <3>1. ASSUME \A a \in 1 .. Len(Line') :
                   LET b == IF a <= n THEN a ELSE a + 1
                   IN b \in 1 .. Len(Line) /\ Line'[a] = Line[b]
          PROVE  Follows(n, 1)
      <4> HIDE DEF n
      <4> QED  BY <1>3, <3>1 DEF Follows
    <3>2. Follows(n, 1) => InOrder
      BY <1>3, OrderStays
    <3> QED  BY <3>1, <3>2
  <2>1. CASE a <= n
    BY <1>2, <1>3, <1>4, <1>5, <2>1
  <2>2. CASE ~(a <= n)
    <3> DEFINE j == a - n
    <3>1. /\ j \in 1 .. Len(queue) - 1 /\ (a + 1) - n = j + 1 /\ ~(a + 1 <= n)
          /\ a + 1 \in 1 .. Len(Line)
      BY <1>2, <1>3, <1>4, <1>5, <2>2
    <3>2. Line'[a] = queue'[j]
      BY <1>4, <1>5, <2>2
    <3> HIDE DEF j
    <3>3. Line[a + 1] = queue[j + 1]
      BY <1>3, <3>1
    <3> QED  BY <1>2, <2>2, <3>1, <3>2, <3>3
  <2> QED  BY <2>1, <2>2
<1>6. CASE \E len \in PromptLens :
             pending' = Append(pending, [item |-> Head(queue), len |-> len])
  <2>1. PICK len \in PromptLens :
          pending' = Append(pending, [item |-> Head(queue), len |-> len])
    BY <1>6
  <2>2. /\ Len(pending') = n + 1 /\ pending'[n + 1].item = queue[1]
        /\ \A j \in 1 .. n : pending'[j] = pending[j]
    <3> DEFINE x == [item |-> Head(queue), len |-> len]
    <3>1. x.item = queue[1]
      BY <1>2
    <3> HIDE DEF x
    <3>2. /\ Len(Append(pending, x)) = n + 1 /\ Append(pending, x)[n + 1] = x
          /\ \A j \in 1 .. n : Append(pending, x)[j] = pending[j]
      <4>1. pending \in Seq(PendingPrefill) /\ pending \in Seq(PendingPrefill \cup {x})
        BY DEF TypeOK
      <4> QED  BY <4>1
    <3> QED  BY <2>1, <3>1, <3>2 DEF x
  <2>3. Len(Line') = Len(Line)
    BY <1>2, <1>3, <1>4, <2>2
  <2>4. ASSUME NEW a \in 1 .. Len(Line) PROVE Line'[a] = Line[a]
    <3>1. CASE a <= n
      BY <1>3, <1>4, <2>2, <2>3, <3>1
    <3>2. CASE a = n + 1
      <4>1. Line'[a] = queue[1]
        BY <1>3, <1>4, <2>2, <2>3, <3>2
      <4>2. a - n = 1 /\ ~(a <= n)
        BY <1>3, <3>2
      <4> QED  BY <1>3, <4>1, <4>2
    <3>3. CASE a > n + 1
      <4> DEFINE j == a - (n + 1)
      <4>1. j \in 1 .. Len(queue) - 1 /\ a - n = j + 1 /\ ~(a <= n) /\ ~(a <= n + 1)
        BY <1>2, <1>3, <3>3
      <4>2. Line'[a] = queue'[j]
        BY <1>4, <2>2, <2>3, <4>1
      <4> HIDE DEF j
      <4>3. Line[a] = queue[j + 1]
        BY <1>3, <4>1
      <4> QED  BY <1>2, <4>1, <4>2, <4>3
    <3> QED  BY <1>3, <3>1, <3>2, <3>3
  <2> QED  BY <2>3, <2>4, SameLine
<1> QED  BY <1>5, <1>6 DEF Tokenize

\* The channel is read for a prefill only when nothing is carried over.
RoomInv == room > 0 => carry = <<>>

LEMMA NextRoom == PoolInv /\ RoomInv /\ [Next]_vars => RoomInv'
<1> SUFFICES ASSUME TypeOK, BatchFits, RoomInv, [Next]_vars PROVE RoomInv'
  BY DEF PoolInv
<1> USE DEF queueVars, collectVars, batchVars, slotVars
<1>1. CASE EndThread
  BY <1>1 DEF EndThread, RoomInv
<1>2. CASE UNCHANGED <<room, carry>>
  BY <1>2 DEF RoomInv
<1>3. ASSUME NEW next, StartFill(next)
      PROVE  RoomInv'
  <2> DEFINE n == Cardinality(EmptySlots)
  <2>1. n \in Nat /\ Len(carry) \in Nat
    BY CountSlots, LenProperties DEF TypeOK
  <2>2. room' = n - FromCarry(n) /\ carry' = SubSeq(carry, FromCarry(n) + 1, Len(carry))
    BY <1>3 DEF StartFill, CarryLeft
  <2> HIDE DEF n
  <2>3. /\ FromCarry(n) \in 0 .. Len(carry)
        /\ n - FromCarry(n) > 0 => FromCarry(n) = Len(carry)
    BY <2>1 DEF FromCarry
  <2>4. Len(carry') = Len(carry) - FromCarry(n) /\ carry' \in Seq(PendingPrefill)
    BY <2>2, <2>3, TakeAndDrop DEF TypeOK
  <2>5. room' > 0 => Len(carry') = 0
    BY <2>1, <2>2, <2>3, <2>4
  <2> QED  BY <2>4, <2>5, EmptySeq DEF RoomInv
<1>4. CASE Collect \/ CollectDone
  <2>1. carry' = carry /\ (room' = room - 1 \/ room' = 0) /\ room \in Nat
    BY <1>4 DEF Collect, CollectDone, TypeOK
  <2> QED  BY <2>1 DEF RoomInv
<1>5. CASE AccumulateDone
  <2>1. room' = 0
    BY <1>5 DEF AccumulateDone, BatchFits
  <2> QED  BY <2>1 DEF RoomInv
<1>6. CASE BuildEntry
  BY <1>1, <1>2, <1>6 DEF BuildEntry
<1>7. CASE ContextFails \/ Panic \/ Shutdown
  BY <1>1, <1>7 DEF ContextFails, Panic, Shutdown
<1>8. CASE \/ CreateContext \/ IdleReceive \/ Accumulate \/ PrefillOk \/ PrefillFails
           \/ AssignEntry \/ AssignDone \/ DecodeOk \/ DecodeFails
           \/ Callers \/ Terminated \/ UNCHANGED vars
  BY <1>2, <1>8 DEF CreateContext, IdleReceive, Accumulate, PrefillOk, PrefillFails,
     AssignEntry, AssignDone, DecodeOk, DecodeFails, Callers, CloseChannel, Submit,
     Terminated, vars
<1> QED
  BY <1>3, <1>4, <1>5, <1>6, <1>7, <1>8 DEF FillTop, Refill, Next, Thread

\* A new item is the last in the line.
LEMMA SubmitOrder ==
  ASSUME TypeOK, TypeOK', OneHolder, NEW i \in Items, Submit(i)
  PROVE  InOrder
<1>1. Shape /\ Shape'
  BY LineShape, LineShapeNext
<1>2. /\ pending' = pending /\ carry' = carry /\ queue' = Append(queue, i)
      /\ i \notin submitted
  BY DEF Submit, collectVars
<1>3. /\ Len(queue) \in Nat /\ Len(queue') = Len(queue) + 1
      /\ \A j \in 1 .. Len(queue) : queue'[j] = queue[j]
      /\ queue'[Len(queue) + 1] = i
  BY <1>2, AppendProperties, LenProperties DEF TypeOK
<1> DEFINE n == Len(pending) + Len(carry)
<1>4. n \in Nat /\ Len(Line) = n + Len(queue) /\ Len(Line') = Len(Line) + 1
  <2>1. Len(Line') = Len(pending') + Len(carry') + Len(queue')
    BY <1>1 DEF Shape
  <2>2. Len(pending) \in Nat /\ Len(carry) \in Nat /\ Len(Line) = n + Len(queue)
    BY <1>1 DEF Shape
  <2> QED  BY <1>2, <1>3, <2>1, <2>2
<1>5. ASSUME NEW a \in 1 .. Len(Line) PROVE Line'[a] = Line[a]
  <2>1. a \in 1 .. Len(Line')
    BY <1>3, <1>4
  <2>2. Line'[a] = LineItem(a)' /\ Line[a] = LineItem(a)
    BY <1>1, <2>1 DEF Shape
  <2>3. CASE a <= n
    BY <1>1, <1>2, <2>2, <2>3 DEF LineItem, Shape
  <2>4. CASE ~(a <= n)
    <3>1. a - n \in 1 .. Len(queue) /\ ~(a <= Len(pending))
      BY <1>1, <1>3, <1>4, <2>4 DEF Shape
    <3>2. LineItem(a)' = queue'[a - n] /\ LineItem(a) = queue[a - n]
      BY <1>2, <2>4, <3>1 DEF LineItem
    <3> QED  BY <1>3, <2>2, <3>1, <3>2
  <2> QED  BY <2>3, <2>4
<1>6. ASSUME NEW a \in Nat, a = Len(Line) + 1 PROVE Line'[a] = i
  <2>1. /\ a \in 1 .. Len(Line') /\ ~(a <= n) /\ ~(a <= Len(pending))
        /\ a - n = Len(queue) + 1
    BY <1>1, <1>3, <1>4, <1>6 DEF Shape
  <2>2. Line'[a] = LineItem(a)'
    BY <1>1, <2>1 DEF Shape
  <2>3. LineItem(a)' = queue'[a - n]
    BY <1>2, <2>1 DEF LineItem
  <2> QED  BY <1>3, <2>1, <2>2, <2>3
<1>7. ASSUME NEW c \in 1 .. Len(Line) PROVE Line[c] # i
  <2>1. Line[c] = LineItem(c)
    BY <1>1 DEF Shape
  <2>2. LineItem(c) \in ItemsIn(pending) \cup ItemsIn(carry) \cup QueuedItems
    <3>1. CASE c <= Len(pending)
      <4>1. c \in 1 .. Len(pending)
        BY <1>1, <1>3, <1>4, <3>1 DEF Shape
      <4> QED  BY <3>1, <4>1 DEF LineItem, ItemsIn
    <3>2. CASE ~(c <= Len(pending)) /\ c <= n
      <4>1. c - Len(pending) \in 1 .. Len(carry)
        BY <1>1, <1>3, <1>4, <3>2 DEF Shape
      <4> QED  BY <3>2, <4>1 DEF LineItem, ItemsIn
    <3>3. CASE ~(c <= Len(pending)) /\ ~(c <= n)
      <4>1. c - n \in 1 .. Len(queue)
        BY <1>1, <1>3, <1>4, <3>3 DEF Shape
      <4> QED  BY <3>3, <4>1 DEF LineItem, QueuedItems
    <3> QED  BY <3>1, <3>2, <3>3
  <2> QED  BY <1>2, <2>1, <2>2 DEF OneHolder, HeldItems
<1> HIDE DEF n
<1>8. Follows(0, 0)
  <2>1. Len(Line) \in Nat
    BY <1>3, <1>4
  <2> SUFFICES ASSUME NEW a \in 1 .. Len(Line'), a >= 1
               PROVE  IF a <= Len(Line) THEN Line'[a] = Line[a]
                      ELSE \A c \in 1 .. Len(Line) : Line'[a] # Line[c]
    BY DEF Follows
  <2>2. CASE a <= Len(Line)
    BY <1>5, <2>1, <2>2
  <2>3. CASE ~(a <= Len(Line))
    <3>1. a = Len(Line) + 1
      BY <1>4, <2>1, <2>3
    <3> QED  BY <1>6, <1>7, <2>1, <2>3, <3>1
  <2> QED  BY <2>2, <2>3
<1> QED  BY <1>8, OrderStays

LEMMA NextOrder ==
  ASSUME LoadInv, CarryInv, RoomInv, [Next]_vars
  PROVE  InOrder
<1> USE DEF queueVars, collectVars, batchVars, slotVars
<1>1. TypeOK /\ TypeOK' /\ OneHolder /\ BatchFits
  BY NextTypes DEF LoadInv, PoolInv
<1>2. CASE UNCHANGED <<pending, carry, queue>>
  <2>1. Line' = Line
    BY <1>2 DEF Line
  <2> QED  BY <1>1, <2>1, SameLine
<1>3. CASE EndThread
  <2>1. Len(Line') = 0
    <3>1. Shape' /\ Len(pending') = 0 /\ Len(carry') = 0 /\ Len(queue') = 0
      BY <1>1, <1>3, LineShapeNext, EmptySeq DEF EndThread
    <3> QED  BY <3>1 DEF Shape
  <2>2. Follows(0, 0)
    BY <2>1 DEF Follows
  <2> QED  BY <1>1, <2>2, OrderStays
<1>4. CASE Collect \/ IdleReceive \/ Accumulate
  <2>1. carry = <<>> /\ carry' = carry /\ Tokenize
    BY <1>4 DEF Collect, IdleReceive, Accumulate, RoomInv, CarryInv
  <2> QED  BY <1>1, <2>1, TokenizeOrder
<1>5. ASSUME NEW next, StartFill(next), pc \in {"fill", "refill"}
      PROVE  InOrder
  <2> DEFINE k == FromCarry(Cardinality(EmptySlots))
  <2>1. Cardinality(EmptySlots) \in Nat /\ Len(carry) \in Nat
    BY <1>1, CountSlots, LenProperties DEF TypeOK
  <2>2. k \in 0 .. Len(carry)
    BY <2>1 DEF FromCarry
  <2>3. /\ pending' = SubSeq(carry, 1, k) /\ carry' = SubSeq(carry, k + 1, Len(carry))
        /\ queue' = queue /\ pending = <<>> /\ carry \in Seq(PendingPrefill)
    BY <1>1, <1>5 DEF StartFill, CarryLeft, BatchFits, TypeOK
  <2> HIDE DEF k
  <2>4. /\ Len(pending') = k /\ \A j \in 1 .. k : pending'[j] = carry[j]
        /\ Len(carry') = Len(carry) - k
        /\ \A j \in 1 .. Len(carry) - k : carry'[j] = carry[k + j]
    BY <2>2, <2>3, TakeAndDrop
  <2> QED  BY <1>1, <2>2, <2>3, <2>4, SplitOrder
<1>6. CASE AccumulateDone /\ Overflow
  <2>1. /\ pending' = SubSeq(pending, 1, NSlots) /\ queue' = queue
        /\ carry' = SubSeq(pending, NSlots + 1, Len(pending))
        /\ carry = <<>> /\ pending \in Seq(PendingPrefill)
    BY <1>1, <1>6 DEF AccumulateDone, Deferred, CarryInv, TypeOK
  <2>2. NSlots \in 0 .. Len(pending)
    BY <1>6, <2>1, SlotsPositive, LenProperties DEF Overflow
  <2>3. /\ Len(pending') = NSlots /\ \A j \in 1 .. NSlots : pending'[j] = pending[j]
        /\ Len(carry') = Len(pending) - NSlots
        /\ \A j \in 1 .. Len(pending) - NSlots : carry'[j] = pending[NSlots + j]
    BY <2>1, <2>2, TakeAndDrop
  <2> QED  BY <1>1, <2>1, <2>2, <2>3, SplitOrder
<1>7. CASE BuildEntry
  <2>1. EndThread \/ (pending' = Tail(pending) /\ UNCHANGED <<carry, queue>>)
    <3>1. CASE free = {}
      BY <1>7, <3>1 DEF BuildEntry
    <3>2. CASE free # {} /\ batchTokens + Head(pending).len > NCtx
      BY <1>7, <3>2 DEF BuildEntry
    <3>3. CASE free # {} /\ ~(batchTokens + Head(pending).len > NCtx)
      BY <1>7, <3>3 DEF BuildEntry
    <3> QED  BY <3>1, <3>2, <3>3
  <2>2. CASE pending' = Tail(pending) /\ UNCHANGED <<carry, queue>>
    <3>1. /\ Len(pending) \in Nat \ {0} /\ Len(pending') = Len(pending) - 1
          /\ \A j \in 1 .. Len(pending) - 1 : pending'[j] = pending[j + 1]
      BY <1>1, <1>7, <2>2, TailAt DEF BuildEntry, TypeOK
    <3>2. Shape /\ Shape'
      BY <1>1, LineShape, LineShapeNext
    <3>3. Len(Line') = Len(Line) - 1 /\ Len(Line) \in Nat
      <4>1. Len(Line') = Len(pending') + Len(carry') + Len(queue')
        BY <3>2 DEF Shape
      <4> QED  BY <2>2, <3>1, <3>2, <4>1 DEF Shape
    <3>4. ASSUME NEW a \in 1 .. Len(Line')
          PROVE  a + 1 \in 1 .. Len(Line) /\ Line'[a] = Line[a + 1]
      <4>1. a + 1 \in 1 .. Len(Line)
        BY <3>3
      <4>2. Line'[a] = LineItem(a)' /\ Line[a + 1] = LineItem(a + 1)
        BY <3>2, <4>1 DEF Shape
      <4>3. /\ Len(pending) \in Nat /\ Len(carry) \in Nat /\ Len(queue) \in Nat
            /\ Len(carry') = Len(carry)
        BY <2>2, <3>2 DEF Shape
      <4>4. LineItem(a)' = LineItem(a + 1)
        <5>1. CASE a <= Len(pending')
          BY <3>1, <5>1 DEF LineItem
        <5>2. CASE ~(a <= Len(pending')) /\ a <= Len(pending') + Len(carry')
          <6>1. /\ ~(a + 1 <= Len(pending)) /\ a + 1 <= Len(pending) + Len(carry)
                /\ (a + 1) - Len(pending) = a - Len(pending')
            BY <3>1, <4>3, <5>2
          <6> QED  BY <2>2, <5>2, <6>1 DEF LineItem
        <5>3. CASE ~(a <= Len(pending')) /\ ~(a <= Len(pending') + Len(carry'))
          <6>1. /\ ~(a + 1 <= Len(pending)) /\ ~(a + 1 <= Len(pending) + Len(carry))
                /\ (a + 1) - (Len(pending) + Len(carry))
                     = a - (Len(pending') + Len(carry'))
            BY <3>1, <4>3, <5>3
          <6> QED  BY <2>2, <5>3, <6>1 DEF LineItem
        <5> QED  BY <5>1, <5>2, <5>3
      <4> QED  BY <4>1, <4>2, <4>4
    <3>5. Follows(0, 1)
      BY <3>3, <3>4 DEF Follows
    <3> QED  BY <1>1, <3>5, OrderStays
  <2> QED  BY <1>3, <2>1, <2>2
<1>8. CASE \E i \in Items : Submit(i)
  BY <1>1, <1>8, SubmitOrder
<1>9. CASE ContextFails \/ Panic \/ Shutdown
  BY <1>3, <1>9 DEF ContextFails, Panic, Shutdown
<1>10. CASE \/ CreateContext \/ CollectDone \/ PrefillOk \/ PrefillFails
            \/ AssignEntry \/ AssignDone \/ DecodeOk \/ DecodeFails
            \/ (AccumulateDone /\ ~Overflow)
            \/ CloseChannel \/ Terminated \/ UNCHANGED vars
  BY <1>2, <1>10 DEF CreateContext, CollectDone, PrefillOk, PrefillFails, AssignEntry,
     AssignDone, DecodeOk, DecodeFails, AccumulateDone, CloseChannel, Terminated, vars
<1>11. CASE FillTop \/ Refill
  BY <1>5, <1>11 DEF FillTop, Refill
<1> QED
  BY <1>4, <1>6, <1>7, <1>8, <1>9, <1>10, <1>11 DEF Next, Thread, Callers

\* While at most two rounds of the slots wait for an answer, no step lets an item
\* that waits overtake another, for any number of items and slots: loop top,
\* refill and idle accumulation serve the channel and carry_over in one order
\* (continuous.rs:229-247, 289-316 and 441-459).
THEOREM ServedInOrder == Spec /\ []LightLoad => NoOvertaking
<1>1. Init => LoadInv /\ CarryInv /\ RoomInv
  BY InitLoad, InitCarry DEF Init, RoomInv
<1>2. LightLoad /\ LoadInv /\ CarryInv /\ RoomInv /\ [Next]_vars
        => (LoadInv /\ CarryInv /\ RoomInv)'
  BY NextLoad, NextCarry, NextRoom DEF LoadInv
<1>3. LoadInv /\ CarryInv /\ RoomInv /\ [Next]_vars
        => [\A i, j \in Items : Precedes(i, j) => ~Precedes(j, i)']_vars
  BY NextOrder DEF InOrder
<1> QED  BY <1>1, <1>2, <1>3, PTL DEF Spec, NoOvertaking

=============================================================================
