--------------------------- MODULE SchedulerProofs ---------------------------
(***************************************************************************)
(* Theorems about Scheduler, for every set of items, number of slots, budget *)
(* and capacity, and with every kind of fault.                              *)
(***************************************************************************)
EXTENDS Scheduler, TLAPS, FiniteSetTheorems, SequenceTheorems

-----------------------------------------------------------------------------
(* Sequences and slots *)

LEMMA TakeAndDrop ==
  ASSUME NEW S, NEW seq \in Seq(S), NEW k \in 0 .. Len(seq)
  PROVE  /\ SubSeq(seq, 1, k) \in Seq(S)
         /\ Len(SubSeq(seq, 1, k)) = k
         /\ \A j \in 1 .. k : SubSeq(seq, 1, k)[j] = seq[j]
         /\ SubSeq(seq, k + 1, Len(seq)) \in Seq(S)
         /\ Len(SubSeq(seq, k + 1, Len(seq))) = Len(seq) - k
         /\ \A j \in 1 .. Len(seq) - k :
              SubSeq(seq, k + 1, Len(seq))[j] = seq[k + j]
<1>1. Len(seq) \in Nat /\ \A j \in 1 .. Len(seq) : seq[j] \in S
  BY LenProperties, ElementOfSeq
<1>2. /\ SubSeq(seq, 1, k) \in Seq(S)
      /\ Len(SubSeq(seq, 1, k)) = IF 1 <= k THEN k - 1 + 1 ELSE 0
      /\ \A j \in 1 .. k - 1 + 1 : SubSeq(seq, 1, k)[j] = seq[1 + j - 1]
  <2>1. \A j \in 1 .. k : seq[j] \in S
    BY <1>1
  <2> QED  BY <2>1, SubSeqProperties, 1 \in Int, k \in Int
<1>3. /\ SubSeq(seq, k + 1, Len(seq)) \in Seq(S)
      /\ Len(SubSeq(seq, k + 1, Len(seq))) =
           IF k + 1 <= Len(seq) THEN Len(seq) - (k + 1) + 1 ELSE 0
      /\ \A j \in 1 .. Len(seq) - (k + 1) + 1 :
           SubSeq(seq, k + 1, Len(seq))[j] = seq[k + 1 + j - 1]
  <2>1. \A j \in k + 1 .. Len(seq) : seq[j] \in S
    BY <1>1
  <2> QED  BY <1>1, <2>1, SubSeqProperties, k + 1 \in Int, Len(seq) \in Int
<1> QED  BY <1>1, <1>2, <1>3

\* The slots are the active ones and the empty ones.
LEMMA CountSlots ==
  ASSUME Active \subseteq SlotIds
  PROVE  /\ IsFiniteSet(SlotIds) /\ IsFiniteSet(Active) /\ IsFiniteSet(EmptySlots)
         /\ Cardinality(Active) \in Nat /\ Cardinality(EmptySlots) \in Nat
         /\ Cardinality(EmptySlots) = NSlots - Cardinality(Active)
<1>1. NSlots \in Nat /\ 0 \in Int /\ NSlots - 1 \in Int
  BY SlotsPositive
<1>2. IsFiniteSet(SlotIds) /\ Cardinality(SlotIds) = NSlots
  BY <1>1, FS_Interval DEF SlotIds
<1>3. IsFiniteSet(Active)
  BY <1>2, FS_Subset
<1>4. /\ IsFiniteSet(SlotIds \ Active)
      /\ Cardinality(SlotIds \ Active)
           = Cardinality(SlotIds) - Cardinality(SlotIds \cap Active)
  BY <1>2, FS_Difference
<1>5. SlotIds \cap Active = Active
  OBVIOUS
<1>6. Cardinality(Active) \in Nat /\ Cardinality(SlotIds \ Active) \in Nat
  BY <1>3, <1>4, FS_CardinalityType
<1> QED  BY <1>2, <1>3, <1>4, <1>5, <1>6 DEF EmptySlots

-----------------------------------------------------------------------------
(* Types *)

LEMMA MaxPromptType == MaxPrompt \in Nat /\ MaxPrompt <= KvBudget
BY BudgetsNatural DEF MaxPrompt

LEMMA EntryTypes ==
  ASSUME entries \in Seq(PrefillEntry)
  PROVE  /\ Len(entries) \in Nat
         /\ \A j \in 1 .. Len(entries) : /\ entries[j].item \in Items
                                         /\ entries[j].len \in 1 .. MaxPrompt
                                         /\ entries[j].seq \in SeqIds
         /\ EntrySeqs \subseteq SeqIds
<1>1. Len(entries) \in Nat /\ \A j \in 1 .. Len(entries) : entries[j] \in PrefillEntry
  BY LenProperties, ElementOfSeq
<1> QED  BY <1>1 DEF EntrySeqs, PrefillEntry

LEMMA SlotTypes ==
  ASSUME slots \in [Active -> Slot], NEW S, S \subseteq Active
  PROVE  /\ \A s \in S : /\ slots[s].item \in Items
                         /\ slots[s].seq \in SeqIds
                         /\ slots[s].pos \in Nat
                         /\ slots[s].out \in Nat \ {0}
         /\ SeqsOf(S) \subseteq SeqIds
BY DEF Slot, SeqsOf

LEMMA ReplyTypes ==
  ASSUME replies \in [Items -> Seq(Results)]
  PROVE  \A i \in Items, r \in Results : Append(replies[i], r) \in Seq(Results)
BY AppendProperties

\* What tokenizing the next item of the channel changes.
LEMMA TokenizeTypes ==
  ASSUME TypeOK, Tokenize
  PROVE  /\ queue' \in Seq(Items) /\ Len(queue') <= QueueCapacity
         /\ pending' \in Seq(PendingPrefill)
         /\ Len(pending') <= Len(pending) + 1
         /\ replies' \in [Items -> Seq(Results)]
<1>1. /\ queue \in Seq(Items) /\ queue # <<>> /\ Len(queue) <= QueueCapacity
      /\ pending \in Seq(PendingPrefill) /\ replies \in [Items -> Seq(Results)]
  BY DEF TypeOK, Tokenize
<1>2. /\ Head(queue) \in Items /\ queue' \in Seq(Items)
      /\ Len(queue') <= QueueCapacity
  <2>1. /\ Head(queue) \in Items /\ Tail(queue) \in Seq(Items)
        /\ Len(Tail(queue)) = Len(queue) - 1 /\ Len(queue) \in Nat
    BY <1>1, HeadTailProperties, LenProperties
  <2> QED  BY <1>1, <2>1, QueueHolds DEF Tokenize
<1>3. ASSUME NEW r \in Results, Reply(Head(queue), r)
      PROVE  replies' \in [Items -> Seq(Results)]
  BY <1>1, <1>2, <1>3 DEF Reply
<1>4. "too_long" \in Results /\ "model" \in Results
  BY DEF Results
<1>5. ASSUME NEW n \in PromptLens, ~TooLong(n)
      PROVE  [item |-> Head(queue), len |-> n] \in PendingPrefill
  <2>1. n \in 1 .. MaxPrompt
    BY <1>5, PromptsNonempty, MaxPromptType DEF TooLong
  <2> QED  BY <1>2, <2>1 DEF PendingPrefill
<1>6. Len(pending) \in Nat
  BY <1>1, LenProperties
<1>7. CASE pending' = pending /\ \E r \in Results : Reply(Head(queue), r)
  BY <1>1, <1>2, <1>3, <1>6, <1>7
<1>8. CASE \E n \in PromptLens :
             /\ ~TooLong(n) /\ replies' = replies
             /\ pending' = Append(pending, [item |-> Head(queue), len |-> n])
  <2>1. PICK n \in PromptLens :
          /\ ~TooLong(n)
          /\ pending' = Append(pending, [item |-> Head(queue), len |-> n])
    BY <1>8
  <2>2. /\ pending' \in Seq(PendingPrefill)
        /\ Len(pending') = Len(pending) + 1
    BY <1>1, <1>5, <2>1, AppendProperties
  <2> QED  BY <1>1, <1>2, <1>6, <1>8, <2>2
<1> QED  BY <1>4, <1>7, <1>8 DEF Tokenize

LEMMA EndThreadTypes ==
  ASSUME TypeOK, EndThread
  PROVE  TypeOK'
<1>1. Active' = {}
  BY DEF EndThread, Active
<1>2. slots' \in [Active' -> Slot]
  BY <1>1 DEF EndThread
<1>3. kv' \in [SeqIds -> Nat]
  BY DEF EndThread
<1>4. \A S : <<>> \in Seq(S) /\ Len(<<>>) = 0
  BY EmptySeq
<1>5. 0 <= QueueCapacity
  BY QueueHolds
<1> QED  BY <1>1, <1>2, <1>3, <1>4, <1>5 DEF TypeOK, EndThread, PcValues

LEMMA StartFillTypes ==
  ASSUME TypeOK, NEW next \in {"dispatch", "fill"}, StartFill(next)
  PROVE  /\ pending' \in Seq(PendingPrefill) /\ carry' \in Seq(PendingPrefill)
         /\ room' \in Nat
         /\ Len(pending') + room' = Cardinality(EmptySlots)
<1> DEFINE n == Cardinality(EmptySlots)
<1>1. n \in Nat
  BY CountSlots DEF TypeOK
<1>2. carry \in Seq(PendingPrefill) /\ Len(carry) \in Nat
  BY LenProperties DEF TypeOK
<1>3. FromCarry(n) \in 0 .. Len(carry) /\ FromCarry(n) <= n
  BY <1>1, <1>2 DEF FromCarry
<1>4. /\ pending' = SubSeq(carry, 1, FromCarry(n))
      /\ carry' = SubSeq(carry, FromCarry(n) + 1, Len(carry))
      /\ room' = n - FromCarry(n)
  BY DEF StartFill, CarryLeft
<1>5. /\ pending' \in Seq(PendingPrefill) /\ carry' \in Seq(PendingPrefill)
      /\ Len(pending') = FromCarry(n)
  BY <1>2, <1>3, <1>4, TakeAndDrop
<1>6. room' \in Nat /\ FromCarry(n) + room' = n
  <2> HIDE DEF n
  <2> QED  BY <1>1, <1>2, <1>3, <1>4
<1> QED  BY <1>5, <1>6

LEMMA RetireTypes ==
  ASSUME TypeOK, NEW S, S \subseteq Active, NEW grown, Retire(S, grown)
  PROVE  free' \subseteq SeqIds /\ kv' \in [SeqIds -> Nat]
<1>1. SeqsOf(S) \subseteq SeqIds
  BY SlotTypes DEF TypeOK
<1>2. \A q \in SeqIds : kv[q] \in Nat /\ kv[q] + 1 \in Nat
  BY DEF TypeOK
<1> QED  BY <1>1, <1>2 DEF Retire, TypeOK

LEMMA InitTypes == Init => TypeOK
<1> SUFFICES ASSUME Init PROVE TypeOK
  OBVIOUS
<1>1. Active = {}
  BY DEF Init, Active
<1>2. slots \in [Active -> Slot]
  BY <1>1 DEF Init
<1>3. \A S : <<>> \in Seq(S) /\ Len(<<>>) = 0
  BY EmptySeq
<1>4. 0 <= QueueCapacity
  BY QueueHolds
<1> QED  BY <1>1, <1>2, <1>3, <1>4 DEF TypeOK, Init, PcValues

LEMMA NextTypes == TypeOK /\ [Next]_vars => TypeOK'
<1> SUFFICES ASSUME TypeOK, [Next]_vars PROVE TypeOK'
  OBVIOUS
<1> USE DEF queueVars, collectVars, batchVars, slotVars
<1>1. CASE \E i \in Items : Submit(i)
  <2>1. PICK i \in Items : Submit(i)
    BY <1>1
  <2>2. queue \in Seq(Items) /\ Len(queue) \in Nat
    BY LenProperties DEF TypeOK
  <2>3. queue' \in Seq(Items) /\ Len(queue') = Len(queue) + 1
    BY <2>1, <2>2, AppendProperties DEF Submit
  <2> QED  BY <2>1, <2>2, <2>3, QueueHolds DEF Submit, TypeOK, Active
<1>2. CASE CloseChannel
  BY <1>2 DEF CloseChannel, TypeOK, Active
<1>3. CASE CreateContext
  BY <1>3 DEF CreateContext, TypeOK, Active, PcValues
<1>4. CASE ContextFails \/ Panic \/ Shutdown
  BY <1>4, EndThreadTypes DEF ContextFails, Panic, Shutdown
<1>5. CASE FillTop
  BY <1>5, StartFillTypes DEF FillTop, StartFill, TypeOK, Active, PcValues
<1>6. CASE Refill
  BY <1>6, StartFillTypes DEF Refill, StartFill, TypeOK, Active, PcValues
<1>7. CASE Collect
  <2>1. room' \in Nat
    BY <1>7 DEF Collect, TypeOK
  <2> QED  BY <1>7, <2>1, TokenizeTypes DEF Collect, TypeOK, Active
<1>8. CASE CollectDone
  BY <1>8 DEF CollectDone, TypeOK, Active, PcValues
<1>9. CASE IdleReceive
  BY <1>9, TokenizeTypes DEF IdleReceive, TypeOK, Active, PcValues
<1>10. CASE Accumulate
  BY <1>10, TokenizeTypes DEF Accumulate, TypeOK, Active
<1>11. CASE AccumulateDone
  <2>1. pending \in Seq(PendingPrefill) /\ Len(pending) \in Nat
    BY LenProperties DEF TypeOK
  <2>2. pending' \in Seq(PendingPrefill) /\ carry' \in Seq(PendingPrefill)
    <3>1. CASE Overflow
      <4>1. NSlots \in 0 .. Len(pending)
        BY <2>1, <3>1, SlotsPositive DEF Overflow
      <4>2. /\ SubSeq(pending, 1, NSlots) \in Seq(PendingPrefill)
            /\ SubSeq(pending, NSlots + 1, Len(pending)) \in Seq(PendingPrefill)
        BY <2>1, <4>1, TakeAndDrop
      <4> QED  BY <1>11, <3>1, <4>2 DEF AccumulateDone, Deferred
    <3>2. CASE ~Overflow
      BY <1>11, <3>2 DEF AccumulateDone, TypeOK
    <3> QED  BY <3>1, <3>2
  <2> QED  BY <1>11, <2>2 DEF AccumulateDone, TypeOK, Active, PcValues
<1>12. CASE BuildEntry
  <2> DEFINE p == Head(pending)
  <2>1. p \in PendingPrefill /\ Tail(pending) \in Seq(PendingPrefill)
    BY <1>12, HeadTailProperties DEF BuildEntry, TypeOK
  <2>2. p.item \in Items /\ p.len \in 1 .. MaxPrompt /\ p.len \in Nat
    BY <2>1, MaxPromptType DEF PendingPrefill
  <2>3. CASE free = {}
    <3>1. replies' \in [Items -> Seq(Results)]
      BY <1>12, <2>2, <2>3, ReplyTypes DEF BuildEntry, Reply, TypeOK, Results
    <3> QED  BY <1>12, <2>1, <2>3, <3>1 DEF BuildEntry, TypeOK, Active
  <2>4. CASE free # {} /\ EndThread
    BY <2>4, EndThreadTypes
  <2>5. CASE /\ \E q \in free :
                  /\ free' = free \ {q}
                  /\ entries' = Append(entries,
                                  [item |-> p.item, len |-> p.len, seq |-> q])
             /\ batchTokens' = batchTokens + p.len
             /\ pending' = Tail(pending)
             /\ UNCHANGED <<pc, after, queueVars, room, carry, slots, kv, replies>>
    <3>1. PICK q \in free :
            /\ free' = free \ {q}
            /\ entries' = Append(entries,
                            [item |-> p.item, len |-> p.len, seq |-> q])
      BY <2>5
    <3>2. [item |-> p.item, len |-> p.len, seq |-> q] \in PrefillEntry
      BY <2>2, <3>1 DEF PrefillEntry, TypeOK
    <3>3. entries' \in Seq(PrefillEntry)
      BY <3>1, <3>2, AppendProperties DEF TypeOK
    <3>4. batchTokens' \in Nat
      BY <2>2, <2>5 DEF TypeOK
    <3> QED  BY <2>1, <2>5, <3>1, <3>3, <3>4 DEF TypeOK, Active
  <2> QED  BY <1>12, <2>3, <2>4, <2>5 DEF BuildEntry
<1>13. CASE PrefillOk
  <2>1. ASSUME NEW q \in EntrySeqs
        PROVE  PromptOf(q) \in Nat
    <3>1. \E j \in 1 .. Len(entries) : entries[j].seq = q
      BY DEF EntrySeqs
    <3>2. PICK j \in 1 .. Len(entries) : PromptOf(q) = entries[j].len
      BY <3>1 DEF PromptOf
    <3> QED  BY <3>2, EntryTypes, MaxPromptType DEF TypeOK
  <2>2. kv' \in [SeqIds -> Nat]
    BY <1>13, <2>1 DEF PrefillOk, TypeOK
  <2> QED  BY <1>13, <2>2 DEF PrefillOk, TypeOK, Active, PcValues
<1>14. CASE PrefillFails
  <2>1. EntrySeqs \subseteq SeqIds
    BY EntryTypes DEF TypeOK
  <2>2. replies' \in [Items -> Seq(Results)]
    BY <1>14 DEF PrefillFails, TypeOK, Results
  <2>3. kv' \in [SeqIds -> Nat]
    BY <1>14 DEF PrefillFails, Clear, TypeOK
  <2>4. entries' \in Seq(PrefillEntry)
    BY <1>14, EmptySeq DEF PrefillFails
  <2> QED  BY <1>14, <2>1, <2>2, <2>3, <2>4 DEF PrefillFails, TypeOK, Active, PcValues
<1>15. CASE AssignEntry
  <2> DEFINE e == Head(entries)
  <2>1. e \in PrefillEntry /\ entries' \in Seq(PrefillEntry)
    BY <1>15, HeadTailProperties DEF AssignEntry, TypeOK
  <2>2. e.item \in Items /\ e.seq \in SeqIds /\ e.len \in Nat
    BY <2>1, MaxPromptType DEF PrefillEntry
  <2>3. ASSUME NEW r \in Results, DropEntry(e, r)
        PROVE  TypeOK'
    <3>1. replies' \in [Items -> Seq(Results)]
      BY <2>2, <2>3 DEF DropEntry, Reply, TypeOK
    <3>2. kv' \in [SeqIds -> Nat]
      BY <2>3 DEF DropEntry, Clear, TypeOK
    <3> QED  BY <1>15, <2>1, <2>2, <2>3, <3>1, <3>2 DEF DropEntry, AssignEntry, TypeOK, Active
  <2>4. ASSUME NEW s \in EmptySlots,
               slots' = Occupy(s, [item |-> e.item, seq |-> e.seq,
                                   pos |-> e.len, out |-> 1]),
               UNCHANGED <<free, kv, replies>>
        PROVE  TypeOK'
    <3>1. [item |-> e.item, seq |-> e.seq, pos |-> e.len, out |-> 1] \in Slot
      BY <2>2 DEF Slot
    <3>2. Active' = Active \cup {s}
      BY <2>4 DEF Occupy, Active
    <3>3. slots' \in [Active' -> Slot]
      BY <2>4, <3>1, <3>2 DEF Occupy, TypeOK
    <3> QED  BY <1>15, <2>1, <2>4, <3>2, <3>3 DEF AssignEntry, TypeOK, EmptySlots
  <2> QED  BY <1>15, <2>3, <2>4 DEF AssignEntry, Results
<1>16. CASE AssignDone
  BY <1>16 DEF AssignDone, TypeOK, Active, PcValues
<1>17. CASE DecodeOk
  <2>1. PICK done \in SUBSET Active, bad \in SUBSET Active :
          /\ Retire(done, SeqsOf(Active))
          /\ slots' = [s \in Active \ done |->
                         [slots[s] EXCEPT !.pos = @ + 1, !.out = @ + 1]]
          /\ replies' = [i \in Items |->
                        IF i \in ItemsOf(bad) THEN Append(replies[i], "model")
                        ELSE IF i \in ItemsOf(done) THEN Append(replies[i], "ok")
                        ELSE replies[i]]
    BY <1>17 DEF DecodeOk
  <2>2. Active' = Active \ done /\ Active' \subseteq SlotIds
    BY <2>1 DEF Active, TypeOK
  <2>3. slots' \in [Active' -> Slot]
    <3>1. ASSUME NEW s \in Active
          PROVE  [slots[s] EXCEPT !.pos = @ + 1, !.out = @ + 1] \in Slot
      <4>1. slots[s] \in Slot
        BY DEF TypeOK
      <4>2. slots[s].pos + 1 \in Nat /\ slots[s].out + 1 \in Nat \ {0}
        BY <4>1 DEF Slot
      <4> QED  BY <4>1, <4>2 DEF Slot
    <3> QED  BY <2>1, <2>2, <3>1
  <2>4. free' \subseteq SeqIds /\ kv' \in [SeqIds -> Nat]
    BY <2>1, RetireTypes
  <2>5. replies' \in [Items -> Seq(Results)]
    <3>1. \A i \in Items : /\ replies[i] \in Seq(Results)
                          /\ Append(replies[i], "ok") \in Seq(Results)
                          /\ Append(replies[i], "model") \in Seq(Results)
      BY ReplyTypes DEF TypeOK, Results
    <3> QED  BY <2>1, <3>1
  <2> QED  BY <1>17, <2>2, <2>3, <2>4, <2>5 DEF DecodeOk, TypeOK, PcValues
<1>18. CASE DecodeFails
  <2>1. Active' = {} /\ slots' \in [Active' -> Slot]
    BY <1>18 DEF DecodeFails, Active
  <2>2. free' \subseteq SeqIds /\ kv' \in [SeqIds -> Nat]
    BY <1>18, RetireTypes DEF DecodeFails
  <2>3. replies' \in [Items -> Seq(Results)]
    BY <1>18 DEF DecodeFails, TypeOK, Results
  <2> QED  BY <1>18, <2>1, <2>2, <2>3 DEF DecodeFails, TypeOK, PcValues
<1>19. CASE Terminated \/ UNCHANGED vars
  BY <1>19 DEF Terminated, vars, TypeOK, Active
<1> QED
  BY <1>1, <1>2, <1>3, <1>4, <1>5, <1>6, <1>7, <1>8, <1>9, <1>10, <1>11, <1>12,
     <1>13, <1>14, <1>15, <1>16, <1>17, <1>18, <1>19
  DEF Next, Thread, Callers

\* Every local variable and channel of the thread keeps its type: no prompt
\* longer than max_prompt_tokens is ever queued for prefill, and the work
\* channel never exceeds its capacity.
THEOREM Typing == Spec => []TypeOK
<1>1. TypeOK /\ [Next]_vars => TypeOK'
  BY NextTypes
<1> QED  BY <1>1, InitTypes, PTL DEF Spec

-----------------------------------------------------------------------------
(* Slots, sequence ids and the batch *)

PoolInv == TypeOK /\ PoolsAgree /\ BatchFits

LEMMA EndThreadPools ==
  ASSUME EndThread
  PROVE  PoolsAgree' /\ BatchFits'
<1>1. Active' = {} /\ SeqsOf(Active)' = {}
  BY DEF EndThread, Active, SeqsOf
<1>2. entries' = <<>> /\ Len(entries') = 0 /\ EntrySeqs' = {}
  BY EmptySeq DEF EndThread, EntrySeqs
<1> QED  BY <1>1, <1>2 DEF EndThread, PoolsAgree, BatchFits

\* A step that leaves slots, entries and free ids alone keeps the pools.
LEMMA SamePools ==
  ASSUME PoolsAgree, UNCHANGED <<slots, free, entries>>
  PROVE  PoolsAgree' /\ Active' = Active /\ EmptySlots' = EmptySlots
BY DEF PoolsAgree, Active, SeqsOf, EntrySeqs, EmptySlots

LEMMA InitPools == Init => PoolsAgree /\ BatchFits
<1> SUFFICES ASSUME Init PROVE PoolsAgree /\ BatchFits
  OBVIOUS
<1>1. Active = {} /\ SeqsOf(Active) = {}
  BY DEF Init, Active, SeqsOf
<1>2. entries = <<>> /\ Len(entries) = 0 /\ EntrySeqs = {}
  BY EmptySeq DEF Init, EntrySeqs
<1> QED  BY <1>1, <1>2 DEF Init, PoolsAgree, BatchFits

\* Taking the next entry out of the batch takes its sequence out, too.
LEMMA NextEntry ==
  ASSUME TypeOK, PoolsAgree, entries # <<>>, entries' = Tail(entries)
  PROVE  /\ Head(entries).seq \in SeqIds \ SeqsOf(Active)
         /\ EntrySeqs' = EntrySeqs \ {Head(entries).seq}
         /\ Head(entries).seq \in EntrySeqs
         /\ \A j, k \in 1 .. Len(entries') :
              entries'[j].seq = entries'[k].seq => j = k
         /\ Len(entries') = Len(entries) - 1 /\ Len(entries) \in Nat \ {0}
<1>1. /\ Len(entries) \in Nat /\ Len(Tail(entries)) = Len(entries) - 1
      /\ \A j \in 1 .. Len(Tail(entries)) : Tail(entries)[j] = entries[j + 1]
      /\ Len(entries) # 0 /\ Head(entries) = entries[1]
  BY HeadTailProperties, LenProperties, EmptySeq DEF TypeOK
<1>2. \A j, k \in 1 .. Len(entries) : entries[j].seq = entries[k].seq => j = k
  BY DEF PoolsAgree
<1>3. \A j \in 1 .. Len(entries) : j = 1 \/ j - 1 \in 1 .. Len(Tail(entries))
  BY <1>1
<1>4. \A j \in 1 .. Len(Tail(entries)) : j + 1 \in 1 .. Len(entries) /\ j + 1 # 1
  BY <1>1
<1>5. 1 \in 1 .. Len(entries)
  BY <1>1
<1>6. EntrySeqs' = {Tail(entries)[j].seq : j \in 1 .. Len(Tail(entries))}
  BY DEF EntrySeqs
<1>7. EntrySeqs' = EntrySeqs \ {Head(entries).seq}
  <2>1. ASSUME NEW q \in EntrySeqs' PROVE q \in EntrySeqs \ {Head(entries).seq}
    <3>1. PICK j \in 1 .. Len(Tail(entries)) : q = entries[j + 1].seq
      BY <1>1, <1>6, <2>1
    <3> QED  BY <1>1, <1>2, <1>4, <1>5, <3>1 DEF EntrySeqs
  <2>2. ASSUME NEW q \in EntrySeqs \ {Head(entries).seq} PROVE q \in EntrySeqs'
    <3>1. PICK j \in 1 .. Len(entries) : q = entries[j].seq
      BY DEF EntrySeqs
    <3>2. j - 1 \in 1 .. Len(Tail(entries)) /\ (j - 1) + 1 = j
      BY <1>1, <1>3, <3>1
    <3> QED  BY <1>1, <1>6, <3>1, <3>2
  <2> QED  BY <2>1, <2>2
<1>8. \A j, k \in 1 .. Len(entries') : entries'[j].seq = entries'[k].seq => j = k
  BY <1>1, <1>2, <1>4
<1>9. Head(entries).seq \in EntrySeqs /\ EntrySeqs \subseteq SeqIds
  BY <1>1, <1>5, EntryTypes DEF EntrySeqs, TypeOK
<1> QED  BY <1>1, <1>7, <1>8, <1>9 DEF PoolsAgree

\* Adding an entry for a free sequence.
LEMMA AddEntry ==
  ASSUME TypeOK, PoolsAgree, NEW p \in PrefillEntry, p.seq \in free,
         entries' = Append(entries, p)
  PROVE  /\ EntrySeqs' = EntrySeqs \cup {p.seq}
         /\ \A j, k \in 1 .. Len(entries') :
              entries'[j].seq = entries'[k].seq => j = k
         /\ Len(entries') = Len(entries) + 1 /\ Len(entries) \in Nat
<1>1. /\ Len(entries) \in Nat /\ Len(entries') = Len(entries) + 1
      /\ \A j \in 1 .. Len(entries) : entries'[j] = entries[j]
      /\ entries'[Len(entries) + 1] = p
  BY AppendProperties, LenProperties DEF TypeOK
<1>2. \A j \in 1 .. Len(entries') : j = Len(entries) + 1 \/ j \in 1 .. Len(entries)
  BY <1>1
<1>3. Len(entries) + 1 \in 1 .. Len(entries')
  BY <1>1
<1>4. \A j \in 1 .. Len(entries) : j \in 1 .. Len(entries')
  BY <1>1
<1>5. EntrySeqs' = {entries'[j].seq : j \in 1 .. Len(entries')}
  BY DEF EntrySeqs
<1>6. EntrySeqs' = EntrySeqs \cup {p.seq}
  BY <1>1, <1>2, <1>3, <1>4, <1>5 DEF EntrySeqs
<1>7. \A j \in 1 .. Len(entries) : entries[j].seq # p.seq
  BY DEF PoolsAgree, EntrySeqs
<1>8. \A j, k \in 1 .. Len(entries') : entries'[j].seq = entries'[k].seq => j = k
  BY <1>1, <1>2, <1>7 DEF PoolsAgree
<1> QED  BY <1>1, <1>6, <1>8

\* Retiring a set of slots returns exactly their sequences.
LEMMA RetireSeqs ==
  ASSUME TypeOK, PoolsAgree, NEW S, S \subseteq Active,
         Active' = Active \ S,
         \A s \in Active' : slots'[s].seq = slots[s].seq,
         entries' = entries, free' = free \cup SeqsOf(S)
  PROVE  PoolsAgree'
<1>1. SeqsOf(Active)' = SeqsOf(Active) \ SeqsOf(S)
  <2>1. SeqsOf(Active)' = {slots'[s].seq : s \in Active'}
    BY DEF SeqsOf
  <2>2. \A s \in Active', t \in S : slots[s].seq # slots[t].seq
    BY DEF PoolsAgree
  <2>3. \A s \in Active : s \in S \/ s \in Active'
    OBVIOUS
  <2>4. ASSUME NEW q \in SeqsOf(Active)' PROVE q \in SeqsOf(Active) \ SeqsOf(S)
    BY <2>1, <2>2 DEF SeqsOf
  <2>5. ASSUME NEW q \in SeqsOf(Active) \ SeqsOf(S) PROVE q \in SeqsOf(Active)'
    BY <2>1, <2>3 DEF SeqsOf
  <2> QED  BY <2>4, <2>5
<1>2. SeqsOf(S) \subseteq SeqIds /\ SeqsOf(S) \subseteq SeqsOf(Active)
  BY SlotTypes DEF TypeOK, SeqsOf
<1>3. EntrySeqs' = EntrySeqs
  BY DEF EntrySeqs
<1>4. \A s, t \in Active' : slots'[s].seq = slots'[t].seq => s = t
  BY DEF PoolsAgree
<1> QED  BY <1>1, <1>2, <1>3, <1>4 DEF PoolsAgree

LEMMA NextPools == TypeOK /\ PoolsAgree /\ [Next]_vars => PoolsAgree'
<1> SUFFICES ASSUME TypeOK, PoolsAgree, [Next]_vars PROVE PoolsAgree'
  OBVIOUS
<1> USE DEF queueVars, collectVars, batchVars, slotVars
<1>1. CASE UNCHANGED <<slots, free, entries>>
  BY <1>1, SamePools
<1>2. CASE EndThread
  BY <1>2, EndThreadPools
<1>3. CASE BuildEntry
  <2> DEFINE p == Head(pending)
             e(q) == [item |-> p.item, len |-> p.len, seq |-> q]
  <2>1. CASE \E q \in free : /\ free' = free \ {q} /\ slots' = slots
                             /\ entries' = Append(entries, e(q))
    <3>1. PICK q \in free : /\ free' = free \ {q} /\ slots' = slots
                            /\ entries' = Append(entries, e(q))
      BY <2>1
    <3>2. p \in PendingPrefill
      BY <1>3, HeadTailProperties DEF BuildEntry, TypeOK
    <3>3. e(q) \in PrefillEntry /\ e(q).seq = q
      BY <3>2 DEF PendingPrefill, PrefillEntry, TypeOK
    <3>4. /\ EntrySeqs' = EntrySeqs \cup {q}
          /\ \A j, k \in 1 .. Len(entries') :
               entries'[j].seq = entries'[k].seq => j = k
      <4> HIDE DEF e
      <4> QED  BY <3>1, <3>3, AddEntry
    <3>5. Active' = Active /\ SeqsOf(Active)' = SeqsOf(Active)
      BY <3>1 DEF Active, SeqsOf
    <3> QED  BY <3>1, <3>4, <3>5 DEF PoolsAgree, TypeOK
  <2> QED  BY <1>1, <1>2, <1>3, <2>1 DEF BuildEntry
<1>4. CASE PrefillFails
  <2>1. slots' = slots /\ entries' = <<>> /\ free' = free \cup EntrySeqs
    BY <1>4 DEF PrefillFails
  <2>2. Active' = Active /\ SeqsOf(Active)' = SeqsOf(Active)
    BY <2>1 DEF Active, SeqsOf
  <2>3. Len(entries') = 0 /\ EntrySeqs' = {}
    BY <2>1, EmptySeq DEF EntrySeqs
  <2>4. EntrySeqs \subseteq SeqIds
    BY EntryTypes DEF TypeOK
  <2> QED  BY <2>1, <2>2, <2>3, <2>4 DEF PoolsAgree
<1>5. CASE AssignEntry
  <2> DEFINE e == Head(entries)
  <2>1. /\ e.seq \in SeqIds \ SeqsOf(Active) /\ e.seq \in EntrySeqs
        /\ EntrySeqs' = EntrySeqs \ {e.seq}
        /\ \A j, k \in 1 .. Len(entries') :
             entries'[j].seq = entries'[k].seq => j = k
    BY <1>5, NextEntry DEF AssignEntry
  <2>2. ASSUME NEW r, DropEntry(e, r)
        PROVE  PoolsAgree'
    <3>1. Active' = Active /\ SeqsOf(Active)' = SeqsOf(Active)
      BY <2>2 DEF DropEntry, Active, SeqsOf
    <3>2. free' = free \cup {e.seq} /\ slots' = slots
      BY <2>2 DEF DropEntry
    <3> QED  BY <2>1, <3>1, <3>2 DEF PoolsAgree
  <2>3. ASSUME NEW s \in EmptySlots, free' = free,
               slots' = Occupy(s, [item |-> e.item, seq |-> e.seq,
                                   pos |-> e.len, out |-> 1])
        PROVE  PoolsAgree'
    <3>1. /\ Active' = Active \cup {s} /\ s \notin Active
          /\ slots'[s].seq = e.seq
          /\ \A t \in Active : slots'[t] = slots[t]
      BY <2>3 DEF Occupy, Active, EmptySlots
    <3>2. SeqsOf(Active)' = SeqsOf(Active) \cup {e.seq}
      <4>1. SeqsOf(Active)' = {slots'[t].seq : t \in Active \cup {s}}
        BY <3>1 DEF SeqsOf
      <4> QED  BY <3>1, <4>1 DEF SeqsOf
    <3>3. \A t \in Active : slots[t].seq # e.seq
      BY <2>1 DEF SeqsOf
    <3>4. \A t, u \in Active' : slots'[t].seq = slots'[u].seq => t = u
      BY <3>1, <3>3 DEF PoolsAgree
    <3> QED  BY <2>1, <2>3, <3>2, <3>4 DEF PoolsAgree
  <2> QED  BY <1>5, <2>2, <2>3 DEF AssignEntry
<1>6. CASE DecodeOk
  <2>1. PICK done \in SUBSET Active :
          /\ Retire(done, SeqsOf(Active))
          /\ slots' = [s \in Active \ done |->
                         [slots[s] EXCEPT !.pos = @ + 1, !.out = @ + 1]]
    BY <1>6 DEF DecodeOk
  <2>2. Active' = Active \ done
    BY <2>1 DEF Active
  <2>3. ASSUME NEW s \in Active \ done PROVE slots'[s].seq = slots[s].seq
    <3>1. slots[s] \in Slot
      BY DEF TypeOK
    <3> QED  BY <2>1, <3>1 DEF Slot
  <2> QED  BY <1>6, <2>1, <2>2, <2>3, RetireSeqs DEF DecodeOk, Retire
<1>7. CASE DecodeFails
  <2>1. Active' = Active \ Active
    BY <1>7 DEF DecodeFails, Active
  <2> QED  BY <1>7, <2>1, RetireSeqs DEF DecodeFails, Retire
<1>8. CASE Terminated \/ UNCHANGED vars \/ Callers
  BY <1>1, <1>8 DEF Terminated, vars, Callers, CloseChannel, Submit
<1>9. CASE ContextFails \/ Panic \/ Shutdown
  BY <1>2, <1>9 DEF ContextFails, Panic, Shutdown
<1>10. CASE \/ CreateContext \/ FillTop \/ Refill \/ Collect \/ CollectDone
            \/ IdleReceive \/ Accumulate \/ AccumulateDone \/ PrefillOk
  BY <1>1, <1>10 DEF CreateContext, FillTop, Refill, StartFill, Collect,
     CollectDone, IdleReceive, Accumulate, AccumulateDone, PrefillOk
<1>11. CASE AssignDone
  BY <1>1, <1>11 DEF AssignDone
<1> QED
  BY <1>3, <1>4, <1>5, <1>6, <1>7, <1>8, <1>9, <1>10, <1>11 DEF Next, Thread

\* No sequence id is ever lost, handed out twice, or held by two requests: the
\* free ids are exactly those of no slot and no entry of the batch.
THEOREM PoolSafety == Spec => []PoolsAgree
<1>1. TypeOK /\ PoolsAgree /\ [Next]_vars => (TypeOK /\ PoolsAgree)'
  BY NextTypes, NextPools
<1>2. Init => TypeOK /\ PoolsAgree
  BY InitTypes, InitPools
<1> QED  BY <1>1, <1>2, PTL DEF Spec

\* Fewer active slots leave more empty ones.
LEMMA EmptyShrinks ==
  ASSUME TypeOK, NEW s \in EmptySlots, Active' = Active \cup {s}
  PROVE  /\ Cardinality(EmptySlots) \in Nat
         /\ Cardinality(EmptySlots)' = Cardinality(EmptySlots) - 1
<1>1. IsFiniteSet(EmptySlots) /\ Cardinality(EmptySlots) \in Nat
  BY CountSlots DEF TypeOK
<1>2. EmptySlots' = EmptySlots \ {s}
  BY DEF EmptySlots
<1>3. Cardinality(EmptySlots \ {s}) = Cardinality(EmptySlots) - 1
  BY <1>1, FS_RemoveElement
<1> QED  BY <1>1, <1>2, <1>3

LEMMA NextFits == PoolInv /\ [Next]_vars => BatchFits'
<1> SUFFICES ASSUME TypeOK, PoolsAgree, BatchFits, [Next]_vars PROVE BatchFits'
  BY DEF PoolInv
<1> USE DEF queueVars, collectVars, batchVars, slotVars
<1>1. /\ Len(pending) \in Nat /\ Len(carry) \in Nat /\ Len(entries) \in Nat
      /\ room \in Nat /\ batchTokens \in Nat /\ MaxPrompt \in Nat
      /\ Cardinality(EmptySlots) \in Nat
      /\ Len(<<>>) = 0
  BY LenProperties, MaxPromptType, CountSlots, EmptySeq DEF TypeOK
<1>2. TypeOK'
  BY NextTypes
<1>3. CASE EndThread
  BY <1>3, EndThreadPools
<1>4. slots' = slots => Active' = Active /\ EmptySlots' = EmptySlots
  BY DEF Active, EmptySlots
<1>5. CASE UNCHANGED <<pc, pending, room, entries, batchTokens, slots>>
  BY <1>4, <1>5 DEF BatchFits
<1>6. CASE CreateContext
  BY <1>4, <1>6 DEF CreateContext, BatchFits
<1>7. CASE FillTop \/ Refill
  <2>1. PICK next \in {"dispatch", "fill"} : StartFill(next)
    BY <1>7 DEF FillTop, Refill
  <2>2. Len(pending') + room' = Cardinality(EmptySlots)
    BY <2>1, StartFillTypes
  <2>3. pc' = "collect" /\ EmptySlots' = EmptySlots /\ Active' = Active
        /\ entries' = <<>> /\ batchTokens' = 0
    BY <1>4, <1>7, <2>1 DEF StartFill, FillTop, Refill, BatchFits
  <2>4. Len(pending') \in Nat /\ room' \in Nat
    BY <1>2, LenProperties DEF TypeOK
  <2> QED  BY <1>1, <2>2, <2>3, <2>4 DEF BatchFits
<1>8. CASE Collect
  <2>1. /\ Len(pending') <= Len(pending) + 1 /\ room' = room - 1
        /\ Len(pending') \in Nat
    BY <1>2, <1>8, TokenizeTypes, LenProperties DEF Collect, TypeOK
  <2>2. pc = "collect" /\ pc' = "collect" /\ UNCHANGED <<entries, batchTokens, slots>>
    BY <1>8 DEF Collect
  <2> QED  BY <1>1, <1>4, <2>1, <2>2 DEF BatchFits
<1>9. CASE CollectDone
  <2>1. /\ pc = "collect" /\ room' = 0
        /\ pc' = IF pending = <<>> THEN after ELSE "build"
        /\ UNCHANGED <<pending, entries, batchTokens, slots>>
        /\ after \in {"dispatch", "fill"}
    BY <1>9 DEF CollectDone, TypeOK
  <2>2. entries = <<>> /\ batchTokens = 0 /\ Len(entries) * MaxPrompt = 0
    BY <1>1, <2>1 DEF BatchFits
  <2> QED  BY <1>1, <1>4, <2>1, <2>2 DEF BatchFits
<1>10. CASE IdleReceive
  BY <1>1, <1>4, <1>10 DEF IdleReceive, BatchFits
<1>11. CASE Accumulate
  BY <1>1, <1>4, <1>11 DEF Accumulate, BatchFits
<1>12. CASE AccumulateDone
  <2>1. /\ pc = "accumulate" /\ UNCHANGED <<room, entries, batchTokens, slots>>
        /\ pc' = IF pending = <<>> THEN "fill" ELSE "build"
        /\ pending' = IF Overflow THEN SubSeq(pending, 1, NSlots) ELSE pending
    BY <1>12 DEF AccumulateDone
  <2>2. /\ entries = <<>> /\ batchTokens = 0 /\ Len(entries) * MaxPrompt = 0
        /\ room = 0 /\ Active = {}
    BY <1>1, <2>1 DEF BatchFits
  <2>3. Cardinality(EmptySlots) = NSlots
    <3>1. EmptySlots = SlotIds
      BY <2>2 DEF EmptySlots
    <3> QED  BY <3>1, SlotsPositive, FS_Interval DEF SlotIds
  <2>4. Len(pending') <= NSlots /\ Len(pending') \in Nat
    <3>1. CASE Overflow
      <4>1. NSlots \in 0 .. Len(pending)
        BY <1>1, <3>1, SlotsPositive DEF Overflow
      <4>2. Len(SubSeq(pending, 1, NSlots)) = NSlots
        BY <4>1, TakeAndDrop DEF TypeOK
      <4> QED  BY <2>1, <3>1, <4>2, SlotsPositive
    <3>2. CASE ~Overflow
      BY <1>1, <2>1, <3>2, SlotsPositive DEF Overflow
    <3> QED  BY <3>1, <3>2
  <2>5. pending = <<>> => pending' = <<>>
    BY <1>1, <2>1, SlotsPositive DEF Overflow
  <2> QED  BY <1>1, <1>4, <2>1, <2>2, <2>3, <2>4, <2>5 DEF BatchFits
<1>13. CASE BuildEntry
  <2> DEFINE p == Head(pending)
  <2>1. /\ pc = "build" /\ pending # <<>> /\ p.len \in 1 .. MaxPrompt
        /\ Len(Tail(pending)) = Len(pending) - 1
    <3>1. p \in PendingPrefill /\ Len(Tail(pending)) = Len(pending) - 1
      BY <1>13, HeadTailProperties DEF BuildEntry, TypeOK
    <3> QED  BY <1>13, <3>1 DEF BuildEntry, PendingPrefill
  <2>2. CASE /\ pending' = Tail(pending)
             /\ UNCHANGED <<pc, room, entries, batchTokens, slots>>
    BY <1>1, <1>4, <2>1, <2>2 DEF BatchFits
  <2>3. CASE /\ pending' = Tail(pending) /\ batchTokens' = batchTokens + p.len
             /\ \E x : entries' = Append(entries, x)
             /\ UNCHANGED <<pc, room, slots>>
    <3>1. Len(entries') = Len(entries) + 1
      <4>1. PICK x : entries' = Append(entries, x)
        BY <2>3
      <4>2. entries \in Seq(PrefillEntry) /\ entries' \in Seq(PrefillEntry)
        BY <1>2 DEF TypeOK
      <4> QED  BY <4>1, <4>2
    <3>2. (Len(entries) + 1) * MaxPrompt = Len(entries) * MaxPrompt + MaxPrompt
      BY <1>1
    <3>3. batchTokens <= Len(entries) * MaxPrompt /\ Len(entries) * MaxPrompt \in Nat
      BY <1>1, <2>1 DEF BatchFits
    <3>4. batchTokens' <= (Len(entries) + 1) * MaxPrompt
      BY <1>1, <2>1, <2>3, <3>2, <3>3
    <3> QED  BY <1>1, <1>4, <2>1, <2>3, <3>1, <3>4 DEF BatchFits
  <2> QED  BY <1>3, <1>13, <2>2, <2>3 DEF BuildEntry
<1>14. CASE PrefillOk
  BY <1>1, <1>4, <1>14 DEF PrefillOk, BatchFits
<1>15. CASE PrefillFails
  <2>1. /\ pc = "build" /\ entries' = <<>> /\ batchTokens' = 0
        /\ pending' = <<>> /\ room' = room /\ pc' \in {"dispatch", "fill"}
    BY <1>15 DEF PrefillFails, TypeOK
  <2> QED  BY <2>1 DEF BatchFits
<1>16. CASE AssignEntry
  <2>1. /\ pc = "assign" /\ pc' = "assign"
        /\ UNCHANGED <<pending, room>> /\ Len(entries') = Len(entries) - 1
        /\ Len(entries') \in Nat
    <3>1. Len(entries') = Len(entries) - 1 /\ Len(entries) \in Nat \ {0}
      BY <1>16, NextEntry DEF AssignEntry
    <3> QED  BY <1>16, <3>1 DEF AssignEntry
  <2>2. CASE slots' = slots
    BY <1>1, <1>4, <2>1, <2>2 DEF BatchFits
  <2>3. CASE \E s \in EmptySlots : \E slot : slots' = Occupy(s, slot)
    <3>1. PICK s \in EmptySlots : \E slot : slots' = Occupy(s, slot)
      BY <2>3
    <3>2. Active' = Active \cup {s}
      BY <3>1 DEF Occupy, Active
    <3>3. Cardinality(EmptySlots)' = Cardinality(EmptySlots) - 1
      BY <3>2, EmptyShrinks
    <3> QED  BY <1>1, <2>1, <3>3 DEF BatchFits
  <2> QED  BY <1>16, <2>2, <2>3 DEF AssignEntry, DropEntry
<1>17. CASE AssignDone
  BY <1>1, <1>17 DEF AssignDone, BatchFits, TypeOK
<1>18. CASE DecodeOk \/ DecodeFails
  BY <1>18 DEF DecodeOk, DecodeFails, BatchFits
<1>19. CASE Terminated \/ UNCHANGED vars \/ Callers
  BY <1>5, <1>19 DEF Terminated, vars, Callers, CloseChannel, Submit
<1>20. CASE ContextFails \/ Panic \/ Shutdown
  BY <1>3, <1>20 DEF ContextFails, Panic, Shutdown
<1> QED
  BY <1>6, <1>7, <1>8, <1>9, <1>10, <1>11, <1>12, <1>13, <1>14, <1>15, <1>16,
     <1>17, <1>18, <1>19, <1>20 DEF Next, Thread

\* The occupied slots and the batch use as many sequences as they are, so that a
\* waiting prompt leaves a sequence free.
LEMMA FreeSequence ==
  ASSUME PoolInv, pc = "build", pending # <<>>
  PROVE  free # {}
<1>1. /\ Len(pending) \in Nat \ {0} /\ Len(entries) \in Nat /\ room \in Nat
      /\ Len(pending) + room + Len(entries) <= Cardinality(EmptySlots)
  BY LenProperties, EmptySeq DEF PoolInv, TypeOK, BatchFits
<1>2. /\ IsFiniteSet(Active) /\ Cardinality(Active) \in Nat
      /\ Cardinality(EmptySlots) = NSlots - Cardinality(Active)
  BY CountSlots DEF PoolInv, TypeOK
<1>3. IsFiniteSet(SeqsOf(Active)) /\ Cardinality(SeqsOf(Active)) <= Cardinality(Active)
  <2> DEFINE f == [s \in Active |-> slots[s].seq]
  <2>1. f \in Surjection(Active, SeqsOf(Active))
    BY DEF Surjection, SeqsOf
  <2> QED  BY <1>2, <2>1, FS_Surjection
<1>4. IsFiniteSet(EntrySeqs) /\ Cardinality(EntrySeqs) <= Len(entries)
  <2> DEFINE f == [j \in 1 .. Len(entries) |-> entries[j].seq]
  <2>1. f \in Surjection(1 .. Len(entries), EntrySeqs)
    BY DEF Surjection, EntrySeqs
  <2>2. IsFiniteSet(1 .. Len(entries)) /\ Cardinality(1 .. Len(entries)) = Len(entries)
    <3>1. Len(entries) \in Int /\ 1 \in Int
      BY <1>1
    <3>2. /\ IsFiniteSet(1 .. Len(entries))
          /\ Cardinality(1 .. Len(entries))
               = IF 1 > Len(entries) THEN 0 ELSE Len(entries) - 1 + 1
      BY <3>1, FS_Interval
    <3> QED  BY <1>1, <3>2
  <2> QED  BY <2>1, <2>2, FS_Surjection
<1>5. /\ IsFiniteSet(SeqsOf(Active) \cup EntrySeqs)
      /\ Cardinality(SeqsOf(Active) \cup EntrySeqs) \in Nat
      /\ Cardinality(SeqsOf(Active) \cup EntrySeqs)
           <= Cardinality(Active) + Len(entries)
  <2>1. SeqsOf(Active) \cap EntrySeqs = {}
    BY DEF PoolInv, PoolsAgree
  <2>2. /\ Cardinality(SeqsOf(Active)) \in Nat /\ Cardinality(EntrySeqs) \in Nat
        /\ Cardinality(SeqsOf(Active) \cap EntrySeqs) = 0
    BY <1>3, <1>4, <2>1, FS_EmptySet, FS_CardinalityType
  <2>3. /\ IsFiniteSet(SeqsOf(Active) \cup EntrySeqs)
        /\ Cardinality(SeqsOf(Active) \cup EntrySeqs)
             = Cardinality(SeqsOf(Active)) + Cardinality(EntrySeqs)
                 - Cardinality(SeqsOf(Active) \cap EntrySeqs)
    BY <1>3, <1>4, FS_Union
  <2> QED  BY <1>1, <1>2, <1>3, <1>4, <2>2, <2>3
<1>6. Cardinality(SeqsOf(Active) \cup EntrySeqs) < NSlots
  BY <1>1, <1>2, <1>5, SlotsPositive
<1>7. Cardinality(SeqIds) = NSlots
  BY SlotsPositive, FS_Interval DEF SeqIds
<1>8. SUFFICES ASSUME free = {} PROVE FALSE
  OBVIOUS
<1>9. SeqIds \subseteq SeqsOf(Active) \cup EntrySeqs
  BY <1>8 DEF PoolInv, PoolsAgree
<1>10. Cardinality(SeqIds) <= Cardinality(SeqsOf(Active) \cup EntrySeqs)
  BY <1>5, <1>9, FS_Subset
<1> QED  BY <1>5, <1>6, <1>7, <1>10, SlotsPositive

LEMMA PoolInvSuffices == PoolInv => ResourcesSuffice
<1> SUFFICES ASSUME PoolInv PROVE ResourcesSuffice
  OBVIOUS
<1>1. /\ Len(entries) \in Nat /\ Len(pending) \in Nat /\ room \in Nat
      /\ batchTokens \in Nat /\ MaxPrompt \in Nat /\ MaxPrompt <= KvBudget
      /\ Cardinality(EmptySlots) \in Nat
      /\ Cardinality(EmptySlots) = NSlots - Cardinality(Active)
      /\ Cardinality(Active) \in Nat
  BY LenProperties, MaxPromptType, CountSlots DEF PoolInv, TypeOK
<1>2. ASSUME pc = "build", pending # <<>>
      PROVE  free # {} /\ batchTokens + Head(pending).len <= NCtx
  <2>1. Head(pending).len \in 1 .. MaxPrompt /\ Len(pending) # 0
    <3>1. Head(pending) \in PendingPrefill
      BY <1>2, HeadTailProperties DEF PoolInv, TypeOK
    <3> QED  BY <1>1, <1>2, <3>1, EmptySeq DEF PendingPrefill, PoolInv, TypeOK
  <2>2. batchTokens <= Len(entries) * MaxPrompt /\ Len(entries) + 1 <= NSlots
    <3>1. batchTokens <= Len(entries) * MaxPrompt
      BY <1>2 DEF PoolInv, BatchFits
    <3>2. Len(pending) + room + Len(entries) <= Cardinality(EmptySlots)
      BY <1>2 DEF PoolInv, BatchFits
    <3>3. Len(entries) + 1 <= NSlots
      BY <1>1, <2>1, <3>2, SlotsPositive
    <3> QED  BY <3>1, <3>3
  <2>3. \A a, b, c, d \in Nat : a <= b /\ c <= d => a * c <= b * d
    OBVIOUS
  <2>4. (Len(entries) + 1) * MaxPrompt <= NSlots * KvBudget
    BY <1>1, <2>2, <2>3, SlotsPositive, BudgetsNatural
  <2>5. (Len(entries) + 1) * MaxPrompt = Len(entries) * MaxPrompt + MaxPrompt
    BY <1>1
  <2>6. Len(entries) * MaxPrompt \in Nat /\ NSlots * KvBudget \in Nat
    BY <1>1, SlotsPositive, BudgetsNatural
  <2>7. batchTokens + Head(pending).len <= NSlots * KvBudget
    BY <1>1, <2>1, <2>2, <2>4, <2>5, <2>6
  <2> QED  BY <1>2, <2>7, FreeSequence DEF NCtx
<1>3. ASSUME pc = "assign", entries # <<>>
      PROVE  EmptySlots # {}
  <2>1. Len(entries) # 0
    BY <1>3, EmptySeq DEF PoolInv, TypeOK
  <2>2. Cardinality(EmptySlots) # 0
    BY <1>1, <1>3, <2>1 DEF PoolInv, BatchFits
  <2> QED  BY <2>2, FS_EmptySet
<1> QED  BY <1>2, <1>3 DEF ResourcesSuffice

\* "no free seq_id", "no empty slot available" and the panic of a full prefill
\* batch never happen, whatever the load, the budgets and the faults.
THEOREM ResourceSafety == Spec => []ResourcesSuffice
<1>1. PoolInv /\ [Next]_vars => PoolInv'
  BY NextTypes, NextPools, NextFits DEF PoolInv
<1>2. Init => PoolInv
  BY InitTypes, InitPools DEF PoolInv
<1> QED  BY <1>1, <1>2, PoolInvSuffices, PTL DEF Spec

-----------------------------------------------------------------------------
(* The cache *)

LEMMA EndThreadCache ==
  ASSUME EndThread
  PROVE  CacheInStep'
<1>1. Active' = {}
  BY DEF EndThread, Active
<1>2. Len(entries') = 0
  BY EmptySeq DEF EndThread
<1> QED  BY <1>1, <1>2 DEF EndThread, CacheInStep

LEMMA InitCache == Init => CacheInStep
<1> SUFFICES ASSUME Init PROVE CacheInStep
  OBVIOUS
<1>1. Active = {}
  BY DEF Init, Active
<1>2. Len(entries) = 0
  BY EmptySeq DEF Init
<1> QED  BY <1>1, <1>2 DEF Init, CacheInStep

LEMMA NextCache == PoolInv /\ CacheInStep /\ [Next]_vars => CacheInStep'
<1> SUFFICES ASSUME TypeOK, PoolsAgree, BatchFits, CacheInStep, [Next]_vars
             PROVE  CacheInStep'
  BY DEF PoolInv
<1> USE DEF queueVars, collectVars, batchVars, slotVars
<1>1. /\ Len(entries) \in Nat
      /\ \A j \in 1 .. Len(entries) : /\ entries[j].seq \in SeqIds
                                      /\ entries[j].seq \in EntrySeqs
                                      /\ entries[j].len \in Nat
      /\ EntrySeqs \subseteq SeqIds
  BY EntryTypes, MaxPromptType DEF TypeOK, EntrySeqs
<1>2. /\ \A s \in Active : /\ slots[s].seq \in SeqIds
                           /\ slots[s].seq \in SeqsOf(Active)
                           /\ slots[s].pos \in Nat
  BY SlotTypes DEF TypeOK, SeqsOf
<1>3. /\ SeqsOf(Active) \cap EntrySeqs = {} /\ free \cap EntrySeqs = {}
      /\ free \cap SeqsOf(Active) = {} /\ free \subseteq SeqIds
  BY DEF PoolsAgree
<1>4. CASE EndThread
  BY <1>4, EndThreadCache
<1>5. CASE /\ UNCHANGED <<slots, free, kv, entries>>
           /\ pc' = pc \/ entries = <<>> \/ (pc # "assign" /\ pc' # "assign")
  <2>1. Active' = Active
    BY <1>5 DEF Active
  <2>2. entries = <<>> => Len(entries) = 0
    BY EmptySeq
  <2> QED  BY <1>1, <1>5, <2>1, <2>2 DEF CacheInStep
<1>6. CASE BuildEntry
  <2> DEFINE p == Head(pending)
             e(q) == [item |-> p.item, len |-> p.len, seq |-> q]
  <2>1. CASE \E q \in free : /\ free' = free \ {q}
                             /\ entries' = Append(entries, e(q))
                             /\ UNCHANGED <<pc, slots, kv>>
    <3>1. PICK q \in free : /\ free' = free \ {q}
                            /\ entries' = Append(entries, e(q))
                            /\ UNCHANGED <<pc, slots, kv>>
      BY <2>1
    <3>2. e(q) \in PrefillEntry
      <4>1. p \in PendingPrefill
        BY <1>6, HeadTailProperties DEF BuildEntry, TypeOK
      <4> QED  BY <4>1 DEF PendingPrefill, PrefillEntry, TypeOK
    <3>3. /\ Len(entries') = Len(entries) + 1
          /\ \A j \in 1 .. Len(entries) : entries'[j] = entries[j]
          /\ entries'[Len(entries) + 1] = e(q)
      BY <3>1, <3>2, AppendProperties DEF TypeOK
    <3>4. \A j \in 1 .. Len(entries') : j = Len(entries) + 1 \/ j \in 1 .. Len(entries)
      BY <1>1, <3>3
    <3>5. pc = "build" /\ Active' = Active
      BY <1>6, <3>1 DEF BuildEntry, Active
    <3>6. \A j \in 1 .. Len(entries') : kv'[entries'[j].seq] = 0
      <4>1. kv[q] = 0
        BY DEF CacheInStep
      <4> QED  BY <3>1, <3>3, <3>4, <3>5, <4>1 DEF CacheInStep
    <3> QED  BY <3>1, <3>5, <3>6 DEF CacheInStep
  <2> QED  BY <1>4, <1>5, <1>6, <2>1 DEF BuildEntry
<1>7. CASE PrefillOk
  <2>1. ASSUME NEW j \in 1 .. Len(entries)
        PROVE  kv'[entries[j].seq] = entries[j].len
    <3>1. \A k \in 1 .. Len(entries) : entries[k].seq = entries[j].seq => k = j
      BY DEF PoolsAgree
    <3>2. PromptOf(entries[j].seq) = entries[j].len
      BY <3>1 DEF PromptOf
    <3>3. kv[entries[j].seq] = 0
      BY <1>7 DEF PrefillOk, CacheInStep
    <3> QED  BY <1>1, <1>7, <3>2, <3>3 DEF PrefillOk
  <2>2. \A q \in SeqIds \ EntrySeqs : kv'[q] = kv[q]
    BY <1>7 DEF PrefillOk
  <2>3. /\ Active' = Active
        /\ UNCHANGED <<slots, free, entries>> /\ pc' = "assign"
    BY <1>7 DEF PrefillOk, Active
  <2> QED  BY <1>2, <1>3, <2>1, <2>2, <2>3 DEF CacheInStep
<1>8. CASE PrefillFails
  <2>1. /\ Active' = Active /\ Len(entries') = 0
        /\ slots' = slots /\ free' = free \cup EntrySeqs
        /\ kv' = [q \in SeqIds |-> IF q \in EntrySeqs THEN 0 ELSE kv[q]]
    BY <1>8, EmptySeq DEF PrefillFails, Active, Clear
  <2> QED  BY <1>1, <1>2, <1>3, <2>1 DEF CacheInStep
<1>9. CASE AssignEntry
  <2> DEFINE e == Head(entries)
  <2>1. /\ e.seq \in SeqIds \ SeqsOf(Active) /\ e.seq \in EntrySeqs
        /\ EntrySeqs' = EntrySeqs \ {e.seq} /\ Len(entries) \in Nat \ {0}
    BY <1>9, NextEntry DEF AssignEntry
  <2>2. /\ Len(entries') = Len(entries) - 1 /\ e = entries[1]
        /\ \A j \in 1 .. Len(entries') : entries'[j] = entries[j + 1]
    BY <1>9, HeadTailProperties DEF AssignEntry, TypeOK
  <2>3. \A j \in 1 .. Len(entries') : /\ entries'[j].seq \in EntrySeqs \ {e.seq}
                                      /\ j + 1 \in 1 .. Len(entries)
    <3>1. \A j \in 1 .. Len(entries') : entries'[j].seq \in EntrySeqs'
      BY DEF EntrySeqs
    <3> QED  BY <2>1, <2>2, <3>1
  <2>4. /\ pc = "assign" /\ pc' = "assign" /\ 1 \in 1 .. Len(entries)
        /\ kv[e.seq] = e.len
    BY <1>9, <2>1, <2>2 DEF AssignEntry, CacheInStep
  <2>5. \A j \in 1 .. Len(entries') : kv[entries'[j].seq] = entries'[j].len
    BY <2>2, <2>3, <2>4 DEF CacheInStep
  <2>6. ASSUME NEW r, DropEntry(e, r)
        PROVE  CacheInStep'
    <3>1. /\ Active' = Active /\ slots' = slots /\ free' = free \cup {e.seq}
          /\ kv' = [q \in SeqIds |-> IF q \in {e.seq} THEN 0 ELSE kv[q]]
      BY <2>6 DEF DropEntry, Active, Clear
    <3>2. \A j \in 1 .. Len(entries') : kv'[entries'[j].seq] = entries'[j].len
      BY <1>1, <2>3, <2>5, <3>1
    <3> QED  BY <1>2, <1>3, <2>1, <2>4, <3>1, <3>2 DEF CacheInStep
  <2>7. ASSUME NEW s \in EmptySlots, UNCHANGED <<free, kv>>,
               slots' = Occupy(s, [item |-> e.item, seq |-> e.seq,
                                   pos |-> e.len, out |-> 1])
        PROVE  CacheInStep'
    <3>1. /\ Active' = Active \cup {s}
          /\ slots'[s].seq = e.seq /\ slots'[s].pos = e.len
          /\ \A t \in Active : slots'[t] = slots[t]
      BY <2>7 DEF Occupy, Active, EmptySlots
    <3> QED  BY <2>4, <2>5, <2>7, <3>1 DEF CacheInStep
  <2> QED  BY <1>9, <2>6, <2>7 DEF AssignEntry
<1>10. CASE AssignDone
  BY <1>5, <1>10 DEF AssignDone
<1>11. CASE DecodeOk
  <2>1. PICK done \in SUBSET Active :
          /\ Retire(done, SeqsOf(Active))
          /\ slots' = [s \in Active \ done |->
                         [slots[s] EXCEPT !.pos = @ + 1, !.out = @ + 1]]
    BY <1>11 DEF DecodeOk
  <2>2. /\ Active' = Active \ done /\ free' = free \cup SeqsOf(done)
        /\ kv' = [q \in SeqIds |-> IF q \in SeqsOf(done) THEN 0
                              ELSE IF q \in SeqsOf(Active) THEN kv[q] + 1 ELSE kv[q]]
    BY <2>1 DEF Active, Retire
  <2>3. SeqsOf(done) \subseteq SeqsOf(Active)
    BY DEF SeqsOf
  <2>4. ASSUME NEW s \in Active \ done
        PROVE  kv'[slots'[s].seq] = slots'[s].pos
    <3>1. slots[s] \in Slot
      BY DEF TypeOK
    <3>2. slots'[s].seq = slots[s].seq /\ slots'[s].pos = slots[s].pos + 1
      BY <2>1, <3>1 DEF Slot
    <3>3. slots[s].seq \notin SeqsOf(done)
      BY DEF PoolsAgree, SeqsOf
    <3> QED  BY <1>2, <2>2, <3>2, <3>3 DEF CacheInStep
  <2>5. entries = <<>> /\ entries' = entries /\ Len(<<>>) = 0
    BY <1>11, EmptySeq DEF DecodeOk, BatchFits
  <2>6. \A q \in free' : kv'[q] = 0
    BY <1>3, <2>2, <2>3, SlotTypes DEF CacheInStep, TypeOK
  <2> QED  BY <2>2, <2>4, <2>5, <2>6 DEF CacheInStep
<1>12. CASE DecodeFails
  <2>1. /\ Active' = {} /\ free' = free \cup SeqsOf(Active)
        /\ kv' = [q \in SeqIds |-> IF q \in SeqsOf(Active) THEN 0
                                   ELSE IF q \in {} THEN kv[q] + 1 ELSE kv[q]]
    BY <1>12 DEF DecodeFails, Retire, Active
  <2>2. entries = <<>> /\ entries' = entries /\ Len(<<>>) = 0
    BY <1>12, EmptySeq DEF DecodeFails, BatchFits
  <2> QED  BY <1>3, <2>1, <2>2, SlotTypes DEF CacheInStep, TypeOK
<1>13. CASE Terminated \/ UNCHANGED vars \/ Callers
  BY <1>5, <1>13 DEF Terminated, vars, Callers, CloseChannel, Submit
<1>14. CASE ContextFails \/ Panic \/ Shutdown
  BY <1>4, <1>14 DEF ContextFails, Panic, Shutdown
<1>15. CASE \/ CreateContext \/ FillTop \/ Refill \/ Collect \/ CollectDone
            \/ IdleReceive \/ Accumulate \/ AccumulateDone
  BY <1>5, <1>15 DEF CreateContext, FillTop, Refill, StartFill, Collect,
     CollectDone, IdleReceive, Accumulate, AccumulateDone, TypeOK
<1> QED
  BY <1>6, <1>7, <1>8, <1>9, <1>10, <1>11, <1>12, <1>13, <1>14, <1>15
  DEF Next, Thread

\* A slot's position always equals the number of its sequence's cells, and a
\* sequence is handed out empty: no translation continues in another's cache.
THEOREM CacheSafety == Spec => []CacheInStep
<1>1. PoolInv /\ CacheInStep /\ [Next]_vars => (PoolInv /\ CacheInStep)'
  BY NextTypes, NextPools, NextFits, NextCache DEF PoolInv
<1>2. Init => PoolInv /\ CacheInStep
  BY InitTypes, InitPools, InitCache DEF PoolInv
<1> QED  BY <1>1, <1>2, PTL DEF Spec

-----------------------------------------------------------------------------
(* Items and replies *)

LEMMA TailItems ==
  ASSUME NEW T, NEW seq \in Seq(T), seq # <<>>, DistinctItems(seq)
  PROVE  /\ Head(seq).item \in ItemsIn(seq)
         /\ ItemsIn(Tail(seq)) = ItemsIn(seq) \ {Head(seq).item}
         /\ DistinctItems(Tail(seq))
<1>1. /\ Len(seq) \in Nat /\ Len(Tail(seq)) = Len(seq) - 1
      /\ \A j \in 1 .. Len(Tail(seq)) : Tail(seq)[j] = seq[j + 1]
      /\ Len(seq) # 0 /\ Head(seq) = seq[1]
  BY HeadTailProperties, LenProperties, EmptySeq
<1>2. /\ \A j \in 1 .. Len(seq) : j = 1 \/ (j - 1 \in 1 .. Len(Tail(seq)) /\ (j - 1) + 1 = j)
      /\ \A j \in 1 .. Len(Tail(seq)) : j + 1 \in 1 .. Len(seq) /\ j + 1 # 1
      /\ 1 \in 1 .. Len(seq)
  BY <1>1
<1>3. ASSUME NEW i \in ItemsIn(Tail(seq)) PROVE i \in ItemsIn(seq) \ {Head(seq).item}
  <2>1. PICK j \in 1 .. Len(Tail(seq)) : i = seq[j + 1].item
    BY <1>1, <1>3 DEF ItemsIn
  <2> QED  BY <1>1, <1>2, <2>1 DEF ItemsIn, DistinctItems
<1>4. ASSUME NEW i \in ItemsIn(seq) \ {Head(seq).item} PROVE i \in ItemsIn(Tail(seq))
  <2>1. PICK j \in 1 .. Len(seq) : i = seq[j].item
    BY DEF ItemsIn
  <2>2. j - 1 \in 1 .. Len(Tail(seq)) /\ Tail(seq)[j - 1] = seq[j]
    BY <1>1, <1>2, <2>1
  <2> QED  BY <2>1, <2>2 DEF ItemsIn
<1>5. DistinctItems(Tail(seq))
  BY <1>1, <1>2 DEF DistinctItems
<1> QED  BY <1>1, <1>2, <1>3, <1>4, <1>5 DEF ItemsIn

LEMMA AppendItems ==
  ASSUME NEW T, NEW seq \in Seq(T), NEW x \in T
  PROVE  /\ ItemsIn(Append(seq, x)) = ItemsIn(seq) \cup {x.item}
         /\ DistinctItems(seq) /\ x.item \notin ItemsIn(seq)
              => DistinctItems(Append(seq, x))
<1> DEFINE new == Append(seq, x)
<1>1. /\ Len(seq) \in Nat /\ Len(new) = Len(seq) + 1
      /\ \A j \in 1 .. Len(seq) : new[j] = seq[j]
      /\ new[Len(seq) + 1] = x
  BY AppendProperties, LenProperties
<1> HIDE DEF new
<1>2. /\ \A j \in 1 .. Len(new) : j = Len(seq) + 1 \/ j \in 1 .. Len(seq)
      /\ \A j \in 1 .. Len(seq) : j \in 1 .. Len(new)
      /\ Len(seq) + 1 \in 1 .. Len(new)
  BY <1>1
<1>3. ItemsIn(new) = ItemsIn(seq) \cup {x.item}
  BY <1>1, <1>2 DEF ItemsIn
<1>4. ASSUME DistinctItems(seq), x.item \notin ItemsIn(seq) PROVE DistinctItems(new)
  <2>1. \A j \in 1 .. Len(seq) : seq[j].item # x.item
    BY <1>4 DEF ItemsIn
  <2> QED  BY <1>1, <1>2, <1>4, <2>1 DEF DistinctItems
<1> QED  BY <1>3, <1>4 DEF new

LEMMA SplitItems ==
  ASSUME NEW T, NEW seq \in Seq(T), NEW k \in 0 .. Len(seq), DistinctItems(seq)
  PROVE  LET a == SubSeq(seq, 1, k)
             b == SubSeq(seq, k + 1, Len(seq))
         IN  /\ ItemsIn(a) \cup ItemsIn(b) = ItemsIn(seq)
             /\ ItemsIn(a) \cap ItemsIn(b) = {}
             /\ DistinctItems(a) /\ DistinctItems(b)
<1> DEFINE a == SubSeq(seq, 1, k)
           b == SubSeq(seq, k + 1, Len(seq))
<1>1. /\ Len(seq) \in Nat /\ Len(a) = k /\ Len(b) = Len(seq) - k
      /\ \A j \in 1 .. k : a[j] = seq[j]
      /\ \A j \in 1 .. Len(seq) - k : b[j] = seq[k + j]
  BY TakeAndDrop, LenProperties
<1> HIDE DEF a, b
<1>2. /\ \A j \in 1 .. Len(a) : j \in 1 .. Len(seq) /\ a[j] = seq[j]
      /\ \A j \in 1 .. Len(b) : k + j \in 1 .. Len(seq) /\ b[j] = seq[k + j]
  BY <1>1
<1>3. \A j \in 1 .. Len(seq) :
        j \in 1 .. Len(a) \/ (j - k \in 1 .. Len(b) /\ k + (j - k) = j)
  BY <1>1
<1>4. \A j \in 1 .. Len(a), l \in 1 .. Len(b) : j # k + l
  BY <1>1
<1>5. ItemsIn(a) \subseteq ItemsIn(seq) /\ ItemsIn(b) \subseteq ItemsIn(seq)
  BY <1>2 DEF ItemsIn
<1>6. ASSUME NEW i \in ItemsIn(seq) PROVE i \in ItemsIn(a) \cup ItemsIn(b)
  <2>1. PICK j \in 1 .. Len(seq) : i = seq[j].item
    BY DEF ItemsIn
  <2>2. CASE j \in 1 .. Len(a)
    BY <1>2, <2>1, <2>2 DEF ItemsIn
  <2>3. CASE j - k \in 1 .. Len(b) /\ k + (j - k) = j
    <3>1. b[j - k].item = i
      BY <1>2, <2>1, <2>3
    <3> QED  BY <2>3, <3>1 DEF ItemsIn
  <2> QED  BY <1>3, <2>2, <2>3
<1>7. ItemsIn(a) \cap ItemsIn(b) = {}
  BY <1>2, <1>4 DEF ItemsIn, DistinctItems
<1>8. DistinctItems(a)
  BY <1>2 DEF DistinctItems
<1>9. DistinctItems(b)
  <2> SUFFICES ASSUME NEW j \in 1 .. Len(b), NEW l \in 1 .. Len(b),
                      b[j].item = b[l].item
               PROVE  j = l
    BY DEF DistinctItems
  <2>1. /\ k + j \in 1 .. Len(seq) /\ k + l \in 1 .. Len(seq)
        /\ seq[k + j].item = seq[k + l].item
    BY <1>2
  <2>2. k + j = k + l
    BY <2>1 DEF DistinctItems
  <2> QED  BY <1>1, <2>2
<1> QED  BY <1>5, <1>6, <1>7, <1>8, <1>9 DEF a, b

LEMMA TailQueue ==
  ASSUME queue \in Seq(Items), queue # <<>>, queue' = Tail(queue),
         \A j, k \in 1 .. Len(queue) : queue[j] = queue[k] => j = k
  PROVE  /\ Head(queue) \in QueuedItems
         /\ QueuedItems' = QueuedItems \ {Head(queue)}
         /\ \A j, k \in 1 .. Len(queue') : queue'[j] = queue'[k] => j = k
<1>1. /\ Len(queue) \in Nat /\ Len(queue') = Len(queue) - 1
      /\ \A j \in 1 .. Len(queue') : queue'[j] = queue[j + 1]
      /\ Len(queue) # 0 /\ Head(queue) = queue[1]
  BY HeadTailProperties, LenProperties, EmptySeq
<1>2. /\ \A j \in 1 .. Len(queue) : j = 1 \/ (j - 1 \in 1 .. Len(queue') /\ (j - 1) + 1 = j)
      /\ \A j \in 1 .. Len(queue') : j + 1 \in 1 .. Len(queue) /\ j + 1 # 1
      /\ 1 \in 1 .. Len(queue)
  BY <1>1
<1>3. QueuedItems' = {queue'[j] : j \in 1 .. Len(queue')}
  BY DEF QueuedItems
<1>4. ASSUME NEW i \in QueuedItems' PROVE i \in QueuedItems \ {Head(queue)}
  <2>1. PICK j \in 1 .. Len(queue') : i = queue[j + 1]
    BY <1>1, <1>3, <1>4
  <2> QED  BY <1>1, <1>2, <2>1 DEF QueuedItems
<1>5. ASSUME NEW i \in QueuedItems \ {Head(queue)} PROVE i \in QueuedItems'
  <2>1. PICK j \in 1 .. Len(queue) : i = queue[j]
    BY DEF QueuedItems
  <2>2. j - 1 \in 1 .. Len(queue') /\ queue'[j - 1] = queue[j]
    BY <1>1, <1>2, <2>1
  <2> QED  BY <1>3, <2>1, <2>2
<1>6. \A j, k \in 1 .. Len(queue') : queue'[j] = queue'[k] => j = k
  BY <1>1, <1>2
<1>7. Head(queue) \in QueuedItems
  BY <1>1, <1>2 DEF QueuedItems
<1> QED  BY <1>4, <1>5, <1>6, <1>7

\* The callers of S get one more result each.
LEMMA ReplyOnce ==
  ASSUME TypeOK, \A i \in Items : Len(replies[i]) <= 1,
         NEW S, S \subseteq Items, S \cap Answered = {},
         \A i \in S : \E r \in Results : replies'[i] = Append(replies[i], r),
         \A i \in Items \ S : replies'[i] = replies[i],
         DOMAIN replies' = Items
  PROVE  /\ \A i \in Items : Len(replies'[i]) <= 1
         /\ Answered' = Answered \cup S
<1>1. ASSUME NEW i \in S
      PROVE  Len(replies'[i]) <= 1 /\ replies'[i] # <<>>
  <2>1. replies[i] = <<>>
    BY DEF Answered
  <2>2. PICK r \in Results : replies'[i] = Append(<<>>, r)
    BY <2>1
  <2>3. <<>> \in Seq(Results) /\ Len(<<>>) = 0
    BY EmptySeq
  <2>4. Append(<<>>, r) \in Seq(Results) /\ Len(Append(<<>>, r)) = 1
    BY <2>3, AppendProperties
  <2> QED  BY <2>2, <2>3, <2>4
<1>2. Answered' = {i \in Items : replies'[i] # <<>>}
  BY DEF Answered
<1> QED  BY <1>1, <1>2 DEF Answered

LEMMA ItemTypes ==
  TypeOK => /\ QueuedItems \subseteq Items
            /\ ItemsIn(pending) \subseteq Items
            /\ ItemsIn(carry) \subseteq Items
            /\ ItemsIn(entries) \subseteq Items
            /\ ItemsOf(Active) \subseteq Items
            /\ Answered \subseteq Items
<1> SUFFICES ASSUME TypeOK
             PROVE  /\ QueuedItems \subseteq Items
                    /\ ItemsIn(pending) \subseteq Items
                    /\ ItemsIn(carry) \subseteq Items
                    /\ ItemsIn(entries) \subseteq Items
                    /\ ItemsOf(Active) \subseteq Items
                    /\ Answered \subseteq Items
  OBVIOUS
<1>1. \A j \in 1 .. Len(queue) : queue[j] \in Items
  BY ElementOfSeq DEF TypeOK
<1>2. /\ \A j \in 1 .. Len(pending) : pending[j] \in PendingPrefill
      /\ \A j \in 1 .. Len(carry) : carry[j] \in PendingPrefill
  BY ElementOfSeq DEF TypeOK
<1>3. \A j \in 1 .. Len(entries) : entries[j] \in PrefillEntry
  BY ElementOfSeq DEF TypeOK
<1>4. \A s \in Active : slots[s] \in Slot
  BY DEF TypeOK
<1> QED  BY <1>1, <1>2, <1>3, <1>4
         DEF QueuedItems, ItemsIn, ItemsOf, Answered, PendingPrefill,
             PrefillEntry, Slot

\* At most one result per item, besides the places it may be in.
ReplyBound == \A i \in Items : Len(replies[i]) <= 1

LEMMA EndThreadItems ==
  TypeOK /\ OneHolder /\ ReplyBound /\ EndThread => OneHolder' /\ ReplyBound'
<1> SUFFICES ASSUME TypeOK, OneHolder, ReplyBound, EndThread
             PROVE  OneHolder' /\ ReplyBound'
  OBVIOUS
<1>1. /\ Len(queue') = 0 /\ Len(pending') = 0 /\ Len(carry') = 0
      /\ Len(entries') = 0 /\ Active' = {}
  BY EmptySeq DEF EndThread, Active
<1>2. /\ QueuedItems' = {} /\ ItemsIn(pending)' = {} /\ ItemsIn(carry)' = {}
      /\ ItemsIn(entries)' = {} /\ ItemsOf(Active)' = {}
  BY <1>1 DEF QueuedItems, ItemsIn, ItemsOf
<1>3. Answered' = Answered /\ submitted' = submitted /\ replies' = replies
  BY DEF EndThread, Answered
<1>4. HeldItems' = {}
  BY <1>2 DEF HeldItems
<1> QED  BY <1>1, <1>2, <1>3, <1>4 DEF OneHolder, ReplyBound, DistinctItems

LEMMA TokenizeItems ==
  TypeOK /\ OneHolder /\ ReplyBound /\ Tokenize
    /\ UNCHANGED <<carry, entries, slots, submitted>>
      => OneHolder' /\ ReplyBound'
<1> SUFFICES ASSUME TypeOK, OneHolder, ReplyBound, Tokenize,
                    UNCHANGED <<carry, entries, slots, submitted>>
             PROVE  OneHolder' /\ ReplyBound'
  OBVIOUS
<1> DEFINE h == Head(queue)
<1>1. /\ h \in QueuedItems /\ QueuedItems' = QueuedItems \ {h}
      /\ \A j, k \in 1 .. Len(queue') : queue'[j] = queue'[k] => j = k
  BY TailQueue DEF Tokenize, TypeOK, OneHolder
<1>2. /\ ItemsIn(carry)' = ItemsIn(carry) /\ ItemsIn(entries)' = ItemsIn(entries)
      /\ ItemsOf(Active)' = ItemsOf(Active) /\ Active' = Active
      /\ DistinctItems(carry)' /\ DistinctItems(entries)'
      /\ \A s, t \in Active' : slots'[s].item = slots'[t].item => s = t
  BY DEF ItemsIn, ItemsOf, Active, OneHolder, DistinctItems
<1>3. h \in Items
  BY <1>1, ItemTypes
<1>4. CASE \E r \in Results : Reply(h, r) /\ UNCHANGED pending
  <2>1. ReplyBound' /\ Answered' = Answered \cup {h}
    <3>1. {h} \subseteq Items /\ {h} \cap Answered = {}
      BY <1>1, <1>3 DEF OneHolder
    <3>2. /\ \E r \in Results : replies'[h] = Append(replies[h], r)
          /\ \A i \in Items \ {h} : replies'[i] = replies[i]
          /\ DOMAIN replies' = Items
      BY <1>3, <1>4 DEF Reply, TypeOK
    <3>3. \A i \in {h} : \E r \in Results : replies'[i] = Append(replies[i], r)
      BY <3>2
    <3> HIDE DEF h
    <3> QED  BY <3>1, <3>2, <3>3, ReplyOnce DEF ReplyBound
  <2>2. ItemsIn(pending)' = ItemsIn(pending) /\ DistinctItems(pending)'
    BY <1>4 DEF ItemsIn, DistinctItems, OneHolder
  <2> QED  BY <1>1, <1>2, <2>1, <2>2 DEF OneHolder, HeldItems
<1>5. CASE \E n \in PromptLens :
             /\ ~TooLong(n)
             /\ pending' = Append(pending, [item |-> h, len |-> n])
             /\ UNCHANGED replies
  <2>1. PICK n \in PromptLens :
          ~TooLong(n) /\ pending' = Append(pending, [item |-> h, len |-> n])
    BY <1>5
  <2>2. [item |-> h, len |-> n] \in PendingPrefill
    <3>1. n \in 1 .. MaxPrompt
      BY <2>1, PromptsNonempty, MaxPromptType DEF TooLong
    <3> QED  BY <1>3, <3>1 DEF PendingPrefill
  <2>3. h \notin ItemsIn(pending)
    BY <1>1 DEF OneHolder, HeldItems
  <2>4. ItemsIn(pending)' = ItemsIn(pending) \cup {h} /\ DistinctItems(pending)'
    BY <2>1, <2>2, <2>3, AppendItems DEF TypeOK, OneHolder
  <2>5. Answered' = Answered /\ ReplyBound'
    BY <1>5 DEF Answered, ReplyBound
  <2> QED  BY <1>1, <1>2, <2>4, <2>5 DEF OneHolder, HeldItems
<1> QED  BY <1>4, <1>5 DEF Tokenize, Results

\* Only the lists of prompts changed, and the same items are in them.
LEMMA SplitStep ==
  ASSUME TypeOK, OneHolder, ReplyBound, DistinctItems(pending'), DistinctItems(carry'),
         UNCHANGED <<queue, entries, slots, submitted, replies>>,
         ItemsIn(pending') \cap ItemsIn(carry') = {},
         ItemsIn(pending') \cup ItemsIn(carry')
           \subseteq ItemsIn(pending) \cup ItemsIn(carry)
  PROVE  OneHolder' /\ ReplyBound'
<1>1. /\ QueuedItems' = QueuedItems /\ ItemsIn(entries)' = ItemsIn(entries)
      /\ ItemsOf(Active)' = ItemsOf(Active) /\ Active' = Active
      /\ Answered' = Answered
  BY DEF QueuedItems, ItemsIn, ItemsOf, Active, Answered
<1>2. HeldItems' \subseteq HeldItems
  BY <1>1 DEF HeldItems
<1> QED  BY <1>1, <1>2 DEF OneHolder, ReplyBound, HeldItems

LEMMA CollectItems ==
  PoolInv /\ OneHolder /\ ReplyBound
    /\ (FillTop \/ Refill \/ AccumulateDone) => OneHolder' /\ ReplyBound'
<1> SUFFICES ASSUME TypeOK, BatchFits, OneHolder, ReplyBound,
                    FillTop \/ Refill \/ AccumulateDone
             PROVE  OneHolder' /\ ReplyBound'
  BY DEF PoolInv
<1>1. Len(carry) \in Nat /\ Len(pending) \in Nat
  BY LenProperties DEF TypeOK
<1>2. DistinctItems(carry) /\ DistinctItems(pending)
  BY DEF OneHolder
<1>3. ASSUME NEW next, StartFill(next)
      PROVE  OneHolder' /\ ReplyBound'
  <2> DEFINE n == Cardinality(EmptySlots)
             k == FromCarry(n)
  <2>1. n \in Nat
    BY CountSlots DEF TypeOK
  <2>2. k \in 0 .. Len(carry)
    BY <1>1, <2>1 DEF FromCarry
  <2>3. pending' = SubSeq(carry, 1, k) /\ carry' = SubSeq(carry, k + 1, Len(carry))
    BY <1>3 DEF StartFill, CarryLeft
  <2> HIDE DEF n, k
  <2>4. /\ ItemsIn(pending') \cup ItemsIn(carry') = ItemsIn(carry)
        /\ ItemsIn(pending') \cap ItemsIn(carry') = {}
        /\ DistinctItems(pending') /\ DistinctItems(carry')
    BY <1>2, <2>2, <2>3, SplitItems DEF TypeOK
  <2> QED  BY <1>3, <2>4, SplitStep DEF StartFill, queueVars, batchVars, slotVars
<1>4. CASE AccumulateDone /\ Overflow
  <2>1. NSlots \in 0 .. Len(pending)
    BY <1>1, <1>4, SlotsPositive DEF Overflow
  <2>2. /\ pending' = SubSeq(pending, 1, NSlots)
        /\ carry' = SubSeq(pending, NSlots + 1, Len(pending))
    BY <1>4 DEF AccumulateDone, Deferred
  <2>3. /\ ItemsIn(pending') \cup ItemsIn(carry') = ItemsIn(pending)
        /\ ItemsIn(pending') \cap ItemsIn(carry') = {}
        /\ DistinctItems(pending') /\ DistinctItems(carry')
    BY <1>2, <2>1, <2>2, SplitItems DEF TypeOK
  <2> QED  BY <1>4, <2>3, SplitStep DEF AccumulateDone, queueVars, batchVars, slotVars
<1>5. CASE AccumulateDone /\ ~Overflow
  <2>1. ItemsIn(pending) \cap ItemsIn(carry) = {}
    BY DEF OneHolder
  <2>2. UNCHANGED <<pending, carry, queue, entries, slots, submitted, replies>>
    BY <1>5 DEF AccumulateDone, queueVars, batchVars, slotVars
  <2> QED  BY <1>2, <2>1, <2>2, SplitStep
<1> QED  BY <1>3, <1>4, <1>5 DEF FillTop, Refill

LEMMA BuildItems ==
  TypeOK /\ OneHolder /\ ReplyBound /\ BuildEntry => OneHolder' /\ ReplyBound'
<1> SUFFICES ASSUME TypeOK, OneHolder, ReplyBound, BuildEntry
             PROVE  OneHolder' /\ ReplyBound'
  OBVIOUS
<1> USE DEF queueVars, collectVars, batchVars, slotVars
<1> DEFINE p == Head(pending)
<1>1. /\ p.item \in ItemsIn(pending)
      /\ ItemsIn(Tail(pending)) = ItemsIn(pending) \ {p.item}
      /\ DistinctItems(Tail(pending))
      /\ p \in PendingPrefill /\ p.item \in Items
  <2>1. pending \in Seq(PendingPrefill) /\ pending # <<>> /\ DistinctItems(pending)
    BY DEF TypeOK, OneHolder, BuildEntry
  <2>2. p \in PendingPrefill
    BY <2>1, HeadTailProperties
  <2> QED  BY <2>1, <2>2, TailItems DEF PendingPrefill
<1>2. CASE EndThread
  BY <1>2, EndThreadItems
<1>3. CASE ~EndThread
  <2>1. /\ pending' = Tail(pending) /\ UNCHANGED <<queue, submitted, carry, slots>>
        /\ \/ Reply(p.item, "model") /\ UNCHANGED entries
           \/ /\ UNCHANGED replies
              /\ \E q \in free : entries' = Append(entries,
                                   [item |-> p.item, len |-> p.len, seq |-> q])
    BY <1>3 DEF BuildEntry
  <2>2. /\ QueuedItems' = QueuedItems /\ ItemsIn(carry)' = ItemsIn(carry)
        /\ ItemsOf(Active)' = ItemsOf(Active) /\ Active' = Active
        /\ DistinctItems(carry)'
        /\ \A j, k \in 1 .. Len(queue') : queue'[j] = queue'[k] => j = k
        /\ \A s, t \in Active' : slots'[s].item = slots'[t].item => s = t
    BY <2>1 DEF QueuedItems, ItemsIn, ItemsOf, Active, OneHolder, DistinctItems
  <2>2a. /\ DistinctItems(pending)'
         /\ ItemsIn(pending)' = ItemsIn(pending) \ {p.item}
    BY <1>1, <2>1
  <2>3. CASE Reply(p.item, "model") /\ UNCHANGED entries
    <3>1. /\ \A i \in {p.item} : \E r \in Results : replies'[i] = Append(replies[i], r)
          /\ \A i \in Items \ {p.item} : replies'[i] = replies[i]
          /\ DOMAIN replies' = Items
      BY <1>1, <2>3 DEF Reply, TypeOK, Results
    <3>2. {p.item} \subseteq Items /\ {p.item} \cap Answered = {}
      BY <1>1 DEF OneHolder
    <3>3. ReplyBound' /\ Answered' = Answered \cup {p.item}
      BY <3>1, <3>2, ReplyOnce DEF ReplyBound
    <3>4. ItemsIn(entries)' = ItemsIn(entries) /\ DistinctItems(entries)'
      BY <2>3 DEF ItemsIn, DistinctItems, OneHolder
    <3> QED  BY <1>1, <2>1, <2>2, <2>2a, <3>3, <3>4 DEF OneHolder, HeldItems
  <2>4. CASE /\ UNCHANGED replies
             /\ \E q \in free : entries' = Append(entries,
                                  [item |-> p.item, len |-> p.len, seq |-> q])
    <3>1. PICK q \in free : entries' = Append(entries,
                                 [item |-> p.item, len |-> p.len, seq |-> q])
      BY <2>4
    <3>2. [item |-> p.item, len |-> p.len, seq |-> q] \in PrefillEntry
      BY <1>1 DEF PendingPrefill, PrefillEntry, TypeOK
    <3>3. p.item \notin ItemsIn(entries)
      BY <1>1 DEF OneHolder
    <3>4. /\ ItemsIn(entries)' = ItemsIn(entries) \cup {p.item}
          /\ DistinctItems(entries)'
      BY <3>1, <3>2, <3>3, AppendItems DEF TypeOK, OneHolder
    <3>5. Answered' = Answered /\ ReplyBound'
      BY <2>4 DEF Answered, ReplyBound
    <3> QED  BY <1>1, <2>1, <2>2, <2>2a, <3>4, <3>5 DEF OneHolder, HeldItems
  <2> QED  BY <2>1, <2>3, <2>4
<1> QED  BY <1>2, <1>3

LEMMA PrefillFailsItems ==
  TypeOK /\ OneHolder /\ ReplyBound /\ PrefillFails => OneHolder' /\ ReplyBound'
<1> SUFFICES ASSUME TypeOK, OneHolder, ReplyBound, PrefillFails
             PROVE  OneHolder' /\ ReplyBound'
  OBVIOUS
<1>1. UNCHANGED <<queue, submitted, pending, carry, slots>> /\ Len(entries') = 0
  BY EmptySeq DEF PrefillFails, queueVars, collectVars
<1>2. /\ QueuedItems' = QueuedItems /\ ItemsIn(pending)' = ItemsIn(pending)
      /\ ItemsIn(carry)' = ItemsIn(carry) /\ ItemsIn(entries)' = {}
      /\ ItemsOf(Active)' = ItemsOf(Active) /\ Active' = Active
      /\ DistinctItems(pending)' /\ DistinctItems(carry)' /\ DistinctItems(entries)'
      /\ \A j, k \in 1 .. Len(queue') : queue'[j] = queue'[k] => j = k
      /\ \A s, t \in Active' : slots'[s].item = slots'[t].item => s = t
  BY <1>1 DEF QueuedItems, ItemsIn, ItemsOf, Active, OneHolder, DistinctItems
<1>3. ReplyBound' /\ Answered' = Answered \cup ItemsIn(entries)
  <2>1. ItemsIn(entries) \subseteq Items /\ ItemsIn(entries) \cap Answered = {}
    BY ItemTypes DEF OneHolder
  <2>2. replies' = [i \in Items |-> IF i \in ItemsIn(entries)
                                   THEN Append(replies[i], "model") ELSE replies[i]]
    BY DEF PrefillFails, ItemsIn
  <2>3. /\ \A i \in ItemsIn(entries) : \E r \in Results : replies'[i] = Append(replies[i], r)
        /\ \A i \in Items \ ItemsIn(entries) : replies'[i] = replies[i]
        /\ DOMAIN replies' = Items
    BY <2>1, <2>2 DEF Results
  <2> QED  BY <2>1, <2>3, ReplyOnce DEF ReplyBound
<1> QED  BY <1>1, <1>2, <1>3 DEF OneHolder, HeldItems

LEMMA AssignItems ==
  TypeOK /\ OneHolder /\ ReplyBound /\ AssignEntry => OneHolder' /\ ReplyBound'
<1> SUFFICES ASSUME TypeOK, OneHolder, ReplyBound, AssignEntry
             PROVE  OneHolder' /\ ReplyBound'
  OBVIOUS
<1> DEFINE e == Head(entries)
<1>1. /\ e.item \in ItemsIn(entries) /\ e.item \in Items
      /\ ItemsIn(Tail(entries)) = ItemsIn(entries) \ {e.item}
      /\ DistinctItems(Tail(entries))
  <2>1. entries \in Seq(PrefillEntry) /\ entries # <<>> /\ DistinctItems(entries)
    BY DEF TypeOK, OneHolder, AssignEntry
  <2>2. e \in PrefillEntry
    BY <2>1, HeadTailProperties
  <2> QED  BY <2>1, <2>2, TailItems DEF PrefillEntry
<1>2. UNCHANGED <<queue, submitted, pending, carry>> /\ entries' = Tail(entries)
  BY DEF AssignEntry, queueVars, collectVars
<1>3. /\ QueuedItems' = QueuedItems /\ ItemsIn(pending)' = ItemsIn(pending)
      /\ ItemsIn(carry)' = ItemsIn(carry)
      /\ DistinctItems(pending)' /\ DistinctItems(carry)'
      /\ \A j, k \in 1 .. Len(queue') : queue'[j] = queue'[k] => j = k
  BY <1>2 DEF QueuedItems, ItemsIn, OneHolder, DistinctItems
<1>4. ItemsIn(entries)' = ItemsIn(entries) \ {e.item} /\ DistinctItems(entries)'
  BY <1>1, <1>2
<1>5. ASSUME NEW r \in Results, DropEntry(e, r)
      PROVE  OneHolder' /\ ReplyBound'
  <2>1. /\ \A i \in {e.item} : \E x \in Results : replies'[i] = Append(replies[i], x)
        /\ \A i \in Items \ {e.item} : replies'[i] = replies[i]
        /\ DOMAIN replies' = Items
    BY <1>1, <1>5 DEF DropEntry, Reply, TypeOK
  <2>2. {e.item} \subseteq Items /\ {e.item} \cap Answered = {}
    BY <1>1 DEF OneHolder
  <2>3. ReplyBound' /\ Answered' = Answered \cup {e.item}
    BY <2>1, <2>2, ReplyOnce DEF ReplyBound
  <2>4. /\ ItemsOf(Active)' = ItemsOf(Active)
        /\ \A s, t \in Active' : slots'[s].item = slots'[t].item => s = t
    BY <1>5 DEF DropEntry, ItemsOf, Active, OneHolder
  <2> QED  BY <1>1, <1>2, <1>3, <1>4, <2>3, <2>4 DEF OneHolder, HeldItems
<1>6. ASSUME NEW s \in EmptySlots, UNCHANGED replies,
             slots' = Occupy(s, [item |-> e.item, seq |-> e.seq,
                                 pos |-> e.len, out |-> 1])
      PROVE  OneHolder' /\ ReplyBound'
  <2>1. /\ Active' = Active \cup {s} /\ s \notin Active
        /\ slots'[s].item = e.item
        /\ \A t \in Active : slots'[t] = slots[t]
    BY <1>6 DEF Occupy, Active, EmptySlots
  <2>2. ItemsOf(Active)' = ItemsOf(Active) \cup {e.item}
    BY <2>1 DEF ItemsOf
  <2>3. \A t \in Active : slots[t].item # e.item
    BY <1>1 DEF OneHolder, ItemsOf
  <2>4. \A t, u \in Active' : slots'[t].item = slots'[u].item => t = u
    BY <2>1, <2>3 DEF OneHolder
  <2>5. Answered' = Answered /\ ReplyBound'
    BY <1>6 DEF Answered, ReplyBound
  <2> QED  BY <1>1, <1>2, <1>3, <1>4, <2>2, <2>4, <2>5 DEF OneHolder, HeldItems
<1> QED  BY <1>5, <1>6 DEF AssignEntry, Results

LEMMA DecodeItems ==
  TypeOK /\ OneHolder /\ ReplyBound /\ (DecodeOk \/ DecodeFails)
    => OneHolder' /\ ReplyBound'
<1> SUFFICES ASSUME TypeOK, OneHolder, ReplyBound, DecodeOk \/ DecodeFails
             PROVE  OneHolder' /\ ReplyBound'
  OBVIOUS
<1>1. PICK done \in SUBSET Active :
        /\ Active' = Active \ done
        /\ \A s \in Active \ done : slots'[s].item = slots[s].item
        /\ \A i \in ItemsOf(done) : \E r \in Results : replies'[i] = Append(replies[i], r)
        /\ \A i \in Items \ ItemsOf(done) : replies'[i] = replies[i]
        /\ DOMAIN replies' = Items
  <2>1. CASE DecodeOk
    <3>1. PICK done \in SUBSET Active : \E bad \in SUBSET done :
            /\ slots' = [s \in Active \ done |->
                           [slots[s] EXCEPT !.pos = @ + 1, !.out = @ + 1]]
            /\ replies' = [i \in Items |->
                  IF i \in ItemsOf(bad) THEN Append(replies[i], "model")
                  ELSE IF i \in ItemsOf(done) THEN Append(replies[i], "ok")
                  ELSE replies[i]]
      BY <2>1 DEF DecodeOk
    <3>2. PICK bad \in SUBSET done :
            replies' = [i \in Items |->
                  IF i \in ItemsOf(bad) THEN Append(replies[i], "model")
                  ELSE IF i \in ItemsOf(done) THEN Append(replies[i], "ok")
                  ELSE replies[i]]
      BY <3>1
    <3>3. ItemsOf(bad) \subseteq ItemsOf(done) /\ ItemsOf(done) \subseteq Items
      BY ItemTypes DEF ItemsOf
    <3>4. /\ \A i \in ItemsOf(done) : \E r \in Results : replies'[i] = Append(replies[i], r)
          /\ \A i \in Items \ ItemsOf(done) : replies'[i] = replies[i]
          /\ DOMAIN replies' = Items
      BY <3>2, <3>3 DEF Results
    <3>5. /\ Active' = Active \ done
          /\ \A s \in Active \ done : slots'[s].item = slots[s].item
      BY <3>1 DEF Active, TypeOK, Slot
    <3> QED  BY <3>4, <3>5
  <2>2. CASE DecodeFails
    <3>1. /\ Active' = {}
          /\ replies' = [i \in Items |-> IF i \in ItemsOf(Active)
                                         THEN Append(replies[i], "model")
                                         ELSE replies[i]]
      BY <2>2 DEF DecodeFails, Active
    <3>2. ItemsOf(Active) \subseteq Items
      BY ItemTypes
    <3>3. /\ \A i \in ItemsOf(Active) : \E r \in Results : replies'[i] = Append(replies[i], r)
          /\ \A i \in Items \ ItemsOf(Active) : replies'[i] = replies[i]
          /\ DOMAIN replies' = Items
      BY <3>1, <3>2 DEF Results
    <3> QED  BY <3>1, <3>3
  <2> QED  BY <2>1, <2>2
<1>2. UNCHANGED <<queue, submitted, pending, carry, entries>>
  BY DEF DecodeOk, DecodeFails, queueVars, collectVars, batchVars
<1>3. /\ QueuedItems' = QueuedItems /\ ItemsIn(pending)' = ItemsIn(pending)
      /\ ItemsIn(carry)' = ItemsIn(carry) /\ ItemsIn(entries)' = ItemsIn(entries)
      /\ DistinctItems(pending)' /\ DistinctItems(carry)' /\ DistinctItems(entries)'
      /\ \A j, k \in 1 .. Len(queue') : queue'[j] = queue'[k] => j = k
  BY <1>2 DEF QueuedItems, ItemsIn, OneHolder, DistinctItems
<1>4. /\ ItemsOf(Active)' = ItemsOf(Active) \ ItemsOf(done)
      /\ \A s, t \in Active' : slots'[s].item = slots'[t].item => s = t
  <2>1. ItemsOf(Active)' = {slots[s].item : s \in Active \ done}
    BY <1>1 DEF ItemsOf
  <2>2. \A s \in Active \ done : slots[s].item \notin ItemsOf(done)
    BY DEF ItemsOf, OneHolder
  <2>3. ItemsOf(Active)' = ItemsOf(Active) \ ItemsOf(done)
    BY <2>1, <2>2 DEF ItemsOf
  <2>4. \A s, t \in Active \ done : slots[s].item = slots[t].item => s = t
    BY DEF OneHolder
  <2> QED  BY <1>1, <2>3, <2>4
<1>5. ReplyBound' /\ Answered' = Answered \cup ItemsOf(done)
  <2>1. /\ ItemsOf(done) \subseteq ItemsOf(Active)
        /\ ItemsOf(done) \subseteq Items /\ ItemsOf(done) \cap Answered = {}
    BY ItemTypes DEF OneHolder, ItemsOf
  <2> QED  BY <1>1, <2>1, ReplyOnce DEF ReplyBound
<1>6. ItemsOf(done) \subseteq ItemsOf(Active)
  BY DEF ItemsOf
<1> QED  BY <1>2, <1>3, <1>4, <1>5, <1>6 DEF OneHolder, HeldItems

LEMMA SubmitItems ==
  ASSUME TypeOK, OneHolder, ReplyBound, NEW i \in Items, Submit(i)
  PROVE  OneHolder' /\ ReplyBound'
<1>1. UNCHANGED <<pending, carry, entries, slots, replies>>
  BY DEF Submit, collectVars, batchVars, slotVars
<1>2. /\ ItemsIn(pending)' = ItemsIn(pending) /\ ItemsIn(carry)' = ItemsIn(carry)
      /\ ItemsIn(entries)' = ItemsIn(entries) /\ ItemsOf(Active)' = ItemsOf(Active)
      /\ DistinctItems(pending)' /\ DistinctItems(carry)' /\ DistinctItems(entries)'
      /\ \A s, t \in Active' : slots'[s].item = slots'[t].item => s = t
      /\ Answered' = Answered /\ ReplyBound'
  BY <1>1 DEF ItemsIn, ItemsOf, Active, Answered, DistinctItems, OneHolder, ReplyBound
<1>3. /\ Len(queue) \in Nat /\ Len(queue') = Len(queue) + 1
      /\ \A j \in 1 .. Len(queue) : queue'[j] = queue[j]
      /\ queue'[Len(queue) + 1] = i
  BY AppendProperties, LenProperties DEF Submit, TypeOK
<1>4. /\ \A j \in 1 .. Len(queue') : j = Len(queue) + 1 \/ j \in 1 .. Len(queue)
      /\ \A j \in 1 .. Len(queue) : j \in 1 .. Len(queue')
      /\ Len(queue) + 1 \in 1 .. Len(queue')
  BY <1>3
<1>5. QueuedItems' = QueuedItems \cup {i}
  BY <1>3, <1>4 DEF QueuedItems
<1>6. i \notin QueuedItems \cup HeldItems \cup Answered /\ submitted' = submitted \cup {i}
  BY DEF Submit, OneHolder
<1>7. \A j, k \in 1 .. Len(queue') : queue'[j] = queue'[k] => j = k
  <2>1. \A j \in 1 .. Len(queue) : queue[j] # i
    BY <1>6 DEF QueuedItems
  <2> QED  BY <1>3, <1>4, <2>1 DEF OneHolder
<1> QED  BY <1>2, <1>5, <1>6, <1>7 DEF OneHolder, HeldItems

LEMMA NextItems ==
  PoolInv /\ OneHolder /\ ReplyBound /\ [Next]_vars => OneHolder' /\ ReplyBound'
<1> SUFFICES ASSUME PoolInv, TypeOK, OneHolder, ReplyBound, [Next]_vars
             PROVE  OneHolder' /\ ReplyBound'
  BY DEF PoolInv
<1> USE DEF queueVars, collectVars, batchVars, slotVars
<1>1. CASE UNCHANGED <<queue, pending, carry, entries, slots, submitted, replies>>
  <2>1. UNCHANGED <<QueuedItems, ItemsIn(pending), ItemsIn(carry), ItemsIn(entries),
                    ItemsOf(Active), Active, Answered>>
    BY <1>1 DEF QueuedItems, ItemsIn, ItemsOf, Active, Answered
  <2>2. HeldItems' = HeldItems
    BY <2>1 DEF HeldItems
  <2> QED  BY <1>1, <2>1, <2>2 DEF OneHolder, ReplyBound, DistinctItems
<1>2. CASE ContextFails \/ Panic \/ Shutdown
  BY <1>2, EndThreadItems DEF ContextFails, Panic, Shutdown
<1>3. CASE Collect \/ IdleReceive \/ Accumulate
  BY <1>3, TokenizeItems DEF Collect, IdleReceive, Accumulate
<1>4. CASE FillTop \/ Refill \/ AccumulateDone
  BY <1>4, CollectItems
<1>5. CASE BuildEntry
  BY <1>5, BuildItems
<1>6. CASE PrefillFails
  BY <1>6, PrefillFailsItems
<1>7. CASE AssignEntry
  BY <1>7, AssignItems
<1>8. CASE DecodeOk \/ DecodeFails
  BY <1>8, DecodeItems
<1>9. CASE \E i \in Items : Submit(i)
  BY <1>9, SubmitItems
<1>10. CASE \/ CreateContext \/ CollectDone \/ PrefillOk \/ AssignDone
            \/ CloseChannel \/ Terminated \/ UNCHANGED vars
  BY <1>1, <1>10 DEF CreateContext, CollectDone, PrefillOk, AssignDone,
     CloseChannel, Terminated, vars
<1> QED
  BY <1>2, <1>3, <1>4, <1>5, <1>6, <1>7, <1>8, <1>9, <1>10
  DEF Next, Thread, Callers

LEMMA InitItems == Init => OneHolder /\ ReplyBound
<1> SUFFICES ASSUME Init PROVE OneHolder /\ ReplyBound
  OBVIOUS
<1>1. /\ Len(queue) = 0 /\ Len(pending) = 0 /\ Len(carry) = 0
      /\ Len(entries) = 0 /\ Active = {} /\ submitted = {}
      /\ \A i \in Items : replies[i] = <<>> /\ Len(replies[i]) = 0
  BY EmptySeq DEF Init, Active
<1>2. /\ QueuedItems = {} /\ ItemsIn(pending) = {} /\ ItemsIn(carry) = {}
      /\ ItemsIn(entries) = {} /\ ItemsOf(Active) = {} /\ Answered = {}
  BY <1>1 DEF QueuedItems, ItemsIn, ItemsOf, Answered
<1> QED  BY <1>1, <1>2 DEF OneHolder, ReplyBound, DistinctItems, HeldItems

\* Every item has at most one holder, whatever fails: the channel, one of the
\* thread's lists, one slot, or its caller that has the answer.
THEOREM HolderSafety == Spec => []OneHolder
<1>1. PoolInv /\ OneHolder /\ ReplyBound /\ [Next]_vars
        => (PoolInv /\ OneHolder /\ ReplyBound)'
  BY NextTypes, NextPools, NextFits, NextItems DEF PoolInv
<1>2. Init => PoolInv /\ OneHolder /\ ReplyBound
  BY InitTypes, InitPools, InitItems DEF PoolInv
<1> QED  BY <1>1, <1>2, PTL DEF Spec

\* No item is ever answered twice or answered while it is still queued or held,
\* so a caller that counts its replies cannot count one item for another.
THEOREM ReplySafety == Spec => []AnsweredOnce
<1>1. PoolInv /\ OneHolder /\ ReplyBound /\ [Next]_vars
        => (PoolInv /\ OneHolder /\ ReplyBound)'
  BY NextTypes, NextPools, NextFits, NextItems DEF PoolInv
<1>2. Init => PoolInv /\ OneHolder /\ ReplyBound
  BY InitTypes, InitPools, InitItems DEF PoolInv
<1>3. OneHolder /\ ReplyBound => AnsweredOnce
  BY DEF OneHolder, ReplyBound, AnsweredOnce, HeldItems
<1> QED  BY <1>1, <1>2, <1>3, PTL DEF Spec

=============================================================================
